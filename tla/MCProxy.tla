------------------------------ MODULE MCProxy -------------------------------
(* Proxy with two servers that send to each other, or one to the other.    *)
EXTENDS Proxy, TLC

CONSTANTS a, b

AtoB == {<<a, b>>}
Both == {<<a, b>>, <<b, a>>}
Mix(f) == [k \in Kinds |-> IF k \in DOMAIN f THEN f[k] ELSE 0]
SomeMixes ==
    {Mix([send |-> 3, again |-> 3]),
     Mix([send |-> 3, again |-> 2, cut |-> 1, late |-> 1]),
     Mix([send |-> 3, again |-> 1, cut |-> 2]),
     Mix([send |-> 3, again |-> 1, server |-> 2]),
     Mix([send |-> 2, server |-> 1, proxy |-> 1, cut |-> 1]),
     Mix([send |-> 3, proxy |-> 2]),
     Mix([send |-> 3, part |-> 1, cut |-> 1, full |-> 1])}
OneDies == {Mix([send |-> 1, proxy |-> 1])}
=============================================================================
