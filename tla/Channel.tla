------------------------------ MODULE Channel -------------------------------
(***************************************************************************)
(* What one server may rely on for its messages to another by one proxy (a *)
(* lane): any of them may be lost, and those that come do so once and in   *)
(* the order they were sent in.  The messages of a lane are numbered from  *)
(* 1; lanes are independent.                                               *)
(***************************************************************************)
EXTENDS Naturals

CONSTANT Lane

VARIABLES sent,    \* number of the latest message of a lane
          flight,  \* messages on their way
          got      \* number of the latest one that came

vars == <<sent, flight, got>>

Init == \A l \in Lane : sent[l] = 0 /\ flight[l] = {} /\ got[l] = 0

Send(l) == /\ sent'[l] = sent[l] + 1
           /\ flight'[l] \subseteq flight[l] \cup {sent[l] + 1}
           /\ got'[l] = got[l]

Deliver(l) == \E n \in flight[l] : /\ got'[l] = n
                                   /\ flight'[l] = {m \in flight[l] : m > n}
                                   /\ sent'[l] = sent[l]

Lose(l) == flight'[l] \subseteq flight[l] /\ sent'[l] = sent[l] /\ got'[l] = got[l]

Next == \A l \in Lane : Send(l) \/ Deliver(l) \/ Lose(l)

Spec == Init /\ [][Next]_vars

(* What is on its way was sent after everything that came.                 *)
Ahead == \A l \in Lane : /\ sent[l] \in Nat /\ got[l] \in Nat /\ got[l] <= sent[l]
                         /\ \A n \in flight[l] : n \in Nat /\ got[l] < n /\ n <= sent[l]

(* No message comes twice or after a later one.                            *)
Forwards(l) == got'[l] = got[l] \/ got'[l] > got[l]
Forward == [][\A l \in Lane : Forwards(l)]_vars
=============================================================================
