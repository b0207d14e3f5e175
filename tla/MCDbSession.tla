---------------------------- MODULE MCDbSession -----------------------------
(* DbSession on a few handler executions about one or two users.           *)
EXTENDS DbSession, TLC

CONSTANTS s1, s2, u1, u2

One(keys) == {<< [uid |-> u1, keys |-> keys] >>}
Two == {<< [uid |-> u1, keys |-> {1}], [uid |-> u2, keys |-> {1}] >>}

Mix(op, plans) ==
    [op |-> op, plans |-> plans, kill |-> 0, stop |-> 0, restart |-> 0, loss |-> 0, fail |-> 0]

Interleaved == Mix(3, One({1, 2}) \cup Two)
Lossy       == [Mix(3, One({1})) EXCEPT !.loss = 1]
LossyTwo    == [Mix(2, Two) EXCEPT !.loss = 2]
Crashing    == [Mix(3, One({1})) EXCEPT !.kill = 1, !.stop = 1]
Failing     == [Mix(3, One({1, 2})) EXCEPT !.stop = 1, !.fail = 1]

SomeMixes    == {Interleaved, Lossy, LossyTwo, Crashing, Failing}
RestartMixes == {[Mix(3, One({1}) \cup Two) EXCEPT !.restart = 1]}
UnversMixes  == {[Mix(3, One({1, 2})) EXCEPT !.restart = 1]}

Servers == Permutations({s1, s2})
=============================================================================
