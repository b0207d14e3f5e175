-------------------------------- MODULE Fifo --------------------------------
(***************************************************************************)
(* What a one-way pipe between two processes of the game server promises   *)
(* its users: the messages its writer managed to append reach the reader   *)
(* whole, once each, and in the order they were appended.                  *)
(***************************************************************************)
EXTENDS Sequences

CONSTANT Msg        \* the messages a writer may append

VARIABLES queue,    \* the messages appended and not yet taken, oldest first
          out       \* the message the last successful read returned

vars == <<queue, out>>

TypeOK == /\ queue \in Seq(Msg)
          /\ out \in Msg \cup {<< >>}

Init == /\ queue = << >>
        /\ out = << >>

(* An append that finds room.                                              *)
Put(m) == /\ queue' = Append(queue, m)
          /\ UNCHANGED out

(* A successful read: the oldest message, and that one only.               *)
Take == /\ queue # << >>
        /\ out' = Head(queue)
        /\ queue' = Tail(queue)

Next == Take \/ \E m \in Msg : Put(m)

Spec == Init /\ [][Next]_vars

(* With a reader that keeps polling, nothing stays in the pipe for ever.   *)
FairSpec == Spec /\ WF_vars(Take)
=============================================================================
