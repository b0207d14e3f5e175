----------------------------- MODULE ObjectPool -----------------------------
(***************************************************************************)
(* ObjectManager (object_manager.hpp) and the managers derived from it     *)
(* (MachineManager, PlayerManager): a fixed number of slots, a list of the *)
(* free ones, the set of the used ones, and the manager's index from an    *)
(* object's id to its slot.  A pool is a record; the module that keeps one *)
(* in a variable keeps what the objects hold.                              *)
(***************************************************************************)
EXTENDS Naturals, Sequences, FiniteSets

(* Init: every slot is free, in order.                                     *)
NewPool(size) == [free |-> [i \in 1 .. size |-> i - 1], used |-> {}, index |-> << >>]

(* What a list or an index has, and that it has nothing twice.             *)
Distinct(s) == \A i, j \in DOMAIN s : s[i] = s[j] => i = j
Listed(s) == {s[i] : i \in DOMAIN s}

IsFull(p) == p.free = << >>
Ids(p) == DOMAIN p.index

(* CreateMachine: Malloc takes the first free slot and the index has the   *)
(* id at it, whatever it had of that id before.                            *)
Create(p, id) ==
    [free  |-> Tail(p.free),
     used  |-> p.used \cup {Head(p.free)},
     index |-> [i \in Ids(p) \cup {id} |-> IF i = id THEN Head(p.free) ELSE p.index[i]]]

(* Mutant: the id stays in the index.                                      *)
ForgetIndex(p, id) ==
    [p EXCEPT !.free = Append(@, p.index[id]), !.used = @ \ {p.index[id]}]

(* ReleaseMachine, of an id in the index: Free puts the slot last.         *)
Release(p, id) ==
    [free  |-> Append(p.free, p.index[id]),
     used  |-> p.used \ {p.index[id]},
     index |-> [i \in Ids(p) \ {id} |-> p.index[i]]]

(* Release and Init over a restart: the objects that were used, in the     *)
(* order at that the set of used slots is walked through, go to the first  *)
(* slots, and the index is built again.                                    *)
Restored(p, size, order) ==
    LET n == Cardinality(p.used)
    IN  [free  |-> [i \in 1 .. size - n |-> n + i - 1],
         used  |-> 0 .. n - 1,
         index |-> [i \in Ids(p) |-> order[p.index[i]]]]

(* The set of used slots is unordered: it is walked through in any order.  *)
Orders(p) == LET to == 0 .. Cardinality(p.used) - 1
             IN  {f \in [p.used -> to] : Distinct(f) /\ Listed(f) = to}

(* Every slot is free or used and in the list once, and the used ones are  *)
(* those of the index, one for each id: none is lost, none is shared.      *)
Sound(p, size) ==
    /\ Distinct(p.free)
    /\ Listed(p.free) \cap p.used = {}
    /\ Listed(p.free) \cup p.used = 0 .. size - 1
    /\ Distinct(p.index)
    /\ Listed(p.index) = p.used
=============================================================================
