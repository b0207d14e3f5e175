---------------------------- MODULE AtomicStore -----------------------------
(***************************************************************************)
(* What the data servers promise the game logic: each handler that saves   *)
(* a user's records does one read-modify-write of each record it saves.    *)
(* No update is lost.  A record is the sequence of the handler executions  *)
(* whose updates it contains.                                              *)
(***************************************************************************)
EXTENDS Sequences

CONSTANTS Op,       \* handler executions
          Uid,      \* users, machines, promoters: the owners of records
          Key       \* PBDBKey: the kinds of record an owner has

VARIABLE store      \* store[u][k]: the updates in record k of u, oldest first

Init == store = [u \in Uid |-> [k \in Key |-> << >>]]

(* Handler execution op updates the records K of u.                        *)
Update(op, u, K) ==
    store' = [store EXCEPT ![u] =
                 [k \in Key |-> IF k \in K THEN Append(@[k], op) ELSE @[k]]]

Next == \E op \in Op, u \in Uid, K \in SUBSET Key : Update(op, u, K)

Spec == Init /\ [][Next]_store
=============================================================================
