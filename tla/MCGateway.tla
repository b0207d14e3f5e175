----------------------------- MODULE MCGateway ------------------------------
(* Gateway with three connections of two clients.                          *)
EXTENDS Gateway, TLC

CONSTANTS u1, u2

Again == 1 :> u1 @@ 2 :> u1 @@ 3 :> u2
Mix(k, n, s, c, l) == <<k, [conn |-> n, send |-> s, connect |-> c, logic |-> l]>>
SomeMixes == {Mix("tcp", 3, 2, 0, 0), Mix("tcp", 2, 3, 0, 0), Mix("tcp", 1, 4, 0, 0),
              Mix("tcp", 2, 2, 1, 1), Mix("ws", 2, 2, 0, 0), Mix("ws", 1, 4, 0, 0)}
WsMixes == {Mix("ws", 1, 1, 0, 0)}
=============================================================================
