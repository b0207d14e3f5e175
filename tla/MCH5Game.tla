------------------------------ MODULE MCH5Game ------------------------------
(* H5Game with few requests of each kind.                                  *)
EXTENDS H5Game, TLC

CONSTANT p1

Awards == [start |-> 1, end |-> 2, lottery |-> 2, lottery_end |-> 1, buy |-> 1]
Losses == [start |-> 1, retry |-> 2, connect |-> 1, offline |-> 1, late |-> 1]
Kicked == [start |-> 2, end |-> 1, kick |-> 1, logout |-> 1]
Twice  == [start |-> 2, login |-> 1, end |-> 1]

SomeMixes == {Awards, Losses, Kicked, Twice}
=============================================================================
