------------------------- MODULE MCLipstickMachine --------------------------
(* LipstickMachine with few requests of each kind.                         *)
EXTENDS LipstickMachine, TLC

CONSTANTS p1, p2

Alike == Permutations({p1, p2})

Visits == {[login |-> 2, buyin |-> 1, start |-> 1, logout |-> 1, kick |-> 1]}
Awards == [login |-> 1, buyin |-> 1, start |-> 1, end |-> 2, lottery |-> 2, lottery_end |-> 1,
           buy |-> 2]
Losses == [login |-> 1, buyin |-> 1, start |-> 1, retry |-> 1,
           connect |-> 1, offline |-> 1, late |-> 1]
Kicked == [login |-> 2, buyin |-> 1, start |-> 1, end |-> 2, kick |-> 1]
Lives  == [login |-> 1, buyin |-> 1, start |-> 1, retry |-> 2, end |-> 1, kick |-> 1]
Courses == {Awards, Losses, Kicked, Lives}
Offline1 == {[login |-> 1, offline |-> 1]}
=============================================================================
