--------------------------- MODULE MCBackPressure ---------------------------
(* SANITY_MAX = 20 msgs/s; loads that give candidates at the clamps and   *)
(* just inside and outside the 0.95 band of 20 and of each other.         *)
EXTENDS BackPressure, TLC

CONSTANTS t1, t2

MCLoads == {Rat(0, 1), Rat(39, 20), Rat(187, 100), Rat(3, 1)}
MCTasks1 == {t1}
MCTasks2 == {t1, t2}

=============================================================================
