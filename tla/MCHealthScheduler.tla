------------------------- MODULE MCHealthScheduler -------------------------
(* Small instances of HealthScheduler for TLC. *)
EXTENDS HealthScheduler, TLC

CONSTANTS c1, c2, l1, l2, l3, l4, boot, k1, none

LoopSymmetry == Permutations(Loops)
CheckLoopSymmetry == Permutations(Loops) \cup Permutations(Checks)
=============================================================================
