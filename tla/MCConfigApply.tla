--------------------------- MODULE MCConfigApply ---------------------------
(* Small instances of ConfigApply for TLC. *)
EXTENDS ConfigApply, TLC

CONSTANTS g1, g2, k1, k2

ConfigSymmetry == Permutations(Groups) \cup Permutations(Clients)
=============================================================================
