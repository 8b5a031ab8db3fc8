---------------------------- MODULE MCLiveViews ----------------------------
(* Small instances of LiveViews for TLC. *)
EXTENDS LiveViews, TLC

CONSTANTS s1, s2, p1, p2, p3, panel, none

ViewSymmetry == Permutations(Servers) \cup Permutations(Pages)
=============================================================================
