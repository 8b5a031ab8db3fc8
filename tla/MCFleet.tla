------------------------------- MODULE MCFleet -------------------------------
(* Small instances of Fleet for TLC. *)
EXTENDS Fleet, TLC

CONSTANTS s1, s2

MixedKinds == {<<"restart", "sequential">>, <<"stop", "parallel">>}

FleetSymmetry == Permutations(Servers)
=============================================================================
