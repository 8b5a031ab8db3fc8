---- MODULE MCChannels ----
(* Values for checking Channels. *)
EXTENDS Channels, TLC

CONSTANTS c1, c2, url, t1, none, mask, k1, k2, s1, s2, fatal, flapping

Symmetry == Permutations(Clients)
====
