-------------------------- MODULE MCSubscriptions --------------------------
(* Small instances of Subscriptions for TLC. *)
EXTENDS Subscriptions

CONSTANTS s1, s2
=============================================================================
