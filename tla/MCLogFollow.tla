---------------------------- MODULE MCLogFollow ----------------------------
(* Small instances of LogFollow for TLC. *)
EXTENDS LogFollow, TLC

CONSTANTS a, b, stdout, stderr, none
=============================================================================
