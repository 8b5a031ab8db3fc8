---- MODULE MCServerForm ----
(* Values for checking ServerForm. *)
EXTENDS ServerForm, TLC

CONSTANTS r1, r2, f1, f2, t1, t2, none, mask, k1, k2

Symmetry == Permutations(Clients) \cup Permutations(Fields)
====
