------------------------------ MODULE MCPrograms ------------------------------
EXTENDS Programs, TLC

CONSTANTS p1, p2, a, b, t1, t2

MCFileOf == a :> p1 @@ b :> p2

One(n, count, priority, autostart, log, extra) ==
  [name |-> n, text |-> t1, count |-> count, priority |-> priority,
   autostart |-> autostart, log |-> log, extra |-> extra]

\* No file; a plain one; one that leaves settings out and has others the form
\* does not take as they are.
MCBefore == {
  <<>>, <<One(a, "5", "5", Unset, VarLog, Unset)>>,
  <<One(a, Unset, "0", "yes", Unset, "set"), One(b, "0", Unset, "false", Unset, Unset)>>}
=============================================================================
