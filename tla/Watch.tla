-------------------------------- MODULE Watch --------------------------------
(***************************************************************************)
(* What the schedule of health checks promises to whoever edits the table: *)
(* a check has at most one loop, which begins a run only while the check   *)
(* is enabled; every edit stops all loops, the runs under way included,    *)
(* and starts one afresh for each check that is enabled by then, or, when  *)
(* the table cannot be read, for none at all.                              *)
(***************************************************************************)
CONSTANT Checks

VARIABLES
  enabled,   \* the checks that are stored and enabled
  work,      \* check -> "none" (no loop), "asleep" or "busy" (a run under way)
  stage      \* "current", "edited" (loops not stopped yet), "stopped"

watchVars == <<enabled, work, stage>>

Nothing == [c \in Checks |-> "none"]

\* At startup nothing is watched and the table is still to be read.
WatchInit ==
  /\ enabled \in SUBSET Checks
  /\ work = Nothing
  /\ stage = "edited"

Change(c) ==
  /\ stage = "current" /\ stage' = "edited"
  /\ enabled' \in {enabled \cup {c}, enabled \ {c}}
  /\ UNCHANGED work

Stop ==
  /\ stage = "edited" /\ stage' = "stopped"
  /\ work' = Nothing
  /\ UNCHANGED enabled

\* One loop for each enabled check, or nothing.
Resume ==
  /\ stage = "stopped" /\ stage' = "current"
  /\ \/ work' = [c \in Checks |-> IF c \in enabled THEN "asleep" ELSE "none"]
     \/ work' = Nothing
  /\ UNCHANGED enabled

Begin(c) ==
  /\ work[c] = "asleep" /\ c \in enabled
  /\ work' = [work EXCEPT ![c] = "busy"]
  /\ UNCHANGED <<enabled, stage>>

Finish(c) ==
  /\ work[c] = "busy"
  /\ work' = [work EXCEPT ![c] = "asleep"]
  /\ UNCHANGED <<enabled, stage>>

WatchNext ==
  \/ Stop \/ Resume
  \/ \E c \in Checks : Change(c) \/ Begin(c) \/ Finish(c)

WatchSpec == WatchInit /\ [][WatchNext]_watchVars
=============================================================================
