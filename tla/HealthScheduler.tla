-------------------------- MODULE HealthScheduler --------------------------
(***************************************************************************)
(* The health-check scheduler (services/healthcheck.rs), the rows it works *)
(* on (store/healthchecks.rs) and the commands that edit them              *)
(* (commands/healthchecks.rs).                                             *)
(*                                                                         *)
(* Every enabled check has a loop task: sleep, read the row, probe, and    *)
(* after Threshold consecutive failures act (restart the target process)   *)
(* and write the counter back.  Every create, update and remove rewrites   *)
(* the schedule from the table: abort all loops, list the rows, spawn the  *)
(* loops again.  Commands and loops are tasks of one executor; between two *)
(* awaits a task runs undisturbed, and an abort takes effect at an await.  *)
(* One action is what a task does from one await to the next.              *)
(*                                                                         *)
(* Sleeping takes any time, so intervals do not appear.  The target of a   *)
(* check is a process of its own.  Threshold is the same for all checks.   *)
(***************************************************************************)
EXTENDS Integers, FiniteSets, Functions

CONSTANTS
  Checks,       \* health check ids
  Loops,        \* loop tasks; a finished one can be spawned again
  NoLoop,
  Clients,      \* executions of create/update/remove that may be under way
  Boot,         \* the execution that reloads at startup
  Threshold,    \* failureThreshold
  MaxEdits,     \* bound: edits of the table
  Faults,       \* what may go wrong in the instance, among Mishaps
  Broken        \* checks whose probe never succeeds

\* overlap: two commands (or one and the startup reload) at the same time;
\* unlisted, unrecorded: listing the rows, or writing a result, fails;
\* unheard: stopProcess takes effect and still reports an error;
\* cut: a run is aborted between its probe and its record.
Mishaps == {"overlap", "unlisted", "unrecorded", "unheard", "cut"}

ASSUME SchedulerAssumption ==
  /\ NoLoop \notin Loops
  /\ Boot \in Clients
  /\ Threshold \in Nat \ {0}
  /\ MaxEdits \in Nat
  /\ Faults \subseteq Mishaps
  /\ Broken \subseteq Checks

VARIABLES
  row,      \* check -> its row: not created yet, stored or removed (ids are not
            \*          used again), whether it is enabled, its counter
  tasks,    \* HealthcheckState.tasks: check -> handle of its loop, or NoLoop
  loop,     \* loop -> where it is, its check, and the counter it works with
  command,  \* client -> where its command is, and the checks it has listed
  target,   \* check -> "running", "halted" by a restart under way, "failed"
  streak,   \* check -> consecutive failing probes since the last good one or
            \*          the last action (history, counted up to Threshold)
  edits,    \* edits so far
  mishaps   \* history: which of Mishaps have happened

vars == <<row, tasks, loop, command, target, streak, edits, mishaps>>

Rows == [state : {"new", "stored", "removed"}, enabled : BOOLEAN, failures : 0..(Threshold - 1)]
Steps == {"dead", "sleep", "probe", "act", "stop", "start", "record"}
Stages == {"idle", "drain", "list", "insert"}

Stored(c) == row[c].state = "stored"
Scheduled(c) == Stored(c) /\ row[c].enabled
Live(l) == loop[l].at # "dead"
LiveLoops == {l \in Loops : Live(l)}
FreeLoops == Loops \ LiveLoops

-----------------------------------------------------------------------------
(* Commands: an edit of the table, then reload() *)

Settled == \A k \in Clients : command[k].at = "idle"

\* The write of a command.
Write(k, c, new) ==
  /\ command[k].at = "idle" /\ edits < MaxEdits
  /\ row' = [row EXCEPT ![c] = new]
  /\ edits' = edits + 1
  /\ Settled \/ "overlap" \in Faults
  /\ mishaps' = mishaps \cup (IF Settled THEN {} ELSE {"overlap"})
  /\ UNCHANGED <<tasks, loop, target, streak>>

\* mutant: the command does not reload the scheduler
EditOnly(k, c, new) == Write(k, c, new) /\ UNCHANGED command

\* A command writes the row; the reload that follows starts with the drain.
Edit(k, c, new) ==
  /\ Write(k, c, new)
  /\ command' = [command EXCEPT ![k].at = "drain"]

create(k, c) ==
  /\ row[c].state = "new"
  /\ \E on \in BOOLEAN :
       Edit(k, c, [state |-> "stored", enabled |-> on, failures |-> 0])

\* update keeps the counter of the row.
update(k, c) ==
  /\ Stored(c)
  /\ \E on \in BOOLEAN : Edit(k, c, [row[c] EXCEPT !.enabled = on])

remove(k, c) ==
  /\ Stored(c)
  /\ Edit(k, c, [state |-> "removed", enabled |-> FALSE, failures |-> 0])

Killed(l) == [loop[l] EXCEPT !.at = "dead"]

\* mutant: a run under way is not aborted
AbortSleepers(l) ==
  IF tasks[loop[l].check] = l /\ loop[l].at = "sleep" THEN Killed(l) ELSE loop[l]

\* What draining the handles makes of a loop: only registered loops end.
Aborted(l) == IF tasks[loop[l].check] = l THEN Killed(l) ELSE loop[l]

\* Runs that the drain ends after their probe and before their record.
CutRuns == {l \in LiveLoops : /\ loop[l].at \notin {"sleep", "probe"}
                             /\ Aborted(l).at = "dead"}

Drain(k) ==
  /\ command[k].at = "drain"
  /\ loop' = [l \in Loops |-> Aborted(l)]
  /\ tasks' = [c \in Checks |-> NoLoop]
  /\ command' = [command EXCEPT ![k].at = "list"]
  /\ mishaps' = mishaps \cup (IF CutRuns = {} THEN {} ELSE {"cut"})
  /\ UNCHANGED <<row, target, streak, edits>>

\* mutant: reload() schedules disabled checks too
ListedAll == {c \in Checks : Stored(c)}

Listed == {c \in Checks : Scheduled(c)}

List(k) ==
  /\ command[k].at = "list"
  /\ command' = [command EXCEPT ![k] = [at |-> "insert", listed |-> Listed]]
  /\ UNCHANGED <<row, tasks, loop, target, streak, edits, mishaps>>

\* No pool or no rows: reload() returns and nothing is scheduled.
ListFails(k) ==
  /\ "unlisted" \in Faults
  /\ command[k].at = "list"
  /\ command' = [command EXCEPT ![k].at = "idle"]
  /\ mishaps' = mishaps \cup {"unlisted"}
  /\ UNCHANGED <<row, tasks, loop, target, streak, edits>>

\* The new loops are spawned and their handles inserted under the lock.
\* HashMap::insert drops the handle of a loop spawned earlier, which detaches
\* that loop and does not end it.
Insert(k) ==
  /\ command[k].at = "insert"
  /\ \E f \in Injection(command[k].listed, FreeLoops) :
       /\ tasks' = [c \in Checks |-> IF c \in command[k].listed
                                     THEN f[c] ELSE tasks[c]]
       /\ loop' = [l \in Loops |->
            IF \E c \in command[k].listed : f[c] = l
            THEN [at |-> "sleep", counter |-> 0,
                  check |-> CHOOSE c \in command[k].listed : f[c] = l]
            ELSE loop[l]]
  /\ command' = [command EXCEPT ![k] = [at |-> "idle", listed |-> {}]]
  /\ UNCHANGED <<row, target, streak, edits, mishaps>>

-----------------------------------------------------------------------------
(* A loop: run_check(), take_action() and service::restart() *)

Goes(l, step) == loop' = [loop EXCEPT ![l].at = step]
GoesWith(l, step, n) ==
  loop' = [loop EXCEPT ![l] = [at |-> step, counter |-> n, check |-> @.check]]

\* mutant: the loop does not look whether the check is still enabled
WakeUnchecked(l) ==
  /\ loop[l].at = "sleep"
  /\ Stored(loop[l].check)
  /\ GoesWith(l, "probe", row[loop[l].check].failures)
  /\ UNCHANGED <<row, tasks, command, target, streak, edits, mishaps>>

\* The interval is over: read the row; a check that is gone or disabled is
\* left alone until the next interval.
Wake(l) ==
  /\ loop[l].at = "sleep"
  /\ Scheduled(loop[l].check)
  /\ GoesWith(l, "probe", row[loop[l].check].failures)
  /\ UNCHANGED <<row, tasks, command, target, streak, edits, mishaps>>

ProbeSucceeds(l) ==
  LET c == loop[l].check IN
  /\ loop[l].at = "probe" /\ c \notin Broken
  /\ GoesWith(l, "record", 0)
  /\ streak' = [streak EXCEPT ![c] = 0]
  /\ UNCHANGED <<row, tasks, command, target, edits, mishaps>>

\* mutant: the comparison with the threshold is off by one
ReachedEarly(n) == n + 1 >= Threshold

Reached(n) == n >= Threshold

ProbeFails(l) ==
  LET c == loop[l].check
      failures == loop[l].counter + 1 IN
  /\ loop[l].at = "probe"
  /\ IF Reached(failures) THEN Goes(l, "act")
                          ELSE GoesWith(l, "record", failures)
  /\ streak' = [streak EXCEPT ![c] = IF @ < Threshold THEN @ + 1 ELSE @]
  /\ UNCHANGED <<row, tasks, command, target, edits, mishaps>>

\* Alert and audit; then the restart, unless the check only alerts or its
\* server is gone.  The counter to write is zero either way.
Act(l) ==
  /\ loop[l].at = "act"
  /\ \E next \in {"stop", "record"} : GoesWith(l, next, 0)
  /\ streak' = [streak EXCEPT ![loop[l].check] = 0]
  /\ UNCHANGED <<row, tasks, command, target, edits, mishaps>>

\* stopProcess: done or "not running"; or an error that ends the restart,
\* which may be the loss of the reply to a stop that took effect.
StopProcess(l) ==
  LET c == loop[l].check IN
  /\ loop[l].at = "stop"
  /\ \/ /\ Goes(l, "start") /\ target' = [target EXCEPT ![c] = "halted"]
        /\ UNCHANGED mishaps
     \/ Goes(l, "record") /\ UNCHANGED <<target, mishaps>>
     \/ /\ "unheard" \in Faults
        /\ Goes(l, "record") /\ target' = [target EXCEPT ![c] = "halted"]
        /\ mishaps' = mishaps \cup {"unheard"}
  /\ UNCHANGED <<row, tasks, command, streak, edits>>

\* mutant: a process whose stop succeeded is not started
StartSkipped(c) == UNCHANGED target

StartOutcome(c) ==
  \E result \in {"running", "failed"} : target' = [target EXCEPT ![c] = result]

StartProcess(l) ==
  /\ loop[l].at = "start"
  /\ Goes(l, "record")
  /\ StartOutcome(loop[l].check)
  /\ UNCHANGED <<row, tasks, command, streak, edits, mishaps>>

\* mutant: the task ends after one run instead of looping
RecordOnce(l) ==
  LET c == loop[l].check IN
  /\ loop[l].at = "record"
  /\ row' = IF Stored(c) THEN [row EXCEPT ![c].failures = loop[l].counter]
                         ELSE row
  /\ Goes(l, "dead")
  /\ UNCHANGED <<tasks, command, target, streak, edits, mishaps>>

\* record_result: UPDATE ... WHERE id = ?, nothing if the row is gone.
Record(l) ==
  LET c == loop[l].check IN
  /\ loop[l].at = "record"
  /\ row' = IF Stored(c) THEN [row EXCEPT ![c].failures = loop[l].counter]
                         ELSE row
  /\ Goes(l, "sleep")
  /\ UNCHANGED <<tasks, command, target, streak, edits, mishaps>>

\* The result of record_result is dropped: a failed write goes unnoticed.
RecordFails(l) ==
  /\ "unrecorded" \in Faults
  /\ loop[l].at = "record"
  /\ Goes(l, "sleep")
  /\ mishaps' = mishaps \cup {"unrecorded"}
  /\ UNCHANGED <<row, tasks, command, target, streak, edits>>

-----------------------------------------------------------------------------
Init ==
  /\ \E S \in SUBSET Checks, n \in 0..(Threshold - 1) :
       /\ row = [c \in Checks |-> 
                   [state |-> IF c \in S THEN "stored" ELSE "new",
                    enabled |-> c \in S,
                    failures |-> IF c \in S THEN n ELSE 0]]
       /\ streak = [c \in Checks |-> IF c \in S THEN n ELSE 0]
  /\ tasks = [c \in Checks |-> NoLoop]
  /\ loop \in [Loops -> {[at |-> "dead", counter |-> 0, check |-> c] :
                           c \in Checks}]
  /\ command = [k \in Clients |->
       [at |-> IF k = Boot THEN "drain" ELSE "idle", listed |-> {}]]
  /\ target = [c \in Checks |-> "running"]
  /\ edits = 0
  /\ mishaps = {}

Crud(k) == \E c \in Checks : create(k, c) \/ update(k, c) \/ remove(k, c)
ReloadStep(k) == Drain(k) \/ List(k) \/ ListFails(k) \/ Insert(k)
LoopStep(l) ==
  \/ Wake(l) \/ ProbeSucceeds(l) \/ ProbeFails(l) \/ Act(l)
  \/ StopProcess(l) \/ StartProcess(l) \/ Record(l) \/ RecordFails(l)

Next ==
  \/ \E k \in Clients : Crud(k) \/ ReloadStep(k)
  \/ \E l \in Loops : LoopStep(l)

Spec == Init /\ [][Next]_vars

\* Tasks of the executor run, timers fire, probes have a timeout.
Fairness ==
  /\ \A k \in Clients : WF_vars(ReloadStep(k))
  /\ \A l \in Loops : WF_vars(LoopStep(l))

FairSpec == Spec /\ Fairness

-----------------------------------------------------------------------------
(* Properties *)

\* Rows, handles, tasks and commands have their types; the counter of a row and
\* the one a loop works with stay below the threshold.
TypeOK ==
  /\ row \in [Checks -> Rows]
  /\ tasks \in [Checks -> Loops \cup {NoLoop}]
  /\ loop \in [Loops -> [at : Steps, counter : 0..(Threshold - 1), check : Checks]]
  /\ command \in [Clients -> [at : Stages, listed : SUBSET Checks]]
  /\ target \in [Checks -> {"running", "halted", "failed"}]
  /\ streak \in [Checks -> 0..Threshold]
  /\ edits \in Nat
  /\ mishaps \subseteq Mishaps

Without(M) == mishaps \cap M = {}

\* A handle in the table is the handle of a live loop of that check.
HandlesAreLive ==
  \A c \in Checks : tasks[c] # NoLoop => Live(tasks[c]) /\ loop[tasks[c]].check = c

LoopsOf(c) == {l \in LiveLoops : loop[l].check = c}

OneLoopEach ==
  Settled => \A c \in Checks :
               Cardinality(LoopsOf(c)) = IF Scheduled(c) THEN 1 ELSE 0

\* healthcheck.rs, reload(): the schedule is brought in line with the table.
\* When no command is under way every enabled check has exactly one loop and
\* no other check has any; unless commands overlapped or a list query failed.
InSync == Without({"overlap", "unlisted"}) => OneLoopEach

LoopsRegistered == \A l \in LiveLoops : tasks[loop[l].check] = l

\* As long as commands do not overlap every live loop can be aborted by the
\* next reload, also after a reload that could not list the rows.
EveryLoopHasItsHandle == Without({"overlap"}) => LoopsRegistered

\* Even when reloads overlap, none of them makes the schedule forget a check:
\* once all commands are done every enabled check has a loop.
NoneForgotten ==
  Without({"unlisted"}) /\ Settled =>
    \A c \in Checks : Scheduled(c) => LoopsOf(c) # {}

OthersAsleep ==
  Settled => \A l \in LiveLoops :
               ~Scheduled(loop[l].check) => loop[l].at = "sleep"

\* Once the command that disabled or removed a check has returned, nothing
\* is probed or restarted on its behalf.
DisabledIsQuiet == Without({"overlap"}) => OthersAsleep

\* healthcheck.rs, header: a check acts after failureThreshold consecutive
\* failures, and starts counting again after it has acted.  Edits of the table
\* do not disturb the count unless one cuts a run short of its record.
ActsAfterThreshold ==
  Without({"cut", "unrecorded", "overlap"}) =>
    \A l \in Loops : loop[l].at = "act" => streak[loop[l].check] >= Threshold

\* A restart that has stopped its process goes on to start it, unless the run
\* is cut or the answer to the stop is lost.
NoHalfRestart ==
  Without({"cut", "unheard"}) =>
    \A c \in Checks : target[c] = "halted" =>
      \E l \in Loops : loop[l].at = "start" /\ loop[l].check = c

\* A check that stays enabled and whose probe never succeeds acts again and
\* again, however the table was edited before, if the database answers.
BrokenChecksAct ==
  \A c \in Broken :
    <>[]Scheduled(c) /\ []Without({"unlisted", "unrecorded"}) =>
      []<>(\E l \in Loops : loop[l].at = "act" /\ loop[l].check = c)

-----------------------------------------------------------------------------
(* The schedule implements Watch as long as commands do not overlap *)

\* One loop asleep or busy; any other number or mixture is neither, so that
\* a second loop of a check is seen.
Work(c) ==
  IF LoopsOf(c) = {} THEN "none"
  ELSE IF Cardinality(LoopsOf(c)) > 1 THEN "several"
  ELSE IF \E l \in LoopsOf(c) : loop[l].at = "sleep" THEN "asleep" ELSE "busy"

Stage ==
  IF Settled THEN "current"
  ELSE IF \E k \in Clients : command[k].at = "drain" THEN "edited" ELSE "stopped"

W == INSTANCE Watch WITH
       enabled <- Listed, work <- [c \in Checks |-> Work(c)], stage <- Stage

\* However commands, loops and probes interleave, an edit stops every loop and
\* the run it is in, and by the end of the command each enabled check has one
\* loop, or none has when the rows could not be listed; no run begins for a
\* check that is not enabled, and no check ever has two loops.
ImplementsWatch == W!WatchSpec
=============================================================================
