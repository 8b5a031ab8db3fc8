----------------------- MODULE HealthSchedulerProofs -----------------------
(***************************************************************************)
(* Theorems about HealthScheduler, for any number of checks, loops and     *)
(* commands.                                                               *)
(*                                                                         *)
(* The safety of the schedule rests on commands not overlapping.  As long  *)
(* as none has, Registered is inductive: between commands the table of     *)
(* handles holds exactly the loops that are alive and only checks that are *)
(* enabled; from the drain to the insert it is empty, and the rows listed  *)
(* are still the enabled ones when the loops are spawned.  As long as no   *)
(* list query has failed either, it holds all enabled checks.              *)
(*                                                                         *)
(* What a loop counts (Tallied) rests on its being the only one of its     *)
(* check.  That no check is forgotten (Remembered) and that a restart goes *)
(* on to start (NoHalfRestart) hold with overlapping commands as well.     *)
(*                                                                         *)
(* Registered is also what the refinement needs: while it holds, a check's *)
(* handle tells all of its loops, so each step is one of Watch or stutters. *)
(***************************************************************************)
EXTENDS HealthScheduler, FiniteSetTheorems, TLAPS

\* The part of the type that the schedule depends on.
ScheduleType ==
  /\ tasks \in [Checks -> Loops \cup {NoLoop}]
  /\ loop \in [Loops -> [at : Steps, counter : Nat, check : Checks]]
  /\ command \in [Clients -> [at : Stages, listed : SUBSET Checks]]
  /\ row \in [Checks -> [state : {"new", "stored", "removed"},
                         enabled : BOOLEAN, failures : Nat]]

OneCommand ==
  \A j, k \in Clients : command[j].at # "idle" /\ command[k].at # "idle" => j = k
DrainedIsEmpty ==
  \A k \in Clients : command[k].at \in {"list", "insert"} =>
                       \A c \in Checks : tasks[c] = NoLoop
ListedIsCurrent ==
  \A k \in Clients : command[k].at = "insert" => command[k].listed = Listed
TableIsSchedule ==
  Settled => \A c \in Checks : tasks[c] # NoLoop <=> Scheduled(c)
OnlyScheduled ==
  Settled => \A c \in Checks : tasks[c] # NoLoop => Scheduled(c)

\* What holds with or without failures of the list query.
Registered ==
  /\ ScheduleType
  /\ LoopsRegistered
  /\ HandlesAreLive
  /\ OneCommand
  /\ DrainedIsEmpty
  /\ ListedIsCurrent
  /\ OnlyScheduled

InOrder == "overlap" \notin mishaps
Complete == InOrder /\ "unlisted" \notin mishaps

Schedule == /\ InOrder => Registered
            /\ Complete => TableIsSchedule

LEMMA InitSchedule == Init => ScheduleType /\ Registered /\ TableIsSchedule
<1>. SUFFICES ASSUME Init PROVE ScheduleType /\ Registered /\ TableIsSchedule
  OBVIOUS
<1>1. ScheduleType
  <2>1. PICK S \in SUBSET Checks, n \in 0..(Threshold - 1) :
          row = [c \in Checks |-> [state |-> IF c \in S THEN "stored" ELSE "new",
                                   enabled |-> c \in S,
                                   failures |-> IF c \in S THEN n ELSE 0]]
    BY DEF Init
  <2>2. row \in [Checks -> [state : {"new", "stored", "removed"},
                            enabled : BOOLEAN, failures : Nat]]
    BY <2>1, SchedulerAssumption
  <2>3. loop \in [Loops -> [at : Steps, counter : Nat, check : Checks]]
    BY DEF Init, Steps
  <2>. QED
    BY <2>2, <2>3 DEF Init, ScheduleType, Stages
<1>2. \A l \in Loops : loop[l].at = "dead"
  BY DEF Init
<1>3. Boot \in Clients /\ command[Boot].at = "drain"
  BY SchedulerAssumption DEF Init
<1>4. \A k \in Clients : command[k].at = IF k = Boot THEN "drain" ELSE "idle"
  BY DEF Init
<1>. QED
  BY <1>1, <1>2, <1>3, <1>4
  DEF Init, Registered, LoopsRegistered, HandlesAreLive, OneCommand,
      DrainedIsEmpty, ListedIsCurrent, OnlyScheduled, TableIsSchedule, Settled,
      LiveLoops, Live

LoopType == [Loops -> [at : Steps, counter : Nat, check : Checks]]

\* A loop that moves on keeps its check and stays alive, and no other moves.
MovesOn ==
  /\ loop' \in LoopType
  /\ \A m \in Loops : /\ loop'[m].check = loop[m].check
                      /\ loop'[m].at = "dead" <=> loop[m].at = "dead"

LEMMA GoesMoves ==
  ASSUME loop \in LoopType, NEW l \in Loops, loop[l].at # "dead",
         NEW step \in Steps \ {"dead"}, Goes(l, step)
  PROVE  MovesOn
<1>1. loop' = [loop EXCEPT ![l] = [loop[l] EXCEPT !.at = step]]
  BY DEF Goes
<1>2. [loop[l] EXCEPT !.at = step] \in [at : Steps, counter : Nat, check : Checks]
  BY DEF LoopType
<1>. QED
  BY <1>1, <1>2 DEF MovesOn, LoopType

LEMMA GoesWithMoves ==
  ASSUME loop \in LoopType, NEW l \in Loops, loop[l].at # "dead",
         NEW step \in Steps \ {"dead"}, NEW n \in Nat, GoesWith(l, step, n)
  PROVE  MovesOn
<1>. DEFINE new == [at |-> step, counter |-> n, check |-> loop[l].check]
<1>1. loop[l] \in [at : Steps, counter : Nat, check : Checks]
  BY DEF LoopType
<1>2. loop' = [loop EXCEPT ![l] = new]
  BY DEF GoesWith
<1>3. new \in [at : Steps, counter : Nat, check : Checks]
  BY <1>1
<1>. QED
  BY <1>2, <1>3 DEF MovesOn, LoopType

\* Steps of a loop change neither the handles nor who is live.
LEMMA LoopStepFrame ==
  ASSUME ScheduleType, NEW l \in Loops, LoopStep(l)
  PROVE  /\ ScheduleType'
         /\ UNCHANGED <<tasks, command>>
         /\ MovesOn
         /\ \A c \in Checks : Scheduled(c)' <=> Scheduled(c)
<1>. DEFINE RowType == [Checks -> [state : {"new", "stored", "removed"},
                                   enabled : BOOLEAN, failures : Nat]]
<1>. DEFINE c == loop[l].check
<1>0. /\ loop \in LoopType /\ row \in RowType
      /\ c \in Checks /\ loop[l].counter \in Nat
      /\ row[c].failures \in Nat
      /\ loop[l].counter + 1 \in Nat
  BY DEF ScheduleType, LoopType
<1>s. {"sleep", "probe", "act", "stop", "start", "record"} = Steps \ {"dead"}
  BY DEF Steps
<1>1. MovesOn /\ UNCHANGED <<tasks, command>>
  <2>1. CASE Wake(l)
    BY <2>1, <1>0, <1>s, GoesWithMoves DEF Wake
  <2>2. CASE ProbeSucceeds(l)
    BY <2>2, <1>0, <1>s, GoesWithMoves DEF ProbeSucceeds
  <2>3. CASE ProbeFails(l)
    <3>1. loop[l].at = "probe" /\ UNCHANGED <<tasks, command>>
      BY <2>3 DEF ProbeFails
    <3>2. Goes(l, "act") \/ GoesWith(l, "record", loop[l].counter + 1)
      BY <2>3 DEF ProbeFails
    <3>. QED
      BY <3>1, <3>2, <1>0, <1>s, GoesMoves, GoesWithMoves
  <2>4. CASE Act(l)
    BY <2>4, <1>0, <1>s, GoesWithMoves DEF Act
  <2>5. CASE StopProcess(l)
    BY <2>5, <1>0, <1>s, GoesMoves DEF StopProcess
  <2>6. CASE StartProcess(l)
    BY <2>6, <1>0, <1>s, GoesMoves DEF StartProcess
  <2>7. CASE Record(l)
    BY <2>7, <1>0, <1>s, GoesMoves DEF Record
  <2>8. CASE RecordFails(l)
    BY <2>8, <1>0, <1>s, GoesMoves DEF RecordFails
  <2>. QED
    BY <2>1, <2>2, <2>3, <2>4, <2>5, <2>6, <2>7, <2>8 DEF LoopStep
<1>2. row' \in RowType /\ \A d \in Checks : /\ row'[d].state = row[d].state
                                         /\ row'[d].enabled = row[d].enabled
  <2>1. CASE Record(l)
    <3>1. row' = row \/ row' = [row EXCEPT ![c].failures = loop[l].counter]
      BY <2>1 DEF Record
    <3>. QED
      BY <3>1, <1>0
  <2>2. CASE ~Record(l)
    <3>1. row' = row
      BY <2>2 DEF LoopStep, Wake, ProbeSucceeds, ProbeFails, Act, StopProcess,
                  StartProcess, RecordFails
    <3>. QED
      BY <3>1, <1>0
  <2>. QED
    BY <2>1, <2>2
<1>3. ScheduleType'
  BY <1>1, <1>2 DEF ScheduleType, MovesOn, LoopType
<1>4. \A d \in Checks : Scheduled(d)' <=> Scheduled(d)
  BY <1>2 DEF Scheduled, Stored
<1>. QED
  BY <1>1, <1>3, <1>4

-----------------------------------------------------------------------------
(* One lemma per kind of step. *)

LEMMA LoopStepKeeps ==
  ASSUME Registered, NEW l \in Loops, LoopStep(l)
  PROVE  Registered' /\ (TableIsSchedule => TableIsSchedule')
<1>. USE DEF Registered
<1>1. /\ ScheduleType'
      /\ UNCHANGED <<tasks, command>>
      /\ MovesOn
      /\ \A c \in Checks : Scheduled(c)' <=> Scheduled(c)
  BY LoopStepFrame
<1>2. LoopsRegistered' /\ HandlesAreLive'
  BY <1>1 DEF LoopsRegistered, HandlesAreLive, MovesOn, LiveLoops, Live,
              ScheduleType
<1>3. Listed' = Listed
  BY <1>1 DEF Listed
<1>4. OneCommand' /\ DrainedIsEmpty' /\ ListedIsCurrent'
  BY <1>1, <1>3 DEF OneCommand, DrainedIsEmpty, ListedIsCurrent
<1>5. OnlyScheduled' /\ (TableIsSchedule => TableIsSchedule')
  BY <1>1 DEF OnlyScheduled, TableIsSchedule, Settled
<1>. QED
  BY <1>1, <1>2, <1>4, <1>5

LEMMA EditKeeps ==
  ASSUME InOrder', Registered, NEW k \in Clients, NEW c \in Checks,
         NEW new \in [state : {"new", "stored", "removed"},
                      enabled : BOOLEAN, failures : Nat],
         Edit(k, c, new)
  PROVE  Registered' /\ TableIsSchedule'
<1>. USE DEF Registered, ScheduleType
<1>1. \A j \in Clients : command[j].at = "idle"
  BY DEF Edit, Write, Settled, InOrder
<1>2. /\ row' = [row EXCEPT ![c] = new]
      /\ command' = [command EXCEPT ![k].at = "drain"]
      /\ UNCHANGED <<tasks, loop>>
  BY DEF Edit, Write
<1>3. \A j \in Clients : command'[j].at = IF j = k THEN "drain" ELSE "idle"
  BY <1>1, <1>2
<1>4. ScheduleType'
  BY <1>2 DEF Stages
<1>5. LoopsRegistered' /\ HandlesAreLive'
  BY <1>2 DEF LoopsRegistered, HandlesAreLive, LiveLoops, Live
<1>6. OneCommand' /\ DrainedIsEmpty' /\ ListedIsCurrent' /\ TableIsSchedule'
  BY <1>3 DEF OneCommand, DrainedIsEmpty, ListedIsCurrent, TableIsSchedule,
              Settled
<1>. QED
  BY <1>4, <1>5, <1>6 DEF TableIsSchedule, OnlyScheduled

LEMMA CrudKeeps ==
  ASSUME InOrder', Registered, NEW k \in Clients, Crud(k)
  PROVE  Registered' /\ TableIsSchedule'
<1>. DEFINE RowType == [state : {"new", "stored", "removed"},
                        enabled : BOOLEAN, failures : Nat]
<1>1. PICK c \in Checks : create(k, c) \/ update(k, c) \/ remove(k, c)
  BY DEF Crud
<1>2. row[c] \in RowType
  BY DEF Registered, ScheduleType
<1>3. \E new \in RowType : Edit(k, c, new)
  <2>1. CASE create(k, c)
    <3>1. PICK on \in BOOLEAN :
            Edit(k, c, [state |-> "stored", enabled |-> on, failures |-> 0])
      BY <2>1 DEF create
    <3>2. [state |-> "stored", enabled |-> on, failures |-> 0] \in RowType
      OBVIOUS
    <3>. QED
      BY <3>1, <3>2
  <2>2. CASE update(k, c)
    <3>1. PICK on \in BOOLEAN : Edit(k, c, [row[c] EXCEPT !.enabled = on])
      BY <2>2 DEF update
    <3>2. [row[c] EXCEPT !.enabled = on] \in RowType
      BY <1>2
    <3>. QED
      BY <3>1, <3>2
  <2>3. CASE remove(k, c)
    <3>1. [state |-> "removed", enabled |-> FALSE, failures |-> 0] \in RowType
      OBVIOUS
    <3>. QED
      BY <2>3, <3>1 DEF remove
  <2>. QED
    BY <1>1, <2>1, <2>2, <2>3
<1>. QED
  BY <1>3, EditKeeps

LEMMA DrainKeeps ==
  ASSUME Registered, NEW k \in Clients, Drain(k)
  PROVE  Registered' /\ TableIsSchedule'
<1>. USE DEF Registered
<1>1. /\ command[k].at = "drain"
      /\ loop' = [l \in Loops |-> Aborted(l)]
      /\ tasks' = [c \in Checks |-> NoLoop]
      /\ command' = [command EXCEPT ![k].at = "list"]
      /\ UNCHANGED row
  BY DEF Drain
<1>2. \A l \in Loops : loop'[l].at = "dead"
  BY <1>1 DEF Aborted, Killed, LoopsRegistered, LiveLoops, Live, ScheduleType
<1>3. loop' \in LoopType
  <2>1. \A l \in Loops : Aborted(l) \in [at : Steps, counter : Nat, check : Checks]
    BY DEF Aborted, Killed, ScheduleType, Steps
  <2>. QED
    BY <1>1, <2>1 DEF LoopType
<1>4. ScheduleType'
  <2>1. command' \in [Clients -> [at : Stages, listed : SUBSET Checks]]
    BY <1>1 DEF ScheduleType, Stages
  <2>. QED
    BY <1>1, <1>3, <2>1 DEF ScheduleType, LoopType
<1>5. \A j \in Clients : command'[j].at = IF j = k THEN "list" ELSE "idle"
  BY <1>1 DEF OneCommand, ScheduleType
<1>6. LoopsRegistered' /\ HandlesAreLive'
  BY <1>1, <1>2 DEF LoopsRegistered, HandlesAreLive, LiveLoops, Live
<1>7. OneCommand' /\ DrainedIsEmpty' /\ ListedIsCurrent' /\ TableIsSchedule'
  BY <1>1, <1>5 DEF OneCommand, DrainedIsEmpty, ListedIsCurrent,
                    TableIsSchedule, Settled
<1>. QED
  BY <1>4, <1>6, <1>7 DEF TableIsSchedule, OnlyScheduled

LEMMA ListKeeps ==
  ASSUME Registered, NEW k \in Clients, List(k)
  PROVE  Registered' /\ TableIsSchedule'
<1>. USE DEF Registered
<1>1. /\ command[k].at = "list"
      /\ command' = [command EXCEPT ![k] = [at |-> "insert", listed |-> Listed]]
      /\ UNCHANGED <<row, tasks, loop>>
  BY DEF List
<1>2. Listed' = Listed /\ Listed \in SUBSET Checks
  BY <1>1 DEF Listed, Scheduled, Stored
<1>3. ScheduleType'
  BY <1>1, <1>2 DEF ScheduleType, Stages
<1>4. \A j \in Clients : command'[j].at = IF j = k THEN "insert" ELSE "idle"
  BY <1>1 DEF OneCommand, ScheduleType
<1>5. LoopsRegistered' /\ HandlesAreLive'
  BY <1>1 DEF LoopsRegistered, HandlesAreLive, LiveLoops, Live
<1>6. ListedIsCurrent'
  BY <1>1, <1>2, <1>4 DEF ListedIsCurrent, ScheduleType
<1>7. OneCommand' /\ DrainedIsEmpty' /\ TableIsSchedule'
  BY <1>1, <1>4 DEF OneCommand, DrainedIsEmpty, TableIsSchedule, Settled
<1>. QED
  BY <1>3, <1>5, <1>6, <1>7 DEF TableIsSchedule, OnlyScheduled

LEMMA ListFailsKeeps ==
  ASSUME Registered, NEW k \in Clients, ListFails(k)
  PROVE  Registered'
<1>. USE DEF Registered
<1>1. /\ command[k].at = "list"
      /\ command' = [command EXCEPT ![k].at = "idle"]
      /\ UNCHANGED <<row, tasks, loop>>
  BY DEF ListFails
<1>2. ScheduleType'
  BY <1>1 DEF ScheduleType, Stages
<1>3. \A j \in Clients : command'[j].at = "idle"
  BY <1>1 DEF OneCommand, ScheduleType
<1>4. LoopsRegistered' /\ HandlesAreLive'
  BY <1>1 DEF LoopsRegistered, HandlesAreLive, LiveLoops, Live
<1>5. OnlyScheduled'
  BY <1>1 DEF OnlyScheduled, DrainedIsEmpty
<1>. QED
  BY <1>2, <1>3, <1>4, <1>5 DEF OneCommand, DrainedIsEmpty, ListedIsCurrent

LEMMA InsertKeeps ==
  ASSUME Registered, NEW k \in Clients, Insert(k)
  PROVE  Registered' /\ TableIsSchedule'
<1>. USE DEF Registered
<1>. DEFINE S == command[k].listed
<1>1. /\ command[k].at = "insert"
      /\ command' = [command EXCEPT ![k] = [at |-> "idle", listed |-> {}]]
      /\ UNCHANGED row
  BY DEF Insert
<1>2. PICK f \in Injection(S, FreeLoops) :
        /\ tasks' = [c \in Checks |-> IF c \in S THEN f[c] ELSE tasks[c]]
        /\ loop' = [l \in Loops |->
             IF \E c \in S : f[c] = l
             THEN [at |-> "sleep", counter |-> 0,
                   check |-> CHOOSE c \in S : f[c] = l]
             ELSE loop[l]]
  BY DEF Insert
<1>3. S = Listed /\ S \in SUBSET Checks
  BY <1>1 DEF ListedIsCurrent, ScheduleType
<1>4. \A c \in Checks : tasks[c] = NoLoop
  BY <1>1 DEF DrainedIsEmpty
<1>5. \A l \in Loops : loop[l].at = "dead"
  BY <1>4, SchedulerAssumption
  DEF LoopsRegistered, LiveLoops, Live, ScheduleType
<1>6. /\ f \in [S -> FreeLoops]
      /\ \A c, d \in S : f[c] = f[d] => c = d
  BY DEF Injection, IsInjective
<1>7. \A c \in S : f[c] \in Loops /\ f[c] # NoLoop
  BY <1>6, SchedulerAssumption DEF FreeLoops
<1>. HIDE DEF S
<1>8. \A c \in S : (CHOOSE d \in S : f[d] = f[c]) = c
  BY <1>6
<1>9. \A c \in S : loop'[f[c]] = [at |-> "sleep", counter |-> 0, check |-> c]
  BY <1>2, <1>7, <1>8
<1>a. \A c \in S : /\ loop'[f[c]].at = "sleep" /\ loop'[f[c]].check = c
                  /\ loop'[f[c]] \in [at : Steps, counter : Nat, check : Checks]
  <2>. SUFFICES ASSUME NEW c \in S
                PROVE  /\ loop'[f[c]].at = "sleep" /\ loop'[f[c]].check = c
                       /\ loop'[f[c]] \in [at : Steps, counter : Nat, check : Checks]
    OBVIOUS
  <2>1. c \in Checks
    BY <1>3
  <2>2. loop'[f[c]] = [at |-> "sleep", counter |-> 0, check |-> c]
    BY <1>9
  <2>3. [at |-> "sleep", counter |-> 0, check |-> c] 
          \in [at : Steps, counter : Nat, check : Checks]
    BY <2>1 DEF Steps
  <2>. QED
    BY <2>2, <2>3
<1>10. \A l \in Loops : \/ \E c \in S : l = f[c]
                       \/ loop'[l] = loop[l]
  BY <1>2
<1>11. loop' \in LoopType
  <2>1. \A l \in Loops : loop'[l] \in [at : Steps, counter : Nat, check : Checks]
    BY <1>a, <1>10 DEF ScheduleType
  <2>2. loop' = [l \in Loops |-> loop'[l]]
    BY <1>2
  <2>. QED
    BY <2>1, <2>2 DEF LoopType
<1>12. ScheduleType'
  <2>1. tasks' \in [Checks -> Loops \cup {NoLoop}]
    BY <1>2, <1>4, <1>7
  <2>2. command' \in [Clients -> [at : Stages, listed : SUBSET Checks]]
    BY <1>1 DEF ScheduleType, Stages
  <2>. QED
    BY <1>1, <1>11, <2>1, <2>2 DEF ScheduleType, LoopType
<1>13. \A c \in Checks : tasks'[c] = IF c \in S THEN f[c] ELSE NoLoop
  BY <1>2, <1>4
<1>14. LoopsRegistered'
  <2>. SUFFICES ASSUME NEW l \in Loops, loop'[l].at # "dead"
                PROVE  tasks'[loop'[l].check] = l
    BY DEF LoopsRegistered, LiveLoops, Live
  <2>1. PICK c \in S : l = f[c]
    BY <1>5, <1>10
  <2>. QED
    BY <2>1, <1>3, <1>a, <1>13
<1>15. HandlesAreLive'
  <2>. SUFFICES ASSUME NEW c \in Checks, tasks'[c] # NoLoop
                PROVE  loop'[tasks'[c]].at # "dead" /\ loop'[tasks'[c]].check = c
    BY DEF HandlesAreLive, Live
  <2>1. c \in S /\ tasks'[c] = f[c]
    BY <1>13
  <2>. QED
    BY <2>1, <1>a
<1>16. \A j \in Clients : command'[j].at = "idle"
  BY <1>1 DEF OneCommand, ScheduleType
<1>17. OneCommand' /\ DrainedIsEmpty' /\ ListedIsCurrent'
  BY <1>16 DEF OneCommand, DrainedIsEmpty, ListedIsCurrent
<1>18. TableIsSchedule'
  <2>1. \A c \in Checks : Scheduled(c)' <=> c \in S
    BY <1>1, <1>3 DEF Listed, Scheduled, Stored
  <2>. QED
    BY <2>1, <1>7, <1>13 DEF TableIsSchedule
<1>. QED
  BY <1>12, <1>14, <1>15, <1>17, <1>18 DEF TableIsSchedule, OnlyScheduled

\* What has happened stays recorded.
LEMMA MishapsGrow == [Next]_vars => mishaps \subseteq mishaps'
<1>. SUFFICES ASSUME [Next]_vars PROVE mishaps \subseteq mishaps'
  OBVIOUS
<1>1. ASSUME NEW l \in Loops, LoopStep(l) PROVE mishaps \subseteq mishaps'
  BY <1>1 DEF LoopStep, Wake, ProbeSucceeds, ProbeFails, Act, StopProcess,
              StartProcess, Record, RecordFails
<1>2. ASSUME NEW k \in Clients, Crud(k) PROVE mishaps \subseteq mishaps'
  BY <1>2 DEF Crud, create, update, remove, Edit, Write
<1>3. ASSUME NEW k \in Clients, ReloadStep(k) PROVE mishaps \subseteq mishaps'
  BY <1>3 DEF ReloadStep, Drain, List, ListFails, Insert
<1>. QED
  BY <1>1, <1>2, <1>3 DEF Next, vars

LEMMA RegisteredStep ==
  ASSUME InOrder', Registered, [Next]_vars
  PROVE  Registered' /\ (Complete' /\ TableIsSchedule => TableIsSchedule')
<1>1. ASSUME NEW l \in Loops, LoopStep(l)
      PROVE  Registered' /\ (TableIsSchedule => TableIsSchedule')
  BY <1>1, LoopStepKeeps
<1>2. ASSUME NEW k \in Clients, Crud(k)
      PROVE  Registered' /\ TableIsSchedule'
  BY <1>2, CrudKeeps
<1>3. ASSUME NEW k \in Clients, Drain(k) \/ List(k) \/ Insert(k)
      PROVE  Registered' /\ TableIsSchedule'
  BY <1>3, DrainKeeps, ListKeeps, InsertKeeps
<1>4. ASSUME NEW k \in Clients, ListFails(k)
      PROVE  Registered' /\ ~Complete'
  BY <1>4, ListFailsKeeps DEF ListFails, Complete
<1>5. CASE UNCHANGED vars
  BY <1>5 DEF vars, Registered, ScheduleType, LoopsRegistered,
     HandlesAreLive, OneCommand, DrainedIsEmpty, ListedIsCurrent, Listed,
     OnlyScheduled, TableIsSchedule, Settled, Scheduled, Stored, LiveLoops, Live
<1>. QED
  BY <1>1, <1>2, <1>3, <1>4, <1>5 DEF Next, ReloadStep

THEOREM ScheduleInvariant == Spec => []Schedule
<1>1. Init => Schedule
  BY InitSchedule DEF Schedule
<1>2. Schedule /\ [Next]_vars => Schedule'
  <2>. SUFFICES ASSUME Schedule, [Next]_vars, InOrder'
                PROVE  Registered' /\ (Complete' => TableIsSchedule')
    BY DEF Schedule, Complete
  <2>1. InOrder /\ (Complete' => Complete)
    BY MishapsGrow DEF InOrder, Complete
  <2>. QED
    BY <2>1, RegisteredStep DEF Schedule
<1>. QED
  BY <1>1, <1>2, PTL DEF Spec

-----------------------------------------------------------------------------
(* Theorems *)

\* As long as no two commands (or one and the startup reload) overlap, every
\* live loop is in the handle table, so the next reload can end it.
THEOREM LoopsHaveHandles == Spec => []EveryLoopHasItsHandle
<1>1. Schedule => EveryLoopHasItsHandle
  BY DEF Schedule, InOrder, Registered, EveryLoopHasItsHandle, Without
<1>. QED
  BY <1>1, ScheduleInvariant, PTL

\* The loops of a check, seen from the handle table.
LEMMA LoopsFromTable ==
  ASSUME Registered, NEW c \in Checks
  PROVE  LoopsOf(c) = IF tasks[c] = NoLoop THEN {} ELSE {tasks[c]}
<1>. USE DEF Registered
<1>1. \A l \in LoopsOf(c) : tasks[c] = l /\ tasks[c] # NoLoop
  BY SchedulerAssumption DEF LoopsOf, LiveLoops, LoopsRegistered
<1>2. tasks[c] # NoLoop => tasks[c] \in LoopsOf(c)
  BY DEF HandlesAreLive, ScheduleType, LoopsOf, LiveLoops
<1>. QED
  BY <1>1, <1>2

\* As long as no commands have overlapped and no list query has failed:
\* whenever no command is under way the loops are those of the enabled checks,
\* one each.
THEOREM ScheduleInSync == Spec => []InSync
<1>1. Schedule => InSync
  <2>. SUFFICES ASSUME Schedule, Complete, Settled, NEW c \in Checks
                PROVE  Cardinality(LoopsOf(c)) = IF Scheduled(c) THEN 1 ELSE 0
    BY DEF InSync, OneLoopEach, Without, Complete, InOrder
  <2>1. Registered /\ (tasks[c] # NoLoop <=> Scheduled(c))
    BY DEF Schedule, TableIsSchedule, Complete
  <2>2. LoopsOf(c) = IF Scheduled(c) THEN {tasks[c]} ELSE {}
    BY <2>1, LoopsFromTable
  <2>. QED
    BY <2>2, FS_EmptySet, FS_Singleton
<1>. QED
  BY <1>1, ScheduleInvariant, PTL

\* As long as no commands have overlapped, whether or not list queries fail: no
\* loop works for a check whose disabling or removal has returned.
THEOREM DisabledStaysQuiet == Spec => []DisabledIsQuiet
<1>1. Schedule => DisabledIsQuiet
  <2>. SUFFICES ASSUME Schedule, InOrder, Settled, NEW l \in LiveLoops,
                       ~Scheduled(loop[l].check)
                PROVE  FALSE
    BY DEF DisabledIsQuiet, OthersAsleep, Without, InOrder
  <2>0. Registered
    BY DEF Schedule
  <2>1. l \in Loops /\ loop[l].check \in Checks
    BY <2>0 DEF LiveLoops, Registered, ScheduleType
  <2>2. tasks[loop[l].check] = l
    BY <2>0 DEF Registered, LoopsRegistered
  <2>. QED
    BY <2>0, <2>1, <2>2, SchedulerAssumption DEF Registered, OnlyScheduled
<1>. QED
  BY <1>1, ScheduleInvariant, PTL

-----------------------------------------------------------------------------
(* Types, and the counters stay below the threshold.  TypeOK is inductive. *)

Counters == 0..(Threshold - 1)
LoopRecords == [at : Steps, counter : Counters, check : Checks]

LEMMA GoesTyped ==
  ASSUME TypeOK, NEW l \in Loops, NEW step \in Steps, Goes(l, step)
  PROVE  loop' \in [Loops -> LoopRecords]
<1>1. [loop[l] EXCEPT !.at = step] \in LoopRecords
  BY DEF TypeOK, LoopRecords, Counters
<1>2. loop' = [loop EXCEPT ![l] = [loop[l] EXCEPT !.at = step]]
  BY DEF Goes
<1>. QED
  BY <1>1, <1>2 DEF TypeOK, LoopRecords, Counters

LEMMA GoesWithTyped ==
  ASSUME TypeOK, NEW l \in Loops, NEW step \in Steps, NEW n \in Counters,
         GoesWith(l, step, n)
  PROVE  loop' \in [Loops -> LoopRecords]
<1>1. [at |-> step, counter |-> n, check |-> loop[l].check] \in LoopRecords
  BY DEF TypeOK, LoopRecords, Counters
<1>. QED
  BY <1>1 DEF GoesWith, TypeOK, LoopRecords, Counters

LEMMA LoopStepTyped ==
  ASSUME TypeOK, NEW l \in Loops, LoopStep(l)
  PROVE  TypeOK'
<1>. DEFINE c == loop[l].check
<1>0. /\ c \in Checks /\ loop[l].counter \in Counters /\ loop[l].counter \in Nat
      /\ row[c] \in Rows /\ row[c].failures \in Counters
      /\ streak[c] \in 0..Threshold /\ Threshold \in Nat \ {0} /\ 0 \in Counters
  BY SchedulerAssumption DEF TypeOK, Rows, Counters
<1>s. {"sleep", "probe", "act", "stop", "start", "record"} \subseteq Steps
  BY DEF Steps
<1>1. loop' \in [Loops -> LoopRecords]
  <2>1. CASE Wake(l)
    BY <2>1, <1>0, <1>s, GoesWithTyped DEF Wake
  <2>2. CASE ProbeSucceeds(l)
    BY <2>2, <1>0, <1>s, GoesWithTyped DEF ProbeSucceeds
  <2>3. CASE ProbeFails(l)
    <3>1. CASE Goes(l, "act")
      BY <3>1, <1>s, GoesTyped
    <3>2. CASE ~Reached(loop[l].counter + 1)
               /\ GoesWith(l, "record", loop[l].counter + 1)
      <4>1. loop[l].counter + 1 \in Counters
        BY <3>2, <1>0 DEF Reached, Counters
      <4>. QED
        BY <3>2, <4>1, <1>s, GoesWithTyped
    <3>. QED
      BY <2>3, <3>1, <3>2 DEF ProbeFails
  <2>4. CASE Act(l)
    BY <2>4, <1>0, <1>s, GoesWithTyped DEF Act
  <2>5. CASE StopProcess(l) \/ StartProcess(l) \/ Record(l) \/ RecordFails(l)
    BY <2>5, <1>s, GoesTyped DEF StopProcess, StartProcess, Record, RecordFails
  <2>. QED
    BY <2>1, <2>2, <2>3, <2>4, <2>5 DEF LoopStep
<1>2. row' \in [Checks -> Rows]
  <2>1. row' = row \/ row' = [row EXCEPT ![c].failures = loop[l].counter]
    BY DEF LoopStep, Wake, ProbeSucceeds, ProbeFails, Act, StopProcess,
           StartProcess, Record, RecordFails
  <2>2. [row[c] EXCEPT !.failures = loop[l].counter] \in Rows
    BY <1>0 DEF Rows, Counters
  <2>3. row' = row \/ row' = [row EXCEPT ![c] = [row[c] EXCEPT !.failures = loop[l].counter]]
    BY <2>1
  <2>. QED
    BY <2>2, <2>3 DEF TypeOK
<1>3. streak' \in [Checks -> 0..Threshold]
  <2>1. \/ streak' = streak
        \/ streak' = [streak EXCEPT ![c] = 0]
        \/ streak' = [streak EXCEPT ![c] = IF @ < Threshold THEN @ + 1 ELSE @]
    BY DEF LoopStep, Wake, ProbeSucceeds, ProbeFails, Act, StopProcess,
           StartProcess, Record, RecordFails
  <2>. QED
    BY <2>1, <1>0 DEF TypeOK
<1>4. target' \in [Checks -> {"running", "halted", "failed"}]
  <2>1. \/ target' = target
        \/ \E r \in {"running", "halted", "failed"} :
             target' = [target EXCEPT ![c] = r]
    BY DEF LoopStep, Wake, ProbeSucceeds, ProbeFails, Act, StopProcess,
           StartProcess, StartOutcome, Record, RecordFails
  <2>. QED
    BY <2>1, <1>0 DEF TypeOK
<1>5. UNCHANGED <<tasks, command, edits>> /\ mishaps' \subseteq Mishaps
  BY DEF LoopStep, Wake, ProbeSucceeds, ProbeFails, Act, StopProcess,
         StartProcess, Record, RecordFails, TypeOK, Mishaps
<1>. QED
  BY <1>1, <1>2, <1>3, <1>4, <1>5 DEF TypeOK, LoopRecords, Counters

LEMMA EditTyped ==
  ASSUME TypeOK, NEW k \in Clients, NEW c \in Checks, NEW new \in Rows,
         Edit(k, c, new)
  PROVE  TypeOK'
<1>1. command' \in [Clients -> [at : Stages, listed : SUBSET Checks]]
  BY DEF Edit, Write, TypeOK, Stages
<1>2. row' \in [Checks -> Rows] /\ edits' \in Nat /\ mishaps' \subseteq Mishaps
  BY DEF Edit, Write, TypeOK, Mishaps
<1>. QED
  BY <1>1, <1>2 DEF TypeOK, Edit, Write

LEMMA CrudTyped ==
  ASSUME TypeOK, NEW k \in Clients, Crud(k)
  PROVE  TypeOK'
<1>1. PICK c \in Checks : create(k, c) \/ update(k, c) \/ remove(k, c)
  BY DEF Crud
<1>2. row[c] \in Rows /\ 0 \in 0..(Threshold - 1)
  BY SchedulerAssumption DEF TypeOK
<1>3. \E new \in Rows : Edit(k, c, new)
  <2>1. CASE create(k, c)
    <3>1. PICK on \in BOOLEAN :
            Edit(k, c, [state |-> "stored", enabled |-> on, failures |-> 0])
      BY <2>1 DEF create
    <3>2. [state |-> "stored", enabled |-> on, failures |-> 0] \in Rows
      BY <1>2 DEF Rows
    <3>. QED
      BY <3>1, <3>2
  <2>2. CASE update(k, c)
    <3>1. PICK on \in BOOLEAN : Edit(k, c, [row[c] EXCEPT !.enabled = on])
      BY <2>2 DEF update
    <3>2. [row[c] EXCEPT !.enabled = on] \in Rows
      BY <1>2 DEF Rows
    <3>. QED
      BY <3>1, <3>2
  <2>3. CASE remove(k, c)
    <3>1. [state |-> "removed", enabled |-> FALSE, failures |-> 0] \in Rows
      BY <1>2 DEF Rows
    <3>. QED
      BY <2>3, <3>1 DEF remove
  <2>. QED
    BY <1>1, <2>1, <2>2, <2>3
<1>. QED
  BY <1>3, EditTyped

LEMMA ReloadStepTyped ==
  ASSUME TypeOK, NEW k \in Clients, ReloadStep(k)
  PROVE  TypeOK'
<1>1. UNCHANGED <<row, target, streak, edits>> /\ mishaps' \subseteq Mishaps
  BY DEF ReloadStep, Drain, List, ListFails, Insert, TypeOK, Mishaps
<1>2. command' \in [Clients -> [at : Stages, listed : SUBSET Checks]]
  <2>1. Listed \in SUBSET Checks
    BY DEF Listed
  <2>2. CASE Drain(k) \/ ListFails(k)
    BY <2>2 DEF Drain, ListFails, TypeOK, Stages
  <2>3. CASE List(k)
    BY <2>1, <2>3 DEF List, TypeOK, Stages
  <2>4. CASE Insert(k)
    BY <2>4 DEF Insert, TypeOK, Stages
  <2>. QED
    BY <2>2, <2>3, <2>4 DEF ReloadStep
<1>3. tasks' \in [Checks -> Loops \cup {NoLoop}] /\ loop' \in [Loops -> LoopRecords]
  <2>1. CASE Drain(k)
    <3>1. \A l \in Loops : Aborted(l) \in LoopRecords
      BY DEF Aborted, Killed, TypeOK, LoopRecords, Counters, Steps
    <3>. QED
      BY <2>1, <3>1 DEF Drain
  <2>2. CASE List(k) \/ ListFails(k)
    BY <2>2 DEF List, ListFails, TypeOK, LoopRecords, Counters
  <2>3. CASE Insert(k)
    <3>. DEFINE S == command[k].listed
    <3>1. PICK f \in Injection(S, FreeLoops) :
            /\ tasks' = [c \in Checks |-> IF c \in S THEN f[c] ELSE tasks[c]]
            /\ loop' = [l \in Loops |->
                 IF \E c \in S : f[c] = l
                 THEN [at |-> "sleep", counter |-> 0,
                       check |-> CHOOSE c \in S : f[c] = l]
                 ELSE loop[l]]
      BY <2>3 DEF Insert
    <3>2. f \in [S -> FreeLoops] /\ S \in SUBSET Checks
      BY DEF Injection, IsInjective, TypeOK
    <3>3. \A c \in S : f[c] \in Loops
      BY <3>2 DEF FreeLoops
    <3>4. ASSUME NEW l \in Loops PROVE loop'[l] \in LoopRecords
      <4>1. CASE \E c \in S : f[c] = l
        <5>1. (CHOOSE c \in S : f[c] = l) \in Checks
          BY <4>1, <3>2
        <5>2. [at |-> "sleep", counter |-> 0, check |-> CHOOSE c \in S : f[c] = l]
                \in LoopRecords
          BY <5>1, SchedulerAssumption DEF LoopRecords, Counters, Steps
        <5>. QED
          BY <4>1, <5>2, <3>1
      <4>2. CASE ~\E c \in S : f[c] = l
        BY <4>2, <3>1 DEF TypeOK, LoopRecords, Counters
      <4>. QED
        BY <4>1, <4>2
    <3>5. loop' = [l \in Loops |-> loop'[l]]
      BY <3>1
    <3>6. tasks' \in [Checks -> Loops \cup {NoLoop}]
      BY <3>1, <3>3 DEF TypeOK
    <3>. QED
      BY <3>4, <3>5, <3>6
  <2>. QED
    BY <2>1, <2>2, <2>3 DEF ReloadStep
<1>. QED
  BY <1>1, <1>2, <1>3 DEF TypeOK, LoopRecords, Counters

\* With any number of commands at a time: the state is well typed, and no
\* failure counter ever reaches the threshold (run_check resets it instead).
THEOREM TypeCorrect == Spec => []TypeOK
<1>1. Init => TypeOK
  <2>. SUFFICES ASSUME Init PROVE TypeOK
    OBVIOUS
  <2>1. PICK S \in SUBSET Checks, n \in 0..(Threshold - 1) :
          /\ row = [c \in Checks |-> [state |-> IF c \in S THEN "stored" ELSE "new",
                                      enabled |-> c \in S,
                                      failures |-> IF c \in S THEN n ELSE 0]]
          /\ streak = [c \in Checks |-> IF c \in S THEN n ELSE 0]
    BY DEF Init
  <2>2. row \in [Checks -> Rows] /\ streak \in [Checks -> 0..Threshold]
    BY <2>1, SchedulerAssumption DEF Rows
  <2>3. loop \in [Loops -> [at : Steps, counter : 0..(Threshold - 1), check : Checks]]
    BY SchedulerAssumption DEF Init, Steps
  <2>. QED
    BY <2>2, <2>3 DEF Init, TypeOK, Stages
<1>2. TypeOK /\ [Next]_vars => TypeOK'
  <2>. SUFFICES ASSUME TypeOK, [Next]_vars PROVE TypeOK'
    OBVIOUS
  <2>1. CASE UNCHANGED vars
    BY <2>1 DEF vars, TypeOK
  <2>. QED
    BY <2>1, LoopStepTyped, CrudTyped, ReloadStepTyped DEF Next
<1>. QED
  BY <1>1, <1>2, PTL DEF Spec
-----------------------------------------------------------------------------
(* Restarts and counts.  Both speak of what a run under way has in mind. *)

\* A reload spawns loops and lets those alive go on, or ends those it can.
LEMMA InsertSpawns ==
  ASSUME TypeOK, NEW k \in Clients, Insert(k), NEW m \in Loops
  PROVE  loop'[m] = loop[m] \/ (loop[m].at = "dead" /\ loop'[m].at = "sleep")
<1>. DEFINE S == command[k].listed
<1>1. PICK f \in Injection(S, FreeLoops) :
        loop' = [l \in Loops |->
             IF \E c \in S : f[c] = l
             THEN [at |-> "sleep", counter |-> 0,
                   check |-> CHOOSE c \in S : f[c] = l]
             ELSE loop[l]]
  BY DEF Insert
<1>2. \A c \in S : f[c] \in FreeLoops
  BY DEF Injection, IsInjective
<1>3. \A c \in S : f[c] = m => loop[m].at = "dead"
  BY <1>2 DEF FreeLoops, LiveLoops, Live
<1>. QED
  BY <1>1, <1>3

LEMMA DrainEnds ==
  ASSUME TypeOK, NEW k \in Clients, Drain(k), "cut" \notin mishaps', NEW m \in Loops
  PROVE  \/ loop'[m] = loop[m]
         \/ loop'[m].at = "dead" /\ loop[m].at \in {"dead", "sleep", "probe"}
<1>1. loop'[m] = Aborted(m) /\ CutRuns = {}
  BY DEF Drain
<1>2. CASE Aborted(m) = loop[m]
  BY <1>1, <1>2
<1>3. CASE Aborted(m) # loop[m]
  <2>1. Aborted(m).at = "dead"
    BY <1>3 DEF Aborted, Killed, TypeOK
  <2>2. loop[m].at \in {"dead", "sleep", "probe"}
    BY <1>1, <2>1 DEF CutRuns, LiveLoops, Live
  <2>. QED
    BY <1>1, <2>1, <2>2
<1>. QED
  BY <1>2, <1>3

\* What a step of loop l may change.
LEMMA OnlyItsOwn ==
  ASSUME TypeOK, NEW l \in Loops, LoopStep(l)
  PROVE  /\ \A m \in Loops : m # l => loop'[m] = loop[m]
         /\ loop'[l].check = loop[l].check
         /\ \A c \in Checks : c # loop[l].check =>
              row'[c] = row[c] /\ target'[c] = target[c] /\ streak'[c] = streak[c]
<1>1. loop \in [Loops -> LoopRecords] /\ loop[l].check \in Checks
  BY DEF TypeOK, LoopRecords, Counters
<1>2. ASSUME NEW step, Goes(l, step)
      PROVE  /\ \A m \in Loops : m # l => loop'[m] = loop[m]
             /\ loop'[l].check = loop[l].check
  BY <1>1, <1>2 DEF Goes, LoopRecords
<1>3. ASSUME NEW step, NEW n, GoesWith(l, step, n)
      PROVE  /\ \A m \in Loops : m # l => loop'[m] = loop[m]
             /\ loop'[l].check = loop[l].check
  BY <1>1, <1>3 DEF GoesWith
<1>4. \E step, n : Goes(l, step) \/ GoesWith(l, step, n)
  BY DEF LoopStep, Wake, ProbeSucceeds, ProbeFails, Act, StopProcess,
         StartProcess, Record, RecordFails
<1>5. \/ UNCHANGED row
      \/ row' = [row EXCEPT ![loop[l].check].failures = loop[l].counter]
  BY DEF LoopStep, Wake, ProbeSucceeds, ProbeFails, Act, StopProcess,
         StartProcess, Record, RecordFails
<1>6. UNCHANGED target \/ \E r : target' = [target EXCEPT ![loop[l].check] = r]
  BY DEF LoopStep, Wake, ProbeSucceeds, ProbeFails, Act, StopProcess,
         StartProcess, StartOutcome, Record, RecordFails
<1>7. UNCHANGED streak \/ \E n : streak' = [streak EXCEPT ![loop[l].check] = n]
  <2>1. CASE ProbeSucceeds(l) \/ Act(l)
    BY <2>1 DEF ProbeSucceeds, Act
  <2>2. CASE ProbeFails(l)
    BY <2>2 DEF ProbeFails
  <2>3. CASE Wake(l) \/ StopProcess(l) \/ StartProcess(l) \/ Record(l) \/ RecordFails(l)
    BY <2>3 DEF Wake, StopProcess, StartProcess, Record, RecordFails
  <2>. QED
    BY <2>1, <2>2, <2>3 DEF LoopStep
<1>. QED
  BY <1>2, <1>3, <1>4, <1>5, <1>6, <1>7 DEF TypeOK

LEMMA HalfStep ==
  TypeOK /\ NoHalfRestart /\ [Next]_vars => NoHalfRestart'
<1>. SUFFICES ASSUME TypeOK, NoHalfRestart, [Next]_vars, Without({"cut", "unheard"})',
                     NEW c \in Checks, target'[c] = "halted"
              PROVE  \E l \in Loops : loop'[l].at = "start" /\ loop'[l].check = c
  BY DEF NoHalfRestart, Without
<1>0. Without({"cut", "unheard"})
  BY MishapsGrow DEF Without
<1>1. target[c] = "halted" => \E l \in Loops : loop[l].at = "start" /\ loop[l].check = c
  BY <1>0 DEF NoHalfRestart
<1>2. CASE \E m \in Loops : LoopStep(m)
  <2>1. PICK m \in Loops : LoopStep(m)
    BY <1>2
  <2>2. CASE loop[m].check = c /\ StopProcess(m)
    <3>1. CASE Goes(m, "start")
      BY <2>2, <3>1 DEF Goes, TypeOK
    <3>2. CASE ~Goes(m, "start")
      <4>1. Goes(m, "record") /\ UNCHANGED target /\ loop[m].at = "stop"
        BY <2>2, <3>2 DEF StopProcess, Without
      <4>2. PICK l \in Loops : loop[l].at = "start" /\ loop[l].check = c
        BY <1>1, <4>1
      <4>. QED
        BY <2>1, <4>1, <4>2, OnlyItsOwn
    <3>. QED
      BY <3>1, <3>2
  <2>3. CASE loop[m].check = c /\ StartProcess(m)
    BY <2>3 DEF StartProcess, StartOutcome, TypeOK
  <2>4. CASE loop[m].check # c \/ (~StopProcess(m) /\ ~StartProcess(m))
    <3>1. target'[c] = target[c]
      BY <2>1, <2>4, OnlyItsOwn DEF LoopStep, Wake, ProbeSucceeds, ProbeFails, Act,
                                    Record, RecordFails
    <3>2. PICK l \in Loops : loop[l].at = "start" /\ loop[l].check = c
      BY <1>1, <3>1
    <3>3. l # m
      BY <2>1, <2>4, <3>2 DEF LoopStep, Wake, ProbeSucceeds, ProbeFails, Act,
                              StopProcess, Record, RecordFails
    <3>. QED
      BY <2>1, <3>2, <3>3, OnlyItsOwn
  <2>. QED
    BY <2>2, <2>3, <2>4
<1>3. CASE \E k \in Clients : ReloadStep(k)
  <2>1. PICK k \in Clients : ReloadStep(k)
    BY <1>3
  <2>2. UNCHANGED target
    BY <2>1 DEF ReloadStep, Drain, List, ListFails, Insert
  <2>3. PICK l \in Loops : loop[l].at = "start" /\ loop[l].check = c
    BY <1>1, <2>2
  <2>4. loop'[l] = loop[l]
    <3>1. CASE Drain(k)
      BY <2>3, <3>1, DrainEnds DEF Without
    <3>2. CASE Insert(k)
      BY <2>3, <3>2, InsertSpawns
    <3>3. CASE List(k) \/ ListFails(k)
      BY <3>3 DEF List, ListFails
    <3>. QED
      BY <2>1, <3>1, <3>2, <3>3 DEF ReloadStep
  <2>. QED
    BY <2>3, <2>4
<1>4. CASE (\E k \in Clients : Crud(k)) \/ UNCHANGED vars
  <2>1. UNCHANGED <<target, loop>>
    BY <1>4 DEF Crud, create, update, remove, Edit, Write, vars
  <2>. QED
    BY <1>1, <2>1
<1>. QED
  BY <1>2, <1>3, <1>4 DEF Next

\* A restart goes on to start what it has stopped, for any number of commands at
\* a time, as long as no run is cut and no answer lost (service.rs, restart).
THEOREM RestartsAreWhole == Spec => []NoHalfRestart
<1>1. Init => NoHalfRestart
  BY DEF Init, NoHalfRestart
<1>. QED
  BY <1>1, HalfStep, TypeCorrect, PTL DEF Spec

\* What a run under way counts with has been seen in a row, and so has what is
\* stored, unless the only run of that check is about to store something else.
Undisturbed == Without({"cut", "unrecorded", "overlap"})
Behind == {"stop", "start", "record"}

Tally(l) ==
  /\ loop[l].at \in {"probe"} \cup Behind => loop[l].counter <= streak[loop[l].check]
  /\ loop[l].at = "act" => streak[loop[l].check] >= Threshold
RowTally(c) ==
  Stored(c) => \/ row[c].failures <= streak[c]
               \/ \E l \in Loops : loop[l].check = c /\ loop[l].at \in Behind

Tallied == Undisturbed => /\ \A l \in Loops : Tally(l)
                          /\ \A c \in Checks : RowTally(c)

\* A step of a loop changes the tally of its own check only, and of no other
\* loop, for no other loop of that check is alive.
LEMMA LoopTally ==
  ASSUME TypeOK, LoopsRegistered, NEW m \in Loops, LoopStep(m),
         NEW d \in Checks, d = loop[m].check, "unrecorded" \notin mishaps',
         \A l \in Loops : Tally(l), \A c \in Checks : RowTally(c)
  PROVE  (\A l \in Loops : Tally(l)') /\ (\A c \in Checks : RowTally(c)')
<1>0. /\ loop[m].counter \in 0..(Threshold - 1)
      /\ row[d].failures \in 0..(Threshold - 1) /\ streak[d] \in 0..Threshold
      /\ Threshold \in Nat \ {0}
  BY SchedulerAssumption DEF TypeOK, Rows
<1>1. ASSUME NEW l \in Loops, l # m, loop[l].check = d PROVE loop[l].at = "dead"
  <2>1. loop[m].at # "dead"
    BY DEF LoopStep, Wake, ProbeSucceeds, ProbeFails, Act, StopProcess,
           StartProcess, Record, RecordFails
  <2>. QED
    BY <1>1, <2>1 DEF LoopsRegistered, LiveLoops, Live
<1>2. ASSUME NEW l \in Loops, l # m PROVE Tally(l)'
  <2>1. loop'[l] = loop[l]
    BY <1>2, OnlyItsOwn
  <2>2. CASE loop[l].check = d
    BY <1>1, <1>2, <2>1, <2>2 DEF Tally, Behind
  <2>3. CASE loop[l].check # d
    <3>1. loop[l].check \in Checks
      BY DEF TypeOK
    <3>2. streak'[loop[l].check] = streak[loop[l].check]
      BY <2>3, <3>1, OnlyItsOwn
    <3>. QED
      BY <2>1, <3>2 DEF Tally
  <2>. QED
    BY <2>2, <2>3
<1>3. ASSUME NEW c \in Checks, c # d PROVE RowTally(c)'
  <2>1. row'[c] = row[c] /\ streak'[c] = streak[c]
    BY <1>3, OnlyItsOwn
  <2>2. \A l \in Loops : loop[l].check = c => loop'[l] = loop[l]
    BY <1>3, OnlyItsOwn
  <2>. QED
    BY <2>1, <2>2 DEF RowTally, Stored
<1>4. loop'[m].check = d
  BY OnlyItsOwn
<1>5. Tally(m)' /\ RowTally(d)'
  <2>1. CASE Wake(m)
    <3>1. /\ loop'[m] = [at |-> "probe", counter |-> row[d].failures, check |-> d]
          /\ UNCHANGED <<row, streak>> /\ Stored(d) /\ loop[m].at = "sleep"
      BY <2>1 DEF Wake, GoesWith, TypeOK, Scheduled
    <3>2. row[d].failures <= streak[d]
      BY <3>1, <1>0, <1>1 DEF RowTally, Behind
    <3>. QED
      BY <3>1, <3>2 DEF Tally, RowTally, Behind
  <2>2. CASE ProbeSucceeds(m)
    <3>1. /\ loop'[m] = [at |-> "record", counter |-> 0, check |-> d]
          /\ streak'[d] = 0
      BY <2>2, <1>0 DEF ProbeSucceeds, GoesWith, TypeOK
    <3>. QED
      BY <3>1 DEF Tally, RowTally, Behind
  <2>3. CASE ProbeFails(m)
    <3>1. /\ loop[m].at = "probe" /\ UNCHANGED row
          /\ streak'[d] = IF streak[d] < Threshold THEN streak[d] + 1 ELSE streak[d]
      BY <2>3, <1>0 DEF ProbeFails, TypeOK
    <3>2. loop[m].counter <= streak[d]
      BY <3>1 DEF Tally
    <3>3. RowTally(d)'
      <4>1. Stored(d) => row[d].failures <= streak[d]
        BY <3>1, <1>0, <1>1 DEF RowTally, Behind
      <4>2. row[d].failures <= streak[d] => row[d].failures <= streak'[d]
        BY <3>1, <1>0
      <4>3. row'[d] = row[d]
        BY <3>1
      <4>. QED
        BY <4>1, <4>2, <4>3 DEF RowTally, Stored
    <3>4. CASE loop[m].counter + 1 >= Threshold
      <4>1. loop'[m].at = "act"
        BY <2>3, <3>4 DEF ProbeFails, Reached, Goes, TypeOK
      <4>2. streak'[d] >= Threshold
        BY <3>1, <3>2, <3>4, <1>0
      <4>. QED
        BY <1>4, <3>3, <4>1, <4>2 DEF Tally, Behind
    <3>5. CASE ~(loop[m].counter + 1 >= Threshold)
      <4>1. loop'[m] = [at |-> "record", counter |-> loop[m].counter + 1, check |-> d]
        BY <2>3, <3>5 DEF ProbeFails, Reached, GoesWith, TypeOK
      <4>2. loop[m].counter + 1 <= streak'[d]
        BY <3>1, <3>2, <3>5, <1>0
      <4>. QED
        BY <3>3, <4>1, <4>2 DEF Tally, Behind
    <3>. QED
      BY <3>4, <3>5
  <2>4. CASE Act(m)
    <3>1. /\ \E next \in {"stop", "record"} :
               loop'[m] = [at |-> next, counter |-> 0, check |-> d]
          /\ streak'[d] = 0
      BY <2>4, <1>0 DEF Act, GoesWith, TypeOK
    <3>. QED
      BY <3>1 DEF Tally, RowTally, Behind
  <2>5. CASE StopProcess(m) \/ StartProcess(m)
    <3>1. /\ loop'[m].at \in {"start", "record"} /\ loop[m].at \in Behind
          /\ loop'[m].counter = loop[m].counter /\ UNCHANGED streak
      BY <2>5 DEF StopProcess, StartProcess, Goes, TypeOK, Behind
    <3>. QED
      BY <3>1, <1>4 DEF Tally, RowTally, Behind
  <2>6. CASE Record(m)
    <3>1. /\ loop'[m].at = "sleep" /\ loop[m].at \in Behind /\ UNCHANGED streak
          /\ row' = IF Stored(d) THEN [row EXCEPT ![d].failures = loop[m].counter]
                                 ELSE row
      BY <2>6 DEF Record, Goes, TypeOK, Behind
    <3>2. loop[m].counter <= streak[d]
      BY <3>1 DEF Tally
    <3>3. Stored(d)' => row'[d].failures = loop[m].counter
      BY <3>1, <1>0 DEF Stored, TypeOK, Rows
    <3>. QED
      BY <3>1, <3>2, <3>3 DEF Tally, RowTally, Behind
  <2>7. CASE RecordFails(m)
    BY <2>7 DEF RecordFails
  <2>. QED
    BY <2>1, <2>2, <2>3, <2>4, <2>5, <2>6, <2>7 DEF LoopStep
<1>. QED
  BY <1>2, <1>3, <1>5

LEMMA TallyStep ==
  TypeOK /\ Schedule /\ Tallied /\ [Next]_vars => Tallied'
<1>. SUFFICES ASSUME TypeOK, Schedule, Tallied, [Next]_vars, Undisturbed'
              PROVE  (\A l \in Loops : Tally(l)') /\ (\A c \in Checks : RowTally(c)')
  BY DEF Tallied
<1>0. Undisturbed /\ {"cut", "unrecorded", "overlap"} \cap mishaps' = {}
  BY MishapsGrow DEF Undisturbed, Without
<1>1. (\A l \in Loops : Tally(l)) /\ (\A c \in Checks : RowTally(c))
  BY <1>0 DEF Tallied
<1>2. CASE \E m \in Loops : LoopStep(m)
  <2>1. LoopsRegistered
    BY <1>0 DEF Schedule, InOrder, Registered, Undisturbed, Without
  <2>. QED
    <3>1. PICK m \in Loops : LoopStep(m)
      BY <1>2
    <3>2. loop[m].check \in Checks
      BY DEF TypeOK
    <3>. QED
      BY <1>0, <1>1, <2>1, <3>1, <3>2, LoopTally
<1>3. CASE \E k \in Clients : ReloadStep(k)
  <2>1. PICK k \in Clients : ReloadStep(k)
    BY <1>3
  <2>2. UNCHANGED <<row, streak>>
    BY <2>1 DEF ReloadStep, Drain, List, ListFails, Insert
  <2>3. ASSUME NEW l \in Loops
        PROVE  \/ loop'[l] = loop[l]
               \/ loop'[l].at \in {"dead", "sleep"} /\ loop[l].at \notin Behind
    <3>1. CASE Drain(k)
      BY <3>1, <1>0, DrainEnds DEF Behind
    <3>2. CASE Insert(k)
      BY <3>2, InsertSpawns DEF Behind
    <3>3. CASE List(k) \/ ListFails(k)
      BY <3>3 DEF List, ListFails
    <3>. QED
      BY <2>1, <3>1, <3>2, <3>3 DEF ReloadStep
  <2>4. \A l \in Loops : Tally(l)'
    BY <1>1, <2>2, <2>3 DEF Tally, Behind
  <2>5. \A c \in Checks : RowTally(c)'
    BY <1>1, <2>2, <2>3 DEF RowTally, Stored
  <2>. QED
    BY <2>4, <2>5
<1>4. CASE \E k \in Clients : Crud(k)
  <2>1. PICK k \in Clients, c \in Checks : create(k, c) \/ update(k, c) \/ remove(k, c)
    BY <1>4 DEF Crud
  <2>2. UNCHANGED <<loop, streak>>
    BY <2>1 DEF create, update, remove, Edit, Write
  <2>3. ASSUME NEW e \in Checks PROVE RowTally(e)'
    <3>1. streak[e] \in 0..Threshold /\ row[e] \in Rows
      BY DEF TypeOK
    <3>2. CASE create(k, c) /\ e = c
      <4>1. row'[e].failures = 0
        BY <3>2 DEF create, Edit, Write, TypeOK
      <4>. QED
        BY <2>2, <3>1, <4>1, SchedulerAssumption DEF RowTally
    <3>3. CASE update(k, c) /\ e = c
      <4>1. row'[e].failures = row[e].failures /\ Stored(e)
        BY <3>1, <3>3 DEF update, Edit, Write, TypeOK, Rows
      <4>. QED
        BY <1>1, <2>2, <4>1 DEF RowTally
    <3>4. CASE remove(k, c) /\ e = c
      <4>1. ~Stored(e)'
        BY <3>4 DEF remove, Edit, Write, TypeOK, Stored
      <4>. QED
        BY <4>1 DEF RowTally
    <3>5. CASE e # c
      <4>1. row'[e] = row[e]
        BY <2>1, <3>5 DEF create, update, remove, Edit, Write, TypeOK
      <4>. QED
        BY <1>1, <2>2, <4>1 DEF RowTally, Stored
    <3>. QED
      BY <2>1, <3>2, <3>3, <3>4, <3>5
  <2>. QED
    BY <1>1, <2>2, <2>3 DEF Tally
<1>5. CASE UNCHANGED vars
  BY <1>1, <1>5 DEF vars, Tally, RowTally, Stored
<1>. QED
  BY <1>2, <1>3, <1>4, <1>5 DEF Next

\* healthcheck.rs, header: a check acts after failureThreshold consecutive
\* failures.  For any number of checks and edits, as long as commands do not
\* overlap, no edit cuts a run short and every result is written.
THEOREM ActsWhenDue == Spec => []ActsAfterThreshold
<1>1. Init => Tallied
  <2>. SUFFICES ASSUME Init
                PROVE  (\A l \in Loops : Tally(l)) /\ (\A c \in Checks : RowTally(c))
    BY DEF Tallied
  <2>1. \A l \in Loops : loop[l].at = "dead"
    BY DEF Init
  <2>2. PICK S \in SUBSET Checks, n \in 0..(Threshold - 1) :
          /\ row = [c \in Checks |-> [state |-> IF c \in S THEN "stored" ELSE "new",
                                      enabled |-> c \in S,
                                      failures |-> IF c \in S THEN n ELSE 0]]
          /\ streak = [c \in Checks |-> IF c \in S THEN n ELSE 0]
    BY DEF Init
  <2>3. \A c \in Checks : row[c].failures <= streak[c]
    BY <2>2, SchedulerAssumption
  <2>. QED
    BY <2>1, <2>3 DEF Tally, RowTally, Behind
<1>2. Tallied => ActsAfterThreshold
  BY DEF Tallied, Undisturbed, Tally, ActsAfterThreshold
<1>. QED
  BY <1>1, <1>2, TallyStep, TypeCorrect, ScheduleInvariant, PTL DEF Spec
-----------------------------------------------------------------------------
(* No check is forgotten, however many commands overlap: a check that should *)
(* have a loop and has none is still ahead of some command under way.        *)

Ahead(c) == \E k \in Clients : \/ command[k].at \in {"drain", "list"}
                               \/ command[k].at = "insert" /\ c \in command[k].listed
Looped(c) == \E l \in Loops : loop[l].at # "dead" /\ loop[l].check = c

Remembered ==
  Without({"unlisted"}) => \A c \in Checks : Scheduled(c) => Looped(c) \/ Ahead(c)

LEMMA RememberedStep ==
  TypeOK /\ Remembered /\ [Next]_vars => Remembered'
<1>. SUFFICES ASSUME TypeOK, Remembered, [Next]_vars, Without({"unlisted"})',
                     NEW c \in Checks, Scheduled(c)'
              PROVE  Looped(c)' \/ Ahead(c)'
  BY DEF Remembered
<1>0. "unlisted" \notin mishaps' /\ Without({"unlisted"})
  BY MishapsGrow DEF Without
<1>1. Scheduled(c) => Looped(c) \/ Ahead(c)
  BY <1>0 DEF Remembered
<1>2. ASSUME NEW l \in Loops, LoopStep(l) PROVE Looped(c)' \/ Ahead(c)'
  <2>1. ScheduleType
    BY DEF TypeOK, ScheduleType, Rows
  <2>2. UNCHANGED command /\ MovesOn /\ (Scheduled(c)' <=> Scheduled(c))
    BY <1>2, <2>1, LoopStepFrame
  <2>. QED
    BY <1>1, <2>2 DEF Looped, Ahead, MovesOn
<1>3. ASSUME NEW k \in Clients, Crud(k) PROVE Ahead(c)'
  BY <1>3 DEF Crud, create, update, remove, Edit, Write, Ahead, TypeOK
<1>4. ASSUME NEW k \in Clients, ReloadStep(k) PROVE Looped(c)' \/ Ahead(c)'
  <2>0. UNCHANGED row /\ Scheduled(c)
    BY <1>4 DEF ReloadStep, Drain, List, ListFails, Insert, Scheduled, Stored
  <2>1. CASE Drain(k)
    BY <2>1 DEF Drain, Ahead, TypeOK
  <2>2. CASE List(k)
    <3>1. command'[k] = [at |-> "insert", listed |-> Listed]
      BY <2>2 DEF List, TypeOK
    <3>. QED
      BY <2>0, <3>1 DEF Listed, Ahead
  <2>3. CASE ListFails(k)
    BY <1>0, <2>3 DEF ListFails
  <2>4. CASE Insert(k)
    <3>1. \A m \in Loops : loop[m].at # "dead" => loop'[m] = loop[m]
      BY <2>4, InsertSpawns
    <3>2. CASE c \in command[k].listed
      <4>. DEFINE S == command[k].listed
      <4>1. PICK f \in Injection(S, FreeLoops) :
              loop' = [l \in Loops |->
                 IF \E d \in S : f[d] = l
                 THEN [at |-> "sleep", counter |-> 0,
                       check |-> CHOOSE d \in S : f[d] = l]
                 ELSE loop[l]]
        BY <2>4 DEF Insert
      <4>2. /\ \A d \in S : f[d] \in Loops
            /\ \A d, e \in S : f[d] = f[e] => d = e
        BY DEF Injection, IsInjective, FreeLoops
      <4>3. (CHOOSE d \in S : f[d] = f[c]) = c
        BY <3>2, <4>2
      <4>4. loop'[f[c]] = [at |-> "sleep", counter |-> 0, check |-> c]
        BY <3>2, <4>1, <4>2, <4>3
      <4>. QED
        BY <3>2, <4>2, <4>4 DEF Looped
    <3>3. CASE c \notin command[k].listed
      <4>1. CASE Looped(c)
        BY <3>1, <4>1 DEF Looped
      <4>2. CASE Ahead(c)
        <5>1. PICK j \in Clients :
                \/ command[j].at \in {"drain", "list"}
                \/ command[j].at = "insert" /\ c \in command[j].listed
          BY <4>2 DEF Ahead
        <5>2. command'[j] = command[j]
          BY <2>4, <3>3, <5>1 DEF Insert, TypeOK
        <5>. QED
          BY <5>1, <5>2 DEF Ahead
      <4>. QED
        BY <1>1, <2>0, <4>1, <4>2
    <3>. QED
      BY <3>2, <3>3
  <2>. QED
    BY <1>4, <2>1, <2>2, <2>3, <2>4 DEF ReloadStep
<1>5. CASE UNCHANGED vars
  BY <1>1, <1>5 DEF vars, Scheduled, Stored, Looped, Ahead
<1>. QED
  BY <1>2, <1>3, <1>4, <1>5 DEF Next

\* However many commands overlap: once all of them are done every enabled check
\* has a loop, unless a list query failed (healthcheck.rs, reload).
THEOREM NoCheckForgotten == Spec => []NoneForgotten
<1>1. Init => Remembered
  <2>1. Init => Boot \in Clients /\ command[Boot].at = "drain"
    BY SchedulerAssumption DEF Init
  <2>. QED
    BY <2>1 DEF Remembered, Ahead
<1>2. Remembered => NoneForgotten
  BY DEF Remembered, NoneForgotten, Settled, Ahead, Looped, LoopsOf, LiveLoops, Live
<1>. QED
  BY <1>1, <1>2, RememberedStep, TypeCorrect, PTL DEF Spec

-----------------------------------------------------------------------------
(* The schedule implements Watch while commands do not overlap.  A check's *)
(* work is then what the loop behind its handle does, and the stage is that *)
(* of the one command under way.                                           *)

Does(c) == IF tasks[c] = NoLoop THEN "none"
           ELSE IF loop[tasks[c]].at = "sleep" THEN "asleep" ELSE "busy"
AllWork == [c \in Checks |-> Work(c)]
AllDoes == [c \in Checks |-> Does(c)]
Watching == AllWork = AllDoes

LEMMA RegisteredWatching == Registered => Watching
<1>. SUFFICES ASSUME Registered, NEW c \in Checks PROVE Work(c) = Does(c)
  BY DEF Watching, AllWork, AllDoes
<1>1. LoopsOf(c) = IF tasks[c] = NoLoop THEN {} ELSE {tasks[c]}
  BY LoopsFromTable
<1>2. Cardinality({tasks[c]}) = 1
  BY FS_Singleton
<1>. QED
  BY <1>1, <1>2 DEF Work, Does

\* Where one command is and all others are not tells the stage.
LEMMA OneAtStage ==
  ASSUME Registered, NEW k \in Clients
  PROVE  /\ command[k].at = "drain" => Stage = "edited"
         /\ command[k].at \in {"list", "insert"} => Stage = "stopped"
         /\ Settled => Stage = "current"
  BY DEF Stage, Settled, Registered, OneCommand

LEMMA EditChanges ==
  ASSUME Registered, InOrder', NEW k \in Clients, NEW c \in Checks,
         NEW new, Edit(k, c, new)
  PROVE  /\ Stage = "current" /\ Stage' = "edited"
         /\ Listed' \in {Listed \cup {c}, Listed \ {c}}
         /\ UNCHANGED AllDoes
<1>1. Settled
  BY DEF Edit, Write, InOrder
<1>2. /\ row' = [row EXCEPT ![c] = new]
      /\ command' = [command EXCEPT ![k].at = "drain"]
      /\ UNCHANGED <<tasks, loop>>
  BY DEF Edit, Write
<1>3. command'[k].at = "drain"
  BY <1>2 DEF Registered, ScheduleType
<1>4. Stage = "current" /\ Stage' = "edited"
  BY <1>1, <1>3 DEF Stage, Settled
<1>5. \A d \in Checks : d # c => (Scheduled(d)' <=> Scheduled(d))
  BY <1>2 DEF Scheduled, Stored, Registered, ScheduleType
<1>6. Listed' \in {Listed \cup {c}, Listed \ {c}}
  <2>1. CASE Scheduled(c)'
    <3>1. Listed' = Listed \cup {c}
      BY <1>5, <2>1 DEF Listed
    <3>. QED
      BY <3>1
  <2>2. CASE ~ Scheduled(c)'
    <3>1. Listed' = Listed \ {c}
      BY <1>5, <2>2 DEF Listed
    <3>. QED
      BY <3>1
  <2>. QED
    BY <2>1, <2>2
<1>. QED
  BY <1>2, <1>4, <1>6 DEF AllDoes, Does

LEMMA CrudChanges ==
  ASSUME Registered, InOrder', NEW k \in Clients, Crud(k)
  PROVE  \E c \in Checks :
           /\ Stage = "current" /\ Stage' = "edited"
           /\ Listed' \in {Listed \cup {c}, Listed \ {c}}
           /\ UNCHANGED AllDoes
<1>1. PICK c \in Checks : \E new : Edit(k, c, new)
  BY DEF Crud, create, update, remove
<1>2. PICK new : Edit(k, c, new)
  BY <1>1
<1>. QED
  BY <1>2, EditChanges

LEMMA DrainStops ==
  ASSUME Registered, Registered', NEW k \in Clients, Drain(k)
  PROVE  /\ Stage = "edited" /\ Stage' = "stopped"
         /\ AllDoes' = [c \in Checks |-> "none"]
         /\ UNCHANGED Listed
<1>1. /\ command[k].at = "drain" /\ command' = [command EXCEPT ![k].at = "list"]
      /\ tasks' = [c \in Checks |-> NoLoop] /\ UNCHANGED row
  BY DEF Drain
<1>2. \A j \in Clients : command'[j].at = IF j = k THEN "list" ELSE "idle"
  BY <1>1 DEF Registered, OneCommand, ScheduleType
<1>3. Stage = "edited" /\ Stage' = "stopped"
  BY <1>1, <1>2 DEF Stage, Settled
<1>. QED
  BY <1>1, <1>3 DEF AllDoes, Does, Listed, Scheduled, Stored

LEMMA ListWaits ==
  ASSUME Registered, NEW k \in Clients, List(k)
  PROVE  UNCHANGED <<Stage, AllDoes, Listed>>
<1>1. /\ command[k].at = "list"
      /\ command' = [command EXCEPT ![k] = [at |-> "insert", listed |-> Listed]]
      /\ UNCHANGED <<row, tasks, loop>>
  BY DEF List
<1>2. \A j \in Clients : /\ command[j].at = IF j = k THEN "list" ELSE "idle"
                         /\ command'[j].at = IF j = k THEN "insert" ELSE "idle"
  BY <1>1 DEF Registered, OneCommand, ScheduleType
<1>3. Stage = "stopped" /\ Stage' = "stopped"
  BY <1>2 DEF Stage, Settled
<1>. QED
  BY <1>1, <1>3 DEF AllDoes, Does, Listed, Scheduled, Stored

LEMMA ListFailsResumesNone ==
  ASSUME Registered, NEW k \in Clients, ListFails(k)
  PROVE  /\ Stage = "stopped" /\ Stage' = "current"
         /\ AllDoes' = [c \in Checks |-> "none"]
         /\ UNCHANGED Listed
<1>1. /\ command[k].at = "list" /\ command' = [command EXCEPT ![k].at = "idle"]
      /\ UNCHANGED <<row, tasks, loop>>
  BY DEF ListFails
<1>2. \A j \in Clients : /\ command[j].at = IF j = k THEN "list" ELSE "idle"
                         /\ command'[j].at = "idle"
  BY <1>1 DEF Registered, OneCommand, ScheduleType
<1>3. Stage = "stopped" /\ Stage' = "current"
  BY <1>2 DEF Stage, Settled
<1>4. \A c \in Checks : tasks'[c] = NoLoop
  BY <1>1 DEF Registered, DrainedIsEmpty
<1>. QED
  BY <1>1, <1>3, <1>4 DEF AllDoes, Does, Listed, Scheduled, Stored

LEMMA InsertResumes ==
  ASSUME Registered, Registered', NEW k \in Clients, Insert(k)
  PROVE  /\ Stage = "stopped" /\ Stage' = "current"
         /\ AllDoes' = [c \in Checks |-> IF c \in Listed THEN "asleep" ELSE "none"]
         /\ UNCHANGED Listed
<1>. DEFINE S == command[k].listed
<1>1. /\ command[k].at = "insert"
      /\ command' = [command EXCEPT ![k] = [at |-> "idle", listed |-> {}]]
      /\ UNCHANGED row
  BY DEF Insert
<1>2. \A j \in Clients : /\ command[j].at = IF j = k THEN "insert" ELSE "idle"
                         /\ command'[j].at = "idle"
  BY <1>1 DEF Registered, OneCommand, ScheduleType
<1>3. Stage = "stopped" /\ Stage' = "current"
  BY <1>2 DEF Stage, Settled
<1>4. S = Listed /\ S \in SUBSET Checks
  BY <1>1 DEF Registered, ListedIsCurrent, ScheduleType
<1>5. PICK f \in Injection(S, FreeLoops) :
        /\ tasks' = [c \in Checks |-> IF c \in S THEN f[c] ELSE tasks[c]]
        /\ loop' = [l \in Loops |->
             IF \E c \in S : f[c] = l
             THEN [at |-> "sleep", counter |-> 0,
                   check |-> CHOOSE c \in S : f[c] = l]
             ELSE loop[l]]
  BY DEF Insert
<1>. HIDE DEF S
<1>6. \A c \in S : f[c] \in Loops /\ f[c] # NoLoop
  BY SchedulerAssumption DEF Injection, IsInjective, FreeLoops
<1>7. \A c \in S : tasks'[c] = f[c] /\ loop'[f[c]].at = "sleep"
  BY <1>4, <1>5, <1>6
<1>8. \A c \in Checks \ S : tasks'[c] = NoLoop
  BY <1>1, <1>5 DEF Registered, DrainedIsEmpty
<1>9. \A c \in Checks : Does(c)' = IF c \in S THEN "asleep" ELSE "none"
  BY <1>6, <1>7, <1>8 DEF Does
<1>10. AllDoes' = [c \in Checks |-> IF c \in S THEN "asleep" ELSE "none"]
  BY <1>9 DEF AllDoes
<1>. QED
  BY <1>1, <1>3, <1>4, <1>10 DEF Listed, Scheduled, Stored

\* A loop begins a run of an enabled check, goes on with it or finishes it.
LEMMA LoopStepWorks ==
  ASSUME Registered, Registered', TypeOK, NEW l \in Loops, LoopStep(l)
  PROVE  \E c \in Checks :
           /\ UNCHANGED <<Stage, Listed>>
           /\ \/ /\ AllDoes[c] = "asleep" /\ c \in Listed
                 /\ AllDoes' = [AllDoes EXCEPT ![c] = "busy"]
              \/ /\ AllDoes[c] = "busy"
                 /\ AllDoes' = [AllDoes EXCEPT ![c] = "asleep"]
              \/ UNCHANGED AllDoes
<1>1. /\ UNCHANGED <<tasks, command>>
      /\ \A d \in Checks : Scheduled(d)' <=> Scheduled(d)
  BY LoopStepFrame DEF Registered
<1>2. UNCHANGED <<Stage, Listed>>
  BY <1>1 DEF Stage, Settled, Listed
<1>3. Live(l)
  BY DEF LoopStep, Wake, ProbeSucceeds, ProbeFails, Act, StopProcess,
         StartProcess, Record, RecordFails, Live
<1>4. PICK c \in Checks : loop[l].check = c /\ tasks[c] = l /\ l # NoLoop
  BY <1>3, SchedulerAssumption DEF Registered, LoopsRegistered, LiveLoops, ScheduleType
<1>5. \A d \in Checks : d # c /\ tasks[d] # NoLoop => tasks[d] \in Loops /\ tasks[d] # l
  BY <1>4 DEF Registered, HandlesAreLive, ScheduleType
<1>6. \A m \in Loops : m # l => loop'[m] = loop[m]
  BY OnlyItsOwn
<1>7. \A d \in Checks : d # c => Does(d)' = Does(d)
  BY <1>1, <1>5, <1>6 DEF Does
<1>8. /\ Does(c) = IF loop[l].at = "sleep" THEN "asleep" ELSE "busy"
      /\ Does(c)' = IF loop'[l].at = "sleep" THEN "asleep" ELSE "busy"
  BY <1>1, <1>4 DEF Does
<1>9. loop[l].at = "sleep" => Scheduled(c) /\ loop'[l].at = "probe"
  <2>. SUFFICES ASSUME loop[l].at = "sleep" PROVE Scheduled(c) /\ loop'[l].at = "probe"
    OBVIOUS
  <2>1. Wake(l)
    BY DEF LoopStep, Wake, ProbeSucceeds, ProbeFails, Act, StopProcess,
           StartProcess, Record, RecordFails
  <2>. QED
    BY <1>4, <2>1 DEF Wake, GoesWith, TypeOK
<1>10. \A d \in Checks : AllDoes[d] = Does(d) /\ AllDoes'[d] = Does(d)'
  BY DEF AllDoes
<1>11. ASSUME NEW CONSTANT x, Does(c)' = x PROVE AllDoes' = [AllDoes EXCEPT ![c] = x]
  BY <1>4, <1>7, <1>11 DEF AllDoes
<1>12. Does(c)' = Does(c) => UNCHANGED AllDoes
  BY <1>4, <1>7 DEF AllDoes
<1>13. CASE loop[l].at = "sleep"
  <2>1. Does(c) = "asleep" /\ Does(c)' = "busy" /\ c \in Listed
    BY <1>4, <1>8, <1>9, <1>13 DEF Listed
  <2>. QED
    BY <2>1, <1>2, <1>4, <1>10, <1>11
<1>14. CASE loop[l].at # "sleep"
  <2>1. Does(c) = "busy" /\ Does(c)' \in {"busy", "asleep"}
    BY <1>8, <1>14
  <2>. QED
    BY <2>1, <1>2, <1>4, <1>10, <1>11, <1>12
<1>. QED
  BY <1>13, <1>14

LEMMA ScheduleStepIsWatchStep ==
  ASSUME Registered, Registered', TypeOK, InOrder', Watching, Watching', [Next]_vars
  PROVE  [W!WatchNext]_(W!watchVars)
<1>. SUFFICES W!WatchNext \/ UNCHANGED <<Listed, AllWork, Stage>>
  BY DEF W!watchVars, AllWork
<1>0. AllWork = AllDoes /\ AllWork' = AllDoes'
  BY DEF Watching
<1>1. ASSUME NEW k \in Clients, Crud(k) PROVE W!WatchNext
  <2>1. PICK c \in Checks :
          /\ Stage = "current" /\ Stage' = "edited"
          /\ Listed' \in {Listed \cup {c}, Listed \ {c}}
          /\ UNCHANGED AllDoes
    BY <1>1, CrudChanges
  <2>2. W!Change(c)
    BY <1>0, <2>1 DEF W!Change, AllWork
  <2>. QED
    BY <2>2 DEF W!WatchNext
<1>2. ASSUME NEW k \in Clients, Drain(k) PROVE W!WatchNext
  <2>1. W!Stop
    BY <1>0, <1>2, DrainStops DEF W!Stop, W!Nothing, AllWork
  <2>. QED
    BY <2>1 DEF W!WatchNext
<1>3. ASSUME NEW k \in Clients, List(k) PROVE UNCHANGED <<Listed, AllWork, Stage>>
  BY <1>0, <1>3, ListWaits
<1>4. ASSUME NEW k \in Clients, ListFails(k) \/ Insert(k) PROVE W!WatchNext
  <2>1. W!Resume
    BY <1>0, <1>4, ListFailsResumesNone, InsertResumes DEF W!Resume, W!Nothing, AllWork
  <2>. QED
    BY <2>1 DEF W!WatchNext
<1>5. ASSUME NEW l \in Loops, LoopStep(l)
      PROVE  W!WatchNext \/ UNCHANGED <<Listed, AllWork, Stage>>
  <2>1. PICK c \in Checks :
          /\ UNCHANGED <<Stage, Listed>>
          /\ \/ /\ AllDoes[c] = "asleep" /\ c \in Listed
                /\ AllDoes' = [AllDoes EXCEPT ![c] = "busy"]
             \/ /\ AllDoes[c] = "busy"
                /\ AllDoes' = [AllDoes EXCEPT ![c] = "asleep"]
             \/ UNCHANGED AllDoes
    BY <1>5, LoopStepWorks
  <2>2. W!Begin(c) \/ W!Finish(c) \/ UNCHANGED <<Listed, AllWork, Stage>>
    BY <1>0, <2>1 DEF W!Begin, W!Finish, AllWork
  <2>. QED
    BY <2>2 DEF W!WatchNext
<1>6. CASE UNCHANGED vars
  BY <1>6 DEF vars, Listed, Scheduled, Stored, AllWork, Work, LoopsOf, LiveLoops,
              Live, Stage, Settled
<1>. QED
  BY <1>1, <1>2, <1>3, <1>4, <1>5, <1>6 DEF Next, ReloadStep

\* healthcheck.rs and commands/healthchecks.rs: in any behaviour in which commands
\* do not overlap, for any checks and loops, and whether or not list queries or
\* recordings fail, the scheduler implements Watch.
THEOREM ScheduleImplementsWatch == Spec /\ []Without({"overlap"}) => ImplementsWatch
<1>1. Spec /\ []Without({"overlap"}) => [](Registered /\ InOrder /\ Watching)
  <2>1. Without({"overlap"}) => InOrder
    BY DEF Without, InOrder
  <2>2. Schedule /\ InOrder => Registered
    BY DEF Schedule
  <2>. QED
    BY <2>1, <2>2, RegisteredWatching, ScheduleInvariant, PTL
<1>2. Init => W!WatchInit
  <2>. SUFFICES ASSUME Init PROVE W!WatchInit
    OBVIOUS
  <2>1. Registered
    BY InitSchedule
  <2>2. AllWork = [c \in Checks |-> "none"]
    BY <2>1, RegisteredWatching DEF Watching, AllDoes, Does, Init
  <2>3. Boot \in Clients /\ command[Boot].at = "drain"
    BY SchedulerAssumption DEF Init
  <2>4. Stage = "edited"
    BY <2>3 DEF Stage, Settled
  <2>5. Listed \in SUBSET Checks
    BY DEF Listed
  <2>. QED
    BY <2>2, <2>4, <2>5 DEF W!WatchInit, W!Nothing, AllWork
<1>. QED
  BY <1>1, <1>2, ScheduleStepIsWatchStep, TypeCorrect, PTL
     DEF Spec, ImplementsWatch, W!WatchSpec
=============================================================================
