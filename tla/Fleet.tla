------------------------------- MODULE Fleet -------------------------------
(***************************************************************************)
(* One action on many servers: FleetView starts a run, fleet_run carries it *)
(* out on all servers at once or on one after the other, tells the view of  *)
(* every server that is finished, and answers with all results.             *)
(*                                                                         *)
(* The view can be left and opened again while a run goes on; its button is *)
(* enabled again then, so that runs overlap.  Every call to a supervisord   *)
(* is a step; it may have its effect and still end in an error.             *)
(*                                                                         *)
(* startAll and startGroup, stopAll and stopGroup, restartAll and           *)
(* restartGroup differ in the processes they are about, not in their steps. *)
(***************************************************************************)
EXTENDS Naturals, FiniteSets, Sequences, SequencesExt

CONSTANTS
  Servers,
  Kinds,      \* <<action, strategy>>: the kinds of runs that may be started
  MaxRuns     \* bound: runs started

Actions == {"start", "stop", "restart"}
Strategies == {"parallel", "sequential"}

ASSUME FleetAssumption ==
  /\ IsFiniteSet(Servers)
  /\ Kinds \subseteq Actions \X Strategies
  /\ MaxRuns \in Nat

VARIABLES
  up,       \* server -> whether the processes of the run are up
  runs,     \* the runs started: action, strategy, servers in the chosen order
  job,      \* run -> server -> where its work stands, its result, and
            \*   (history, of the lone run) whether the server was up when the
            \*   work began
  answer,   \* run -> "none", or how fleet_run returned
  events,   \* <<run, server>>: progress events under way to the view
  view,     \* the FleetView on screen
  lone      \* history: the run, if no other went on at any time since its start
            \*   and every call of it that succeeded did all it is for

fleetVars == <<up, runs, job, answer, events, view, lone>>

Runs == 1 .. MaxRuns
NoRun == 0

\* A FleetView that was just mounted.  of is history: the last run it started.
NewView == [run |-> NoRun, busy |-> FALSE, told |-> "nothing",
            shown |-> [s \in Servers |-> "none"], of |-> NoRun]

NoJob == [at |-> "waiting", result |-> "none", up |-> FALSE]

Started(r) == r <= Len(runs)
Targets(r) == Range(runs[r].order)
Ended(r) == Started(r) => answer[r] # "none"

-----------------------------------------------------------------------------
(* fleet_run() *)

Done(r, s) == job[r][s].at = "done"

\* mutant: all servers at once, whatever the strategy
ReadyAtOnce(r, s) == TRUE

\* mutant: the sequence goes on only after a success
ReadyAfterSuccess(r, s) ==
  runs[r].strategy = "sequential" =>
    \A i, j \in 1 .. Len(runs[r].order) :
      runs[r].order[j] = s /\ i < j => job[r][runs[r].order[i]].result = "ok"

\* A sequential run comes to s when those before it are finished (and the
\* delay is over); a parallel run comes to all at once.
Ready(r, s) ==
  runs[r].strategy = "sequential" =>
    \A i, j \in 1 .. Len(runs[r].order) :
      runs[r].order[j] = s /\ i < j => Done(r, runs[r].order[i])

Move(r, s, where) == job' = [job EXCEPT ![r][s].at = where]

\* run_one ends: its result is kept and, as an event, told to the view.
Finish(r, s, result) ==
  /\ job' = [job EXCEPT ![r][s] = [@ EXCEPT !.at = "done", !.result = result]]
  /\ events' = events \cup {<<r, s>>}

Work(r, s) == Started(r) /\ s \in Targets(r)

\* The server is read from the store and its first call is on the way.
Begin(r, s) ==
  /\ Work(r, s) /\ job[r][s].at = "waiting" /\ Ready(r, s)
  /\ job' = [job EXCEPT ![r][s] = [@ EXCEPT
       !.at = IF runs[r].action = "start" THEN "start" ELSE "stop",
       !.up = r \in lone /\ up[s]]]
  /\ UNCHANGED <<up, runs, answer, events, view, lone>>

\* The server is gone, or no connector can be made.
NotBegun(r, s) ==
  /\ Work(r, s) /\ job[r][s].at = "waiting" /\ Ready(r, s)
  /\ Finish(r, s, "error")
  /\ UNCHANGED <<up, runs, answer, view, lone>>

\* mutant: a failed stop counts as a success
AfterStopUnchecked(r, s, ok) ==
  IF runs[r].action = "stop" THEN Finish(r, s, "ok")
  ELSE Move(r, s, "start") /\ UNCHANGED events

\* A restart goes on to its start, however its stop ended.
AfterStop(r, s, ok) ==
  IF runs[r].action = "stop" THEN Finish(r, s, IF ok THEN "ok" ELSE "error")
  ELSE Move(r, s, "start") /\ UNCHANGED events

\* A call about many processes answers with a status for each of them: it can
\* succeed (ok) without doing all it is for (effect), as it can fail after it
\* has done it.
StillLone(r, ok, effect) == IF ok /\ ~effect THEN lone \ {r} ELSE lone

Stop(r, s) ==
  /\ Work(r, s) /\ job[r][s].at = "stop"
  /\ \E ok \in BOOLEAN, effect \in BOOLEAN :
       /\ up' = IF effect THEN [up EXCEPT ![s] = FALSE] ELSE up
       /\ AfterStop(r, s, ok)
       /\ lone' = StillLone(r, ok, effect)
  /\ UNCHANGED <<runs, answer, view>>

\* Processes that are up already are left alone.
Start(r, s) ==
  /\ Work(r, s) /\ job[r][s].at = "start"
  /\ \E ok \in BOOLEAN, effect \in BOOLEAN :
       /\ up' = IF effect THEN [up EXCEPT ![s] = TRUE] ELSE up
       /\ Finish(r, s, IF ok THEN "ok" ELSE "error")
       /\ lone' = StillLone(r, ok, effect)
  /\ UNCHANGED <<runs, answer, view>>

\* mutant of Return: a run on all servers answers with its first error
ReturnAtFirstError(r) ==
  /\ Started(r) /\ answer[r] = "none"
  /\ \/ \A s \in Targets(r) : Done(r, s)
     \/ \E s \in Targets(r) : job[r][s].result = "error"
  /\ answer' = [answer EXCEPT ![r] = "error"]
  /\ UNCHANGED <<up, runs, job, events, view, lone>>

\* All results are there.  Without the database, which is asked for only now,
\* fleet_run returns its error instead of them.
Return(r) ==
  /\ Started(r) /\ answer[r] = "none"
  /\ \A s \in Targets(r) : Done(r, s)
  /\ \E out \in {"results", "error"} : answer' = [answer EXCEPT ![r] = out]
  /\ UNCHANGED <<up, runs, job, events, view, lone>>

-----------------------------------------------------------------------------
(* FleetView *)

\* run(): the button is enabled when no run of this view is under way.
Run(order, action, strategy) ==
  LET r == Len(runs) + 1 IN
  /\ r \in Runs /\ ~view.busy
  /\ runs' = Append(runs, [action |-> action, strategy |-> strategy, order |-> order])
  /\ view' = [NewView EXCEPT !.run = r, !.of = r, !.busy = TRUE]
  /\ lone' = IF \A q \in Runs : Ended(q) THEN {r} ELSE {}
  /\ UNCHANGED <<up, job, answer, events>>

\* mutant: events of every run are shown
AnyRuns(r) == view.run # NoRun

Mine(r) == view.run # NoRun /\ r = view.run

\* onFleet: of the run under way the result is shown, others are ignored.
Progress(r, s) ==
  /\ <<r, s>> \in events
  /\ events' = events \ {<<r, s>>}
  /\ view' = IF Mine(r) THEN [view EXCEPT !.shown[s] = job[r][s].result] ELSE view
  /\ UNCHANGED <<up, runs, job, answer, lone>>

\* The results of the answer replace what the events have shown.
Aggregate(r) == [s \in Servers |-> job[r][s].result]

Answered(r) ==
  /\ view.run = r /\ answer[r] # "none"
  /\ view' = [view EXCEPT
       !.run = NoRun, !.busy = FALSE, !.told = answer[r],
       !.shown = IF answer[r] = "results" THEN Aggregate(r) ELSE @]
  /\ UNCHANGED <<up, runs, job, answer, events, lone>>

\* Leaving the view and coming back: another instance, without a run.
LeaveView ==
  /\ view.of # NoRun
  /\ view' = NewView
  /\ UNCHANGED <<up, runs, job, answer, events, lone>>

-----------------------------------------------------------------------------
\* The servers are in the order of their selection.
Orders == SetToAllKPermutations(Servers) \ {<<>>}

FleetInit ==
  /\ up \in [Servers -> BOOLEAN]
  /\ runs = <<>>
  /\ job = [r \in Runs |-> [s \in Servers |-> NoJob]]
  /\ answer = [r \in Runs |-> "none"]
  /\ events = {}
  /\ view = NewView
  /\ lone = {}

Working(r) ==
  \/ \E s \in Servers : Begin(r, s) \/ NotBegun(r, s) \/ Stop(r, s) \/ Start(r, s)
  \/ Return(r)

Viewing ==
  \/ \E order \in Orders, kind \in Kinds : Run(order, kind[1], kind[2])
  \/ LeaveView
Told(r) == Answered(r) \/ \E s \in Servers : Progress(r, s)

FleetNext == Viewing \/ \E r \in Runs : Working(r) \/ Told(r)

FleetSpec == FleetInit /\ [][FleetNext]_fleetVars

-----------------------------------------------------------------------------
(* Properties *)

Results == {"none", "ok", "error"}
Jobs == [at : {"waiting", "stop", "start", "done"}, result : Results,
         up : BOOLEAN]

\* Runs, jobs and the view have their types; an event or an answer is about
\* finished work.
FleetTypeOK ==
  /\ up \in [Servers -> BOOLEAN]
  /\ runs \in Seq([action : Actions, strategy : Strategies, order : Seq(Servers)])
  /\ job \in [Runs -> [Servers -> Jobs]]
  /\ answer \in [Runs -> {"none", "results", "error"}]
  /\ view \in [run : Runs \cup {NoRun}, busy : BOOLEAN,
               told : {"nothing", "results", "error"},
               shown : [Servers -> Results], of : Runs \cup {NoRun}]
  /\ lone \subseteq Runs
  /\ events \subseteq Runs \X Servers
  /\ \A r \in Runs, s \in Servers :
       <<r, s>> \in events \/ job[r][s].result # "none" => Done(r, s)

\* The point of a rolling run ("Sequential (rolling)"): as long as no other run
\* meddles and calls that succeed do all they are for, it has taken down one
\* server at a time, the one it is working on, and every other one only if it
\* said so with an error (or was to stop them).
RollingKeepsOthersUp ==
  \A r \in lone :
    runs[r].strategy = "sequential" /\ runs[r].action # "stop" =>
      \A s, t \in Targets(r) :
        /\ s # t /\ job[r][s].at \in {"stop", "start"}
        /\ job[r][t].up /\ ~up[t]
        => job[r][t].result = "error"

\* A server with the result "ok" is left as the action wants it, whatever failed
\* before on this or on other servers (under the same two conditions).
OkLeavesAsAsked ==
  \A r \in lone : \A s \in Targets(r) :
    job[r][s].result = "ok" => (up[s] <=> runs[r].action # "stop")

\* What the view shows are results of the run it started last, never of one that
\* another visit of the view left behind; and with the answer it shows them all.
ShownIsTrue ==
  /\ \A s \in Servers : view.shown[s] # "none" =>
       view.of # NoRun /\ view.shown[s] = job[view.of][s].result
  /\ view.told = "results" =>
       \A s \in Servers : (view.shown[s] # "none") <=> (s \in Targets(view.of))

\* What is left of a run that has not answered: its answer, or a server whose turn
\* it is or whose call is on the way.
CanGoOn(r) ==
  \/ \A s \in Targets(r) : Done(r, s)
  \/ \E s \in Targets(r) :
       \/ job[r][s].at = "waiting" /\ Ready(r, s)
       \/ job[r][s].at \in {"stop", "start"}

\* fleet_run: whichever servers fail, a run that has not answered can go on, until
\* it does; the work of a run is finite, so every run answers.
NoRunStalls ==
  \A r \in Runs : Started(r) /\ answer[r] = "none" => CanGoOn(r)

\* The runs as whoever asks for them sees them: strategy, order and calls disappear.
B == INSTANCE Batch WITH
       asked <- [r \in Runs |-> IF Started(r) THEN Targets(r) ELSE {}],
       result <- [r \in Runs |-> [s \in Servers |-> job[r][s].result]],
       page <- [of |-> view.of, told |-> view.told, shown |-> view.shown]

\* fleet_run and FleetView.vue: whatever order the servers are worked through in,
\* whatever fails, however late progress and answers arrive and whatever other runs
\* go on, every server of a run gets one final result, the answer waits for all of
\* them, and the view shows those of the run it started.
ImplementsBatch == B!BatchSpec
=============================================================================
