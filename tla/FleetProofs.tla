----------------------------- MODULE FleetProofs -----------------------------
(***************************************************************************)
(* Theorems about Fleet, for every set of servers, every number of runs    *)
(* and every failure.  A rolling run keeps the other servers up, and a     *)
(* result "ok" is true, while no other run goes on and calls that succeed  *)
(* have done all they are for (lone).                                      *)
(*                                                                         *)
(* The argument: a sequential run works on a server only when those before *)
(* it in its order are done (InOrder); a run that has returned works on    *)
(* nothing (Returned), so nobody touches the servers of the lone run but   *)
(* the lone run, which is the last one (LoneIsLast); so what is done stays *)
(* as it was left (LeftAsAsked).  A result is final, so what the view has  *)
(* copied of it stays true (ViewFits); the first server in its order that  *)
(* is not done is what a run can go on with (CanGoOn); and step by step a  *)
(* run is an action on its servers that settles each once and answers when *)
(* all are settled (Batch).                                                *)
(***************************************************************************)
EXTENDS Fleet, FiniteSetTheorems, WellFoundedInduction, TLAPS

USE DEF NoRun, Started, Done

Places(r) == 1 .. Len(runs[r].order)

\* Where a job stands agrees with the action of its run.
JobsFit ==
  \A r \in Runs, s \in Servers :
    /\ job[r][s].at = "waiting" => job[r][s].result = "none" /\ ~job[r][s].up
    /\ job[r][s].at = "stop" => runs[r].action # "start"
    /\ job[r][s].at = "start" => runs[r].action # "stop"
    /\ job[r][s].at \in {"stop", "start"} => job[r][s].result = "none"
    /\ job[r][s].at = "done" => job[r][s].result # "none"
    /\ job[r][s].at # "waiting" => Work(r, s)

InOrder ==
  \A r \in Runs : Started(r) /\ runs[r].strategy = "sequential" =>
    \A i, j \in Places(r) :
      i < j /\ job[r][runs[r].order[j]].at # "waiting" => Done(r, runs[r].order[i])

Returned ==
  \A r \in Runs : answer[r] # "none" => Started(r) /\ \A s \in Targets(r) : Done(r, s)

LoneIsLast ==
  \A r \in lone : r = Len(runs) /\ \A q \in Runs : q < r => answer[q] # "none"

LeftAsAsked ==
  \A r \in lone, s \in Servers :
    job[r][s].result = "ok" => (up[s] <=> runs[r].action # "stop")

FleetStructure == FleetTypeOK /\ JobsFit /\ InOrder /\ Returned /\ LoneIsLast
FleetInv == FleetStructure /\ LeftAsAsked

LEMMA OrdersAreSequences ==
  /\ Orders \subseteq Seq(Servers)
<1> SUFFICES ASSUME NEW o \in Orders PROVE o \in Seq(Servers)
  OBVIOUS
<1>1. PICK S \in SUBSET Servers : o \in SetToSeqs(S)
  BY DEF Orders, SetToAllKPermutations
<1>2. Cardinality(S) \in Nat
  BY FS_Subset, FS_CardinalityType, FleetAssumption
<1>3. QED
  BY <1>1, <1>2 DEF SetToSeqs

LEMMA KindsAreKnown ==
  ASSUME NEW kind \in Kinds
  PROVE  kind[1] \in Actions /\ kind[2] \in Strategies
  BY FleetAssumption

\* What a sequence of S holds is in S.
LEMMA ElementIn ==
  ASSUME NEW S, NEW w \in Seq(S), NEW i \in 1 .. Len(w)
  PROVE  w[i] \in S
  OBVIOUS

LEMMA TargetsAreServers ==
  ASSUME FleetTypeOK, NEW r \in Runs, Started(r)
  PROVE  /\ runs[r].order \in Seq(Servers)
         /\ runs[r].action \in Actions /\ runs[r].strategy \in Strategies
         /\ Targets(r) \subseteq Servers
         /\ Targets(r) = {runs[r].order[i] : i \in Places(r)}
<1> DEFINE Record == [action : Actions, strategy : Strategies, order : Seq(Servers)]
<1>1. runs \in Seq(Record) /\ r \in 1 .. Len(runs)
  BY FleetAssumption DEF FleetTypeOK, Runs
<1> HIDE DEF Record
<1>2. runs[r] \in Record
  BY <1>1, ElementIn
<1>3. runs[r].order \in Seq(Servers)
  BY <1>2 DEF Record
<1>4. QED
  BY <1>2, <1>3, ElementIn DEF Record, Targets, Range, Places

\* A step of a run on one of its servers, whichever it is.
Step(r, s) == Begin(r, s) \/ NotBegun(r, s) \/ Stop(r, s) \/ Start(r, s)

\* Only the job of r on s changes.
Elsewhere(r, s) ==
  /\ job' \in [Runs -> [Servers -> Jobs]]
  /\ \A q \in Runs, t \in Servers : ~(q = r /\ t = s) => job'[q][t] = job[q][t]

LEMMA JobChanges ==
  ASSUME FleetTypeOK, NEW r \in Runs, NEW s \in Servers, NEW new \in Jobs,
         job' = [job EXCEPT ![r][s] = new]
  PROVE  Elsewhere(r, s) /\ job'[r][s] = new
<1>1. job \in [Runs -> [Servers -> Jobs]]
  BY DEF FleetTypeOK
<1>2. QED
  BY ONLY <1>1, job' = [job EXCEPT ![r][s] = new], new \in Jobs,
          r \in Runs, s \in Servers DEF Elsewhere

LEMMA FinishFacts ==
  ASSUME FleetTypeOK, NEW r \in Runs, NEW s \in Servers,
         NEW result \in {"ok", "error"}, Finish(r, s, result)
  PROVE  /\ Elsewhere(r, s)
         /\ job'[r][s].at = "done" /\ job'[r][s].result = result
         /\ job'[r][s].up = job[r][s].up
<1> DEFINE new == [job[r][s] EXCEPT !.at = "done", !.result = result]
<1>1. job' = [job EXCEPT ![r][s] = new]
  BY DEF Finish, FleetTypeOK
<1>2. job[r][s] \in Jobs
  BY DEF FleetTypeOK
<1>3. /\ new \in Jobs /\ new.at = "done" /\ new.result = result
      /\ new.up = job[r][s].up
  BY <1>2 DEF Jobs, Results
<1> HIDE DEF new
<1>4. QED
  BY <1>1, <1>3, JobChanges

LEMMA MoveFacts ==
  ASSUME FleetTypeOK, NEW r \in Runs, NEW s \in Servers,
         NEW where \in {"stop", "start"}, Move(r, s, where)
  PROVE  /\ Elsewhere(r, s)
         /\ job'[r][s].at = where /\ job'[r][s].result = job[r][s].result
         /\ job'[r][s].up = job[r][s].up
<1> DEFINE new == [job[r][s] EXCEPT !.at = where]
<1>1. job' = [job EXCEPT ![r][s] = new]
  BY DEF Move, FleetTypeOK
<1>2. job[r][s] \in Jobs
  BY DEF FleetTypeOK
<1>3. /\ new \in Jobs /\ new.at = where
      /\ new.result = job[r][s].result /\ new.up = job[r][s].up
  BY <1>2 DEF Jobs
<1> HIDE DEF new
<1>4. QED
  BY <1>1, <1>3, JobChanges

LEMMA StepFacts ==
  ASSUME FleetTypeOK, JobsFit, NEW r \in Runs, NEW s \in Servers, Step(r, s)
  PROVE  /\ Work(r, s) /\ job[r][s].at # "done"
         /\ job[r][s].at = "waiting" => Ready(r, s)
         /\ UNCHANGED <<runs, answer, view>> /\ lone' \subseteq lone
         /\ Elsewhere(r, s)
         /\ up' \in [Servers -> BOOLEAN]
         /\ \A t \in Servers \ {s} : up'[t] = up[t]
         /\ events' = IF job'[r][s].at = "done" THEN events \cup {<<r, s>>} ELSE events
         /\ job'[r][s].at # "waiting"
         /\ job'[r][s].at = "stop" => runs[r].action # "start"
         /\ job'[r][s].at = "start" => runs[r].action # "stop"
         /\ job'[r][s].at \in {"stop", "start"} => job'[r][s].result = "none"
         /\ job'[r][s].at = "done" => job'[r][s].result # "none"
         /\ r \in lone' /\ job'[r][s].result = "ok" =>
              (up'[s] <=> runs[r].action # "stop")
<1>1. /\ up \in [Servers -> BOOLEAN] /\ up[s] \in BOOLEAN
      /\ job[r][s] \in Jobs
  BY DEF FleetTypeOK
<1>2. CASE Begin(r, s)
  <2> DEFINE was == r \in lone /\ up[s]
             at == IF runs[r].action = "start" THEN "start" ELSE "stop"
             new == [job[r][s] EXCEPT !.at = at, !.up = was]
  <2>1. job' = [job EXCEPT ![r][s] = new]
    BY <1>2 DEF Begin, FleetTypeOK
  <2>2. was \in BOOLEAN
    OBVIOUS
  <2> HIDE DEF was
  <2>3. new \in Jobs /\ new.at = at /\ new.result = job[r][s].result
    BY <1>1, <2>2 DEF Jobs
  <2> HIDE DEF new
  <2>4. Elsewhere(r, s) /\ job'[r][s].at = at /\ job'[r][s].result = job[r][s].result
    BY <2>1, <2>3, JobChanges
  <2>5. job[r][s].result = "none"
    BY <1>2 DEF Begin, JobsFit
  <2>6. QED
    BY <1>1, <1>2, <2>4, <2>5 DEF Begin
<1>3. CASE NotBegun(r, s)
  <2>1. /\ Elsewhere(r, s)
        /\ job'[r][s].at = "done" /\ job'[r][s].result = "error"
    BY <1>3, FinishFacts DEF NotBegun
  <2>2. QED
    BY <1>1, <1>3, <2>1 DEF NotBegun, Finish
<1>4. CASE Stop(r, s)
  <2>1. PICK ok \in BOOLEAN, effect \in BOOLEAN :
          /\ up' = IF effect THEN [up EXCEPT ![s] = FALSE] ELSE up
          /\ AfterStop(r, s, ok)
          /\ lone' = StillLone(r, ok, effect)
    BY <1>4 DEF Stop
  <2>2. /\ up' \in [Servers -> BOOLEAN]
        /\ \A t \in Servers \ {s} : up'[t] = up[t]
        /\ lone' \subseteq lone
        /\ r \in lone' /\ ok => ~up'[s]
    BY <1>1, <2>1 DEF StillLone
  <2>3. /\ job[r][s].result = "none" /\ runs[r].action # "start"
    BY <1>4 DEF Stop, JobsFit
  <2>4. CASE runs[r].action = "stop"
    <3>1. /\ Elsewhere(r, s) /\ job'[r][s].at = "done"
          /\ job'[r][s].result = IF ok THEN "ok" ELSE "error"
      BY <2>1, <2>4, FinishFacts DEF AfterStop
    <3>2. QED
      BY <1>4, <2>1, <2>2, <2>3, <2>4, <3>1 DEF Stop, AfterStop, Finish
  <2>5. CASE runs[r].action # "stop"
    <3>1. /\ Elsewhere(r, s) /\ job'[r][s].at = "start"
          /\ job'[r][s].result = "none"
      BY <2>1, <2>3, <2>5, MoveFacts DEF AfterStop
    <3>2. QED
      BY <1>4, <2>1, <2>2, <2>3, <2>5, <3>1 DEF Stop, AfterStop
  <2>6. QED
    BY <2>4, <2>5
<1>5. CASE Start(r, s)
  <2>1. PICK ok \in BOOLEAN, effect \in BOOLEAN :
          /\ up' = IF effect THEN [up EXCEPT ![s] = TRUE] ELSE up
          /\ Finish(r, s, IF ok THEN "ok" ELSE "error")
          /\ lone' = StillLone(r, ok, effect)
    BY <1>5 DEF Start
  <2>2. /\ up' \in [Servers -> BOOLEAN]
        /\ \A t \in Servers \ {s} : up'[t] = up[t]
        /\ lone' \subseteq lone
        /\ r \in lone' /\ ok => up'[s]
    BY <1>1, <2>1 DEF StillLone
  <2>3. runs[r].action # "stop"
    BY <1>5 DEF Start, JobsFit
  <2>4. /\ Elsewhere(r, s) /\ job'[r][s].at = "done"
        /\ job'[r][s].result = IF ok THEN "ok" ELSE "error"
    <3>1. (IF ok THEN "ok" ELSE "error") \in {"ok", "error"}
      OBVIOUS
    <3>2. QED
      BY <2>1, <3>1, FinishFacts
  <2>5. /\ events' = events \cup {<<r, s>>}
        /\ Work(r, s) /\ job[r][s].at = "start"
        /\ UNCHANGED <<runs, answer, view>>
    BY <1>5, <2>1 DEF Start, Finish
  <2>6. QED
    BY <2>2, <2>3, <2>4, <2>5
<1>6. QED
  BY <1>2, <1>3, <1>4, <1>5 DEF Step

LEMMA WorkStep ==
  ASSUME FleetStructure, NEW r \in Runs, NEW s \in Servers, Step(r, s)
  PROVE  FleetStructure'
<1> USE DEF FleetStructure
<1>1. /\ Work(r, s) /\ job[r][s].at # "done"
      /\ job[r][s].at = "waiting" => Ready(r, s)
      /\ UNCHANGED <<runs, answer, view>> /\ lone' \subseteq lone
      /\ Elsewhere(r, s)
      /\ up' \in [Servers -> BOOLEAN]
      /\ events' = IF job'[r][s].at = "done" THEN events \cup {<<r, s>>} ELSE events
      /\ job'[r][s].at # "waiting"
      /\ job'[r][s].at = "stop" => runs[r].action # "start"
      /\ job'[r][s].at = "start" => runs[r].action # "stop"
      /\ job'[r][s].at \in {"stop", "start"} => job'[r][s].result = "none"
      /\ job'[r][s].at = "done" => job'[r][s].result # "none"
  BY StepFacts
<1>2. JobsFit'
  BY <1>1 DEF JobsFit, Elsewhere, Work, Targets
<1>3. FleetTypeOK'
  <2>1. events' \subseteq Runs \X Servers
    BY <1>1 DEF FleetTypeOK
  <2>2. job'[r][s] \in Jobs
    BY <1>1 DEF Elsewhere
  <2>3. \A q \in Runs, t \in Servers :
          <<q, t>> \in events' \/ job'[q][t].result # "none" => job'[q][t].at = "done"
    BY <1>1, <2>2 DEF FleetTypeOK, Elsewhere, Jobs
  <2>4. QED
    BY <1>1, <2>1, <2>3 DEF FleetTypeOK, Elsewhere
<1>4. InOrder'
  <2> SUFFICES ASSUME NEW q \in Runs, Started(q), runs[q].strategy = "sequential",
                      NEW i \in Places(q), NEW j \in Places(q), i < j,
                      job'[q][runs[q].order[j]].at # "waiting"
               PROVE  job'[q][runs[q].order[i]].at = "done"
    BY <1>1 DEF InOrder, Places
  <2>1. runs[q].order[i] \in Servers /\ runs[q].order[j] \in Servers
    BY TargetsAreServers, ElementIn DEF Places
  <2>2. job[q][runs[q].order[i]].at = "done"
    <3>1. CASE q = r /\ s = runs[q].order[j]
      <4>1. CASE job[r][s].at = "waiting"
        BY <1>1, <3>1, <4>1 DEF Ready, Places
      <4>2. CASE job[r][s].at # "waiting"
        BY <3>1, <4>2 DEF InOrder
      <4>3. QED
        BY <4>1, <4>2
    <3>2. CASE ~(q = r /\ s = runs[q].order[j])
      BY <1>1, <2>1, <3>2 DEF InOrder, Elsewhere
    <3>3. QED
      BY <3>1, <3>2
  <2>3. ~(q = r /\ s = runs[q].order[i])
    BY <1>1, <2>2
  <2>4. QED
    BY <1>1, <2>1, <2>2, <2>3 DEF Elsewhere
<1>5. Returned'
  <2> SUFFICES ASSUME NEW q \in Runs, answer[q] # "none", NEW t \in Targets(q)
               PROVE  job'[q][t].at = "done"
    BY <1>1 DEF Returned, Targets
  <2>1. job[q][t].at = "done" /\ t \in Servers
    BY TargetsAreServers DEF Returned
  <2>2. QED
    BY <1>1, <2>1 DEF Elsewhere
<1>6. LoneIsLast'
  BY <1>1 DEF LoneIsLast
<1>7. QED
  BY <1>2, <1>3, <1>4, <1>5, <1>6

LEMMA ReturnStep ==
  ASSUME FleetStructure, NEW r \in Runs, Return(r)
  PROVE  FleetStructure'
<1> USE DEF FleetStructure
<1>1. FleetTypeOK'
  BY DEF Return, FleetTypeOK
<1>2. JobsFit' /\ InOrder'
  BY DEF Return, JobsFit, InOrder, Work, Targets, Places
<1>3. Returned' /\ LoneIsLast'
  BY DEF Return, Returned, LoneIsLast, Targets, FleetTypeOK
<1>4. QED
  BY <1>1, <1>2, <1>3

Views == [run : Runs \cup {NoRun}, busy : BOOLEAN,
          told : {"nothing", "results", "error"},
          shown : [Servers -> Results], of : Runs \cup {NoRun}]

LEMMA NewViewType == NewView \in Views
  BY DEF NewView, Views, Results

\* What only concerns the view leaves everything else as it was.
LEMMA ViewStep ==
  ASSUME FleetStructure, LeaveView \/ (\E r \in Runs : Told(r))
  PROVE  FleetStructure' /\ UNCHANGED <<up, runs, job, answer, lone>>
<1> USE DEF FleetStructure
<1>1. /\ UNCHANGED <<up, runs, job, answer, lone>>
      /\ events' \subseteq events
  BY DEF LeaveView, Told, Answered, Progress
<1>2. view \in Views
  BY DEF FleetTypeOK, Views
<1>3. \A r \in Runs, s \in Servers : job[r][s].result \in Results
  BY DEF FleetTypeOK, Jobs
<1>4. view' \in Views
  <2>1. CASE LeaveView
    BY <2>1, NewViewType DEF LeaveView
  <2>2. ASSUME NEW r \in Runs, NEW s \in Servers, Progress(r, s)
        PROVE  view' \in Views
    BY <1>2, <1>3, <2>2 DEF Progress, Views
  <2>3. ASSUME NEW r \in Runs, Answered(r)
        PROVE  view' \in Views
    <3>1. Aggregate(r) \in [Servers -> Results]
      BY <1>3 DEF Aggregate
    <3>2. answer[r] \in {"results", "error"}
      BY <2>3 DEF Answered, FleetTypeOK
    <3> HIDE DEF Aggregate
    <3>3. QED
      BY <1>2, <2>3, <3>1, <3>2 DEF Answered, Views
  <2>4. QED
    BY <2>1, <2>2, <2>3 DEF Told
<1>5. FleetTypeOK'
  BY <1>1, <1>4 DEF FleetTypeOK, Views
<1>6. JobsFit' /\ InOrder' /\ Returned' /\ LoneIsLast'
  BY <1>1 DEF JobsFit, InOrder, Returned, LoneIsLast, Work, Targets, Places
<1>7. QED
  BY <1>1, <1>5, <1>6

LEMMA RunStep ==
  ASSUME FleetStructure, NEW order \in Orders, NEW action \in Actions,
         NEW strategy \in Strategies, Run(order, action, strategy)
  PROVE  /\ FleetStructure'
         /\ UNCHANGED <<up, job>>
         /\ \A r \in lone' : \A s \in Servers : job[r][s].result = "none"
<1> USE DEF FleetStructure
<1> DEFINE new == Len(runs) + 1
           run == [action |-> action, strategy |-> strategy, order |-> order]
<1>1. /\ new \in Runs /\ runs' = Append(runs, run)
      /\ UNCHANGED <<up, job, answer, events>>
      /\ view' = [NewView EXCEPT !.run = new, !.of = new, !.busy = TRUE]
      /\ lone' = IF \A q \in Runs : Ended(q) THEN {new} ELSE {}
  BY DEF Run
<1>2. runs \in Seq([action : Actions, strategy : Strategies, order : Seq(Servers)])
  BY DEF FleetTypeOK
<1>3. run \in [action : Actions, strategy : Strategies, order : Seq(Servers)]
  BY OrdersAreSequences
<1>4. /\ runs' \in Seq([action : Actions, strategy : Strategies, order : Seq(Servers)])
      /\ Len(runs') = new /\ Len(runs) \in Nat
      /\ \A q \in 1 .. Len(runs) : runs'[q] = runs[q]
  <2> HIDE DEF run
  <2>1. QED
    BY <1>1, <1>2, <1>3
<1>5. \A q \in Runs : q <= Len(runs) => q \in 1 .. Len(runs)
  BY <1>4, FleetAssumption DEF Runs
<1>6. \A q \in Runs, s \in Servers : q > Len(runs) => job[q][s].at = "waiting"
  <2> SUFFICES ASSUME NEW q \in Runs, NEW s \in Servers, q > Len(runs),
                      job[q][s].at # "waiting"
               PROVE  FALSE
    OBVIOUS
  <2>1. q <= Len(runs)
    BY DEF JobsFit, Work
  <2>2. QED
    BY <1>4, <2>1, FleetAssumption DEF Runs
<1>7. FleetTypeOK'
  <2>1. view' \in Views
    <3> HIDE DEF new
    <3>1. QED
      BY <1>1, NewViewType DEF Views
  <2>2. QED
    BY <1>1, <1>4, <2>1 DEF FleetTypeOK, Views
<1>8. JobsFit'
  <2> SUFFICES ASSUME NEW q \in Runs, NEW s \in Servers
               PROVE  /\ job[q][s].at = "stop" => runs'[q].action # "start"
                      /\ job[q][s].at = "start" => runs'[q].action # "stop"
                      /\ job[q][s].at # "waiting" => Work(q, s)'
    BY <1>1 DEF JobsFit
  <2>1. CASE q <= Len(runs)
    <3>1. runs'[q] = runs[q] /\ q <= Len(runs')
      BY <1>4, <1>5, <2>1, FleetAssumption DEF Runs
    <3>2. Targets(q)' = Targets(q)
      BY <3>1 DEF Targets
    <3>3. /\ job[q][s].at = "stop" => runs[q].action # "start"
          /\ job[q][s].at = "start" => runs[q].action # "stop"
          /\ job[q][s].at # "waiting" => Work(q, s)
      BY DEF JobsFit
    <3>4. QED
      BY <3>1, <3>2, <3>3 DEF Work
  <2>2. CASE ~(q <= Len(runs))
    BY <1>4, <1>6, <2>2, FleetAssumption DEF Runs
  <2>3. QED
    BY <2>1, <2>2
<1>9. InOrder'
  <2> SUFFICES ASSUME NEW q \in Runs, q <= Len(runs'),
                      runs'[q].strategy = "sequential",
                      NEW i \in Places(q)', NEW j \in Places(q)', i < j,
                      job[q][runs'[q].order[j]].at # "waiting"
               PROVE  job[q][runs'[q].order[i]].at = "done"
    BY <1>1 DEF InOrder
  <2>1. CASE q <= Len(runs)
    BY <1>4, <1>5, <2>1 DEF InOrder, Places
  <2>2. CASE ~(q <= Len(runs))
    <3>1. runs'[q].order[j] \in Servers
      BY <1>1, <1>7, TargetsAreServers, ElementIn DEF FleetTypeOK, Places, Runs
    <3>2. QED
      BY <1>4, <1>6, <2>2, <3>1, FleetAssumption DEF Runs
  <2>3. QED
    BY <2>1, <2>2
<1>10. Returned'
  <2> SUFFICES ASSUME NEW q \in Runs, answer[q] # "none"
               PROVE  q <= Len(runs') /\ \A s \in Targets(q)' : job[q][s].at = "done"
    BY <1>1 DEF Returned
  <2>1. q <= Len(runs) /\ \A s \in Targets(q) : job[q][s].at = "done"
    BY DEF Returned
  <2>2. runs'[q] = runs[q] /\ q <= Len(runs')
    BY <1>4, <1>5, <2>1, FleetAssumption DEF Runs
  <2>3. Targets(q)' = Targets(q)
    BY <2>2 DEF Targets
  <2>4. QED
    BY <2>1, <2>2, <2>3
<1>11. LoneIsLast'
  <2> SUFFICES ASSUME NEW r \in lone'
               PROVE  r = Len(runs') /\ \A q \in Runs : q < r => answer[q] # "none"
    BY <1>1 DEF LoneIsLast
  <2>1. r = new /\ \A q \in Runs : q <= Len(runs) => answer[q] # "none"
    BY <1>1 DEF Ended
  <2>2. QED
    BY <1>4, <2>1, FleetAssumption DEF Runs
<1>12. \A r \in lone' : \A s \in Servers : job[r][s].result = "none"
  <2> SUFFICES ASSUME NEW r \in lone', NEW s \in Servers
               PROVE  job[r][s].result = "none"
    OBVIOUS
  <2>1. r \in Runs /\ r > Len(runs)
    BY <1>1, <1>4
  <2>2. QED
    BY <1>6, <2>1 DEF JobsFit
<1>13. QED
  BY <1>1, <1>7, <1>8, <1>9, <1>10, <1>11, <1>12

LEMMA FleetInitStructure == FleetInit => FleetStructure /\ LeftAsAsked
<1> SUFFICES ASSUME FleetInit PROVE FleetStructure /\ LeftAsAsked
  OBVIOUS
<1>1. NewView \in Views
  BY NewViewType
<1>2. NoJob \in Jobs /\ NoJob.at = "waiting" /\ NoJob.result = "none" /\ ~NoJob.up
  BY DEF NoJob, Jobs, Results
<1> HIDE DEF NoJob
<1>3. \A r \in Runs, s \in Servers :
        /\ job[r][s].at = "waiting" /\ job[r][s].result = "none"
        /\ ~job[r][s].up
  BY <1>2 DEF FleetInit
<1>4. FleetTypeOK
  BY <1>1, <1>2, <1>3 DEF FleetInit, FleetTypeOK, Views
<1>5. JobsFit /\ Returned /\ LoneIsLast /\ LeftAsAsked
  BY <1>3 DEF FleetInit, JobsFit, Returned, LoneIsLast, LeftAsAsked
<1>6. InOrder
  <2>1. Len(runs) = 0
    BY DEF FleetInit
  <2>2. \A r \in Runs : ~(r <= Len(runs))
    BY <2>1, FleetAssumption DEF Runs
  <2>3. QED
    BY <2>2 DEF InOrder
<1>7. QED
  BY <1>4, <1>5, <1>6 DEF FleetStructure

LEMMA StructureStep ==
  FleetStructure /\ [FleetNext]_fleetVars => FleetStructure'
<1> SUFFICES ASSUME FleetStructure, [FleetNext]_fleetVars PROVE FleetStructure'
  OBVIOUS
<1>1. CASE UNCHANGED fleetVars
  BY <1>1 DEF fleetVars, FleetStructure, FleetTypeOK, JobsFit, InOrder, Returned,
              LoneIsLast, Work, Targets, Places
<1>2. CASE Viewing
  BY <1>2, RunStep, ViewStep, KindsAreKnown DEF Viewing
<1>3. ASSUME NEW r \in Runs, Working(r) \/ Told(r) PROVE FleetStructure'
  BY <1>3, WorkStep, ReturnStep, ViewStep DEF Working, Step
<1>4. QED
  BY <1>1, <1>2, <1>3 DEF FleetNext

\* Only the lone run touches the servers while it is the lone run.
LEMMA LeftAsAskedStep ==
  FleetInv /\ [FleetNext]_fleetVars => LeftAsAsked'
<1> SUFFICES ASSUME FleetInv, [FleetNext]_fleetVars PROVE LeftAsAsked'
  OBVIOUS
<1> USE DEF FleetInv
<1>1. CASE UNCHANGED fleetVars
  BY <1>1 DEF fleetVars, LeftAsAsked
<1>2. CASE Viewing
  <2>1. CASE LeaveView
    BY <2>1, ViewStep DEF LeftAsAsked
  <2>2. ASSUME NEW order \in Orders, NEW action \in Actions,
               NEW strategy \in Strategies, Run(order, action, strategy)
        PROVE  LeftAsAsked'
    BY <2>2, RunStep DEF LeftAsAsked
  <2>3. QED
    BY <1>2, <2>1, <2>2, KindsAreKnown DEF Viewing
<1>3. ASSUME NEW q \in Runs, NEW t \in Servers, Step(q, t) PROVE LeftAsAsked'
  <2>1. /\ Work(q, t) /\ job[q][t].at # "done"
        /\ UNCHANGED <<runs, answer>> /\ lone' \subseteq lone
        /\ Elsewhere(q, t)
        /\ \A s \in Servers \ {t} : up'[s] = up[s]
        /\ q \in lone' /\ job'[q][t].result = "ok" => (up'[t] <=> runs[q].action # "stop")
    BY <1>3, StepFacts DEF FleetStructure
  <2> SUFFICES ASSUME NEW r \in lone', NEW s \in Servers, job'[r][s].result = "ok"
               PROVE  up'[s] <=> runs[r].action # "stop"
    BY <2>1 DEF LeftAsAsked
  <2>2. q = r
    <3>1. answer[q] = "none" /\ q <= Len(runs)
      BY <2>1 DEF FleetStructure, Returned, Work
    <3>2. r = Len(runs) /\ (q < r => answer[q] # "none")
      BY <2>1 DEF FleetStructure, LoneIsLast
    <3>3. r \in Runs
      BY <2>1 DEF FleetStructure, FleetTypeOK
    <3>4. q \in Nat /\ r \in Nat
      BY <3>3, FleetAssumption DEF Runs
    <3>5. QED
      BY <3>1, <3>2, <3>4
  <2>3. CASE s = t
    BY <2>1, <2>2, <2>3
  <2>4. CASE s # t
    BY <2>1, <2>2, <2>4 DEF LeftAsAsked, Elsewhere
  <2>5. QED
    BY <2>3, <2>4
<1>4. ASSUME NEW r \in Runs, Return(r) PROVE LeftAsAsked'
  BY <1>4 DEF Return, LeftAsAsked
<1>5. ASSUME NEW r \in Runs, Told(r) PROVE LeftAsAsked'
  BY <1>5, ViewStep DEF LeftAsAsked
<1>6. QED
  BY <1>1, <1>2, <1>3, <1>4, <1>5 DEF FleetNext, Working, Step

LEMMA StructureInvariant == FleetSpec => []FleetStructure
  BY FleetInitStructure, StructureStep, PTL DEF FleetSpec

LEMMA FleetInvariant == FleetSpec => []FleetInv
<1>1. FleetInit => FleetInv
  BY FleetInitStructure DEF FleetInv
<1>2. FleetInv /\ [FleetNext]_fleetVars => FleetInv'
  BY StructureStep, LeftAsAskedStep DEF FleetInv
<1>3. QED
  BY <1>1, <1>2, PTL DEF FleetSpec

\* Runs, jobs and the view have their types, and an event or a result is about
\* work that is done.
THEOREM FleetTypeCorrect == FleetSpec => []FleetTypeOK
  BY StructureInvariant, PTL DEF FleetStructure

\* fleet_run and service.rs: a server with the result "ok" is left as the action
\* wants it, whatever failed before on this or on other servers.
THEOREM OkIsTrue == FleetSpec => []OkLeavesAsAsked
<1>1. FleetInv => OkLeavesAsAsked
  <2> SUFFICES ASSUME FleetInv, NEW r \in lone, NEW s \in Targets(r),
                      job[r][s].result = "ok"
               PROVE  up[s] <=> runs[r].action # "stop"
    BY DEF OkLeavesAsAsked
  <2>1. r \in Runs /\ Started(r)
    BY FleetAssumption DEF FleetInv, FleetStructure, FleetTypeOK, LoneIsLast, Runs
  <2>2. s \in Servers
    BY <2>1, TargetsAreServers DEF FleetInv, FleetStructure
  <2>3. QED
    BY <2>2 DEF FleetInv, LeftAsAsked
<1>2. QED
  BY FleetInvariant, <1>1, PTL

\* fleet_run, "sequential": a rolling run that nothing meddles with has taken
\* down one server at a time, and others only with an error.
THEOREM RollingRunIsRolling == FleetSpec => []RollingKeepsOthersUp
<1>1. FleetInv => RollingKeepsOthersUp
  <2> SUFFICES ASSUME FleetInv, NEW r \in lone,
                      runs[r].strategy = "sequential", runs[r].action # "stop",
                      NEW s \in Targets(r), NEW t \in Targets(r), s # t,
                      job[r][s].at \in {"stop", "start"}, job[r][t].up, ~up[t]
               PROVE  job[r][t].result = "error"
    BY DEF RollingKeepsOthersUp
  <2> USE DEF FleetInv, FleetStructure
  <2>1. r \in Runs /\ Started(r)
    BY FleetAssumption DEF FleetTypeOK, LoneIsLast, Runs
  <2>2. PICK i \in Places(r), j \in Places(r) :
          s = runs[r].order[i] /\ t = runs[r].order[j]
    BY <2>1, TargetsAreServers
  <2>3. s \in Servers /\ t \in Servers /\ i \in Int /\ j \in Int
    BY <2>1, TargetsAreServers DEF Places
  <2>4. job[r][t].at # "waiting"
    BY <2>1, <2>3 DEF JobsFit
  <2>5. ~(i < j)
    BY <2>1, <2>2, <2>4 DEF InOrder
  <2>6. j < i
    BY <2>2, <2>3, <2>5
  <2>7. job[r][t].at = "done"
    BY <2>1, <2>2, <2>6 DEF InOrder
  <2>8. job[r][t].result \in {"ok", "error"}
    BY <2>1, <2>3, <2>7 DEF JobsFit, FleetTypeOK, Jobs, Results
  <2>9. job[r][t].result # "ok"
    BY <2>3 DEF LeftAsAsked
  <2>10. QED
    BY <2>8, <2>9
<1>2. QED
  BY FleetInvariant, <1>1, PTL

-----------------------------------------------------------------------------
(* The view.  What it shows are results of the run it started last, which are *)
(* final once they are there; and only a run that it waits for is told of.  *)

Shows(s) ==
  view.shown[s] # "none" =>
    /\ view.of # NoRun /\ s \in Targets(view.of)
    /\ view.shown[s] = job[view.of][s].result

ViewFits ==
  /\ view.run # NoRun => view.of = view.run /\ view.told = "nothing"
  /\ view.of # NoRun => Started(view.of)
  /\ \A s \in Servers : Shows(s)
  /\ view.told = "results" =>
       view.of # NoRun /\ \A s \in Targets(view.of) : view.shown[s] # "none"

\* A result is final, and of a server of the run.
LEMMA ResultIsFinal ==
  ASSUME FleetStructure, NEW r \in Runs, NEW s \in Servers, job[r][s].result # "none"
  PROVE  job[r][s].at = "done" /\ Started(r) /\ s \in Targets(r)
BY DEF FleetStructure, FleetTypeOK, JobsFit, Work

LEMMA ShownFrame ==
  ASSUME FleetStructure, ViewFits, UNCHANGED <<runs, view>>,
         \A r \in Runs, s \in Servers :
           job[r][s].at = "done" => job'[r][s] = job[r][s]
  PROVE  ViewFits'
<1>1. view.of \in Runs \cup {NoRun}
  BY DEF FleetStructure, FleetTypeOK
<1>2. ASSUME NEW s \in Servers, view.shown[s] # "none"
      PROVE  job'[view.of][s] = job[view.of][s]
  BY <1>1, <1>2, ResultIsFinal DEF ViewFits, Shows
<1>3. \A s \in Servers : Shows(s)'
  BY <1>2 DEF ViewFits, Shows, Targets
<1>4. QED
  BY <1>3 DEF ViewFits, Targets

LEMMA TellStep ==
  ASSUME FleetStructure, ViewFits, NEW r \in Runs, Told(r)
  PROVE  ViewFits'
<1>0. view \in Views /\ UNCHANGED <<runs, job>>
  BY ViewStep DEF FleetStructure, FleetTypeOK, Views
<1>1. ASSUME NEW s \in Servers, Progress(r, s)
      PROVE  ViewFits'
  <2>1. CASE Mine(r)
    <3>1. view' = [view EXCEPT !.shown[s] = job[r][s].result]
      BY <1>1, <2>1 DEF Progress
    <3>2. /\ view'.run = view.run /\ view'.of = view.of /\ view'.told = view.told
          /\ view'.shown[s] = job[r][s].result
          /\ \A t \in Servers \ {s} : view'.shown[t] = view.shown[t]
      BY <1>0, <3>1 DEF Views
    <3>3. view.of = r /\ view.told = "nothing" /\ r # NoRun
      BY <2>1 DEF Mine, ViewFits
    <3>4. s \in Targets(r)
      BY <1>1 DEF Progress, FleetStructure, FleetTypeOK, JobsFit, Work
    <3>5. ASSUME NEW t \in Servers PROVE Shows(t)'
      <4>1. CASE t = s
        BY <1>0, <3>2, <3>3, <3>4, <4>1 DEF Shows, Targets
      <4>2. CASE t # s
        BY <1>0, <3>2, <4>2 DEF ViewFits, Shows, Targets
      <4>3. QED
        BY <4>1, <4>2
    <3>6. QED
      BY <1>0, <3>2, <3>3, <3>5 DEF ViewFits, Targets
  <2>2. CASE ~Mine(r)
    <3>1. view' = view
      BY <1>1, <2>2 DEF Progress
    <3>2. QED
      BY <1>0, <3>1, ShownFrame
  <2>3. QED
    BY <2>1, <2>2
<1>2. CASE Answered(r)
  <2>1. /\ view.run = r /\ answer[r] # "none" /\ r # NoRun
        /\ view.of = r
    BY <1>2, FleetAssumption DEF Answered, Runs, ViewFits
  <2>2. /\ view'.run = NoRun /\ view'.of = r /\ view'.told = answer[r]
        /\ view'.shown = IF answer[r] = "results" THEN Aggregate(r) ELSE view.shown
    <3> HIDE DEF Aggregate
    <3>1. QED
      BY <1>0, <1>2, <2>1 DEF Answered, Views
  <2>3. Started(r) /\ \A s \in Targets(r) : Done(r, s)
    BY <2>1 DEF FleetStructure, Returned
  <2>4. CASE answer[r] = "results"
    <3>1. \A s \in Servers : view'.shown[s] = job[r][s].result
      BY <2>2, <2>4 DEF Aggregate
    <3>2. \A s \in Servers : Shows(s)'
      BY <1>0, <2>1, <2>2, <3>1, ResultIsFinal DEF Shows, Targets
    <3>3. Targets(r) \subseteq Servers
      BY <2>3, TargetsAreServers DEF FleetStructure
    <3>4. \A s \in Targets(r) : view'.shown[s] # "none"
      BY <2>3, <3>1, <3>3 DEF FleetStructure, JobsFit
    <3>5. QED
      BY <1>0, <2>1, <2>2, <2>3, <3>2, <3>4 DEF ViewFits, Targets
  <2>5. CASE answer[r] # "results"
    <3>1. \A s \in Servers : Shows(s)'
      BY <1>0, <2>1, <2>2, <2>5 DEF ViewFits, Shows, Targets
    <3>2. QED
      BY <1>0, <2>2, <2>3, <2>5, <3>1 DEF ViewFits
  <2>6. QED
    BY <2>4, <2>5
<1>3. QED
  BY <1>1, <1>2 DEF Told

LEMMA NewViewFits ==
  /\ NewView.run = NoRun /\ NewView.of = NoRun /\ NewView.told = "nothing"
  /\ \A s \in Servers : NewView.shown[s] = "none"
  BY DEF NewView

LEMMA StartedViewFits ==
  ASSUME FleetStructure, NEW order \in Orders, NEW action \in Actions,
         NEW strategy \in Strategies, Run(order, action, strategy)
  PROVE  ViewFits'
<1> DEFINE new == Len(runs) + 1
<1>1. /\ new \in Runs
      /\ view' = [NewView EXCEPT !.run = new, !.of = new, !.busy = TRUE]
      /\ Len(runs') = new
  BY DEF Run, FleetStructure, FleetTypeOK
<1> HIDE DEF new
<1>2. /\ view'.run = new /\ view'.of = new /\ view'.told = "nothing"
      /\ \A s \in Servers : view'.shown[s] = "none"
  BY <1>1 DEF NewView
<1>3. new <= Len(runs')
  BY <1>1, FleetAssumption DEF Runs
<1>4. QED
  BY <1>2, <1>3 DEF ViewFits, Shows

LEMMA ViewFitsStep ==
  FleetStructure /\ ViewFits /\ [FleetNext]_fleetVars => ViewFits'
<1> SUFFICES ASSUME FleetStructure, ViewFits, [FleetNext]_fleetVars PROVE ViewFits'
  OBVIOUS
<1>1. CASE UNCHANGED fleetVars
  BY <1>1, ShownFrame DEF fleetVars
<1>2. CASE LeaveView
  <2>1. view' = NewView
    BY <1>2 DEF LeaveView
  <2>2. QED
    BY <2>1, NewViewFits DEF ViewFits, Shows
<1>3. ASSUME NEW order \in Orders, NEW kind \in Kinds, Run(order, kind[1], kind[2])
      PROVE  ViewFits'
  BY <1>3, KindsAreKnown, StartedViewFits
<1>4. ASSUME NEW r \in Runs, NEW s \in Servers, Step(r, s)
      PROVE  ViewFits'
  <2>1. /\ UNCHANGED <<runs, view>> /\ Elsewhere(r, s) /\ job[r][s].at # "done"
    BY <1>4, StepFacts DEF FleetStructure
  <2>2. QED
    BY <2>1, ShownFrame DEF Elsewhere
<1>5. ASSUME NEW r \in Runs, Return(r)
      PROVE  ViewFits'
  BY <1>5, ShownFrame DEF Return
<1>6. ASSUME NEW r \in Runs, Told(r)
      PROVE  ViewFits'
  BY <1>6, TellStep
<1>7. QED
  BY <1>1, <1>2, <1>3, <1>4, <1>5, <1>6 DEF FleetNext, Viewing, Working, Step

\* FleetView.vue, onFleet: what the view shows are results of the run it started
\* last, and with the answer it shows all of them.
THEOREM ViewTellsTheTruth == FleetSpec => []ShownIsTrue
<1>1. FleetInit => ViewFits
  BY NewViewFits DEF FleetInit, ViewFits, Shows
<1>2. FleetSpec => []ViewFits
  BY <1>1, ViewFitsStep, StructureInvariant, PTL DEF FleetSpec
<1>3. FleetStructure /\ ViewFits => ShownIsTrue
  BY DEF ViewFits, Shows, ShownIsTrue
<1>4. QED
  BY <1>2, <1>3, StructureInvariant, PTL

-----------------------------------------------------------------------------
(* A run that has not answered always has something to do: the first server *)
(* in its order that is not done.                                           *)

Below == {ss \in Nat \X Nat : ss[1] < ss[2]}

\* A set of numbers has a least one.
LEMMA LeastNumber ==
  ASSUME NEW T, T \subseteq Nat, T # {}
  PROVE  \E n \in T : \A m \in T : n <= m
<1>1. IsWellFoundedOn(Below, Nat)
  BY NatLessThanWellFounded DEF OpToRel, Below
<1>2. PICK n \in T : \A m \in T : ~ (<<m, n>> \in Below)
  BY <1>1, WFMin
<1>3. ASSUME NEW m \in T PROVE n <= m
  <2>1. m \in Nat /\ n \in Nat /\ <<m, n>> \notin Below
    BY <1>2
  <2>2. ~(m < n)
    BY <2>1 DEF Below
  <2>3. QED
    BY <2>1, <2>2
<1>4. QED
  BY <1>3

\* No server is twice in the order of a run.
OrdersApart ==
  \A r \in Runs : Started(r) =>
    \A i, j \in Places(r) : runs[r].order[i] = runs[r].order[j] => i = j

LEMMA OrderHasNoDoubles ==
  ASSUME NEW o \in Orders
  PROVE  \A i, j \in 1 .. Len(o) : o[i] = o[j] => i = j
<1>1. PICK S \in SUBSET Servers : o \in SetToSeqs(S)
  BY DEF Orders, SetToAllKPermutations
<1>2. Cardinality(S) \in Nat
  BY FS_Subset, FS_CardinalityType, FleetAssumption
<1>3. QED
  BY <1>1, <1>2 DEF SetToSeqs

LEMMA OrdersApartStep ==
  ASSUME FleetStructure, OrdersApart, [FleetNext]_fleetVars
  PROVE  OrdersApart'
<1>1. ASSUME UNCHANGED runs PROVE OrdersApart'
  BY <1>1 DEF OrdersApart, Places
<1>2. ASSUME NEW order \in Orders, NEW action, NEW strategy, Run(order, action, strategy)
      PROVE  OrdersApart'
  <2> DEFINE run == [action |-> action, strategy |-> strategy, order |-> order]
  <2>1. runs' = Append(runs, run) /\ run.order = order
    BY <1>2 DEF Run
  <2>2. Len(runs) \in Nat /\ \E S : runs \in Seq(S)
    BY DEF FleetStructure, FleetTypeOK
  <2> HIDE DEF run
  <2>3. /\ Len(runs') = Len(runs) + 1
        /\ \A q \in 1 .. Len(runs) : runs'[q] = runs[q]
        /\ runs'[Len(runs) + 1] = run
    BY <2>1, <2>2
  <2> SUFFICES ASSUME NEW q \in Runs, q <= Len(runs'),
                      NEW i \in Places(q)', NEW j \in Places(q)',
                      runs'[q].order[i] = runs'[q].order[j]
               PROVE  i = j
    BY DEF OrdersApart
  <2>4. q \in Nat /\ q > 0
    BY FleetAssumption DEF Runs
  <2>5. CASE q <= Len(runs)
    BY <2>2, <2>3, <2>4, <2>5 DEF OrdersApart, Places
  <2>6. CASE ~(q <= Len(runs))
    <3>1. q = Len(runs) + 1
      BY <2>2, <2>3, <2>4, <2>6
    <3>2. QED
      BY <2>1, <2>3, <3>1, OrderHasNoDoubles DEF Places
  <2>7. QED
    BY <2>5, <2>6
<1>3. ASSUME NEW r \in Runs, Working(r) \/ Told(r) PROVE UNCHANGED runs
  <2>1. ASSUME NEW s \in Servers, Step(r, s) PROVE UNCHANGED runs
    BY <2>1 DEF Step, Begin, NotBegun, Stop, Start
  <2>2. QED
    BY <1>3, <2>1 DEF Working, Step, Return, Told, Answered, Progress
<1>4. QED
  BY <1>1, <1>2, <1>3 DEF FleetNext, Viewing, LeaveView, fleetVars

\* fleet_run: whichever servers fail and however runs overlap, no run is stuck
\* before it has answered.
THEOREM NoRunIsStuck == FleetSpec => []NoRunStalls
<1>1. FleetInit => OrdersApart
  BY FleetAssumption DEF FleetInit, OrdersApart, Runs
<1>2. FleetStructure /\ OrdersApart /\ [FleetNext]_fleetVars => OrdersApart'
  BY OrdersApartStep
<1>3. FleetStructure /\ OrdersApart => NoRunStalls
  <2> SUFFICES ASSUME FleetStructure, OrdersApart, NEW r \in Runs, Started(r),
                      NEW u \in Targets(r), ~Done(r, u)
               PROVE  \E s \in Targets(r) :
                        \/ job[r][s].at = "waiting" /\ Ready(r, s)
                        \/ job[r][s].at \in {"stop", "start"}
    BY DEF NoRunStalls, CanGoOn
  <2> DEFINE open == {i \in Places(r) : ~Done(r, runs[r].order[i])}
  <2>1. /\ runs[r].order \in Seq(Servers) /\ Targets(r) \subseteq Servers
        /\ Targets(r) = {runs[r].order[i] : i \in Places(r)}
    BY TargetsAreServers DEF FleetStructure
  <2>2. open \subseteq Nat /\ open # {}
    BY <2>1 DEF Places
  <2>3. PICK i \in open : \A j \in open : i <= j
    BY <2>2, LeastNumber
  <2>4. PICK s \in Targets(r) : s = runs[r].order[i]
    BY <2>1
  <2>5. ~Done(r, s) /\ i \in Places(r)
    BY <2>3, <2>4
  <2>6. \A j \in Places(r) : j < i => Done(r, runs[r].order[j])
    BY <2>1, <2>2, <2>3 DEF Places
  <2>7. Ready(r, s)
    BY <2>4, <2>5, <2>6 DEF Ready, OrdersApart, Places
  <2>8. job[r][s].at \in {"waiting", "stop", "start"}
    BY <2>1, <2>5 DEF FleetStructure, FleetTypeOK, Jobs
  <2>9. QED
    BY <2>4, <2>7, <2>8
<1>4. QED
  BY <1>1, <1>2, <1>3, StructureInvariant, PTL DEF FleetSpec

-----------------------------------------------------------------------------
(* The runs implement Batch: a call that ends the work on a server settles  *)
(* it, the other calls, events of other runs and the strategy are invisible. *)

\* What B has for asked, result and page.
Asked == [r \in Runs |-> IF Started(r) THEN Targets(r) ELSE {}]
Outcome == [r \in Runs |-> [s \in Servers |-> job[r][s].result]]
Page == [of |-> view.of, told |-> view.told, shown |-> view.shown]

\* The button is disabled as long as the view waits for the answer of its run.
Awaits ==
  /\ view.busy <=> view.run # NoRun
  /\ view.busy <=> view.of # NoRun /\ view.told = "nothing"

LEMMA AwaitsStep ==
  FleetStructure /\ ViewFits /\ Awaits /\ [FleetNext]_fleetVars => Awaits'
<1> SUFFICES ASSUME FleetStructure, ViewFits, Awaits, [FleetNext]_fleetVars PROVE Awaits'
  OBVIOUS
<1>0. view \in Views
  BY DEF FleetStructure, FleetTypeOK, Views
<1>1. ASSUME UNCHANGED view PROVE Awaits'
  BY <1>1 DEF Awaits
<1>2. CASE LeaveView
  BY <1>2 DEF LeaveView, NewView, Awaits
<1>3. ASSUME NEW order \in Orders, NEW kind \in Kinds, Run(order, kind[1], kind[2])
      PROVE  Awaits'
  <2> DEFINE new == Len(runs) + 1
  <2>1. new \in Runs /\ view' = [NewView EXCEPT !.run = new, !.of = new, !.busy = TRUE]
    BY <1>3 DEF Run
  <2>2. new # NoRun
    BY <2>1 DEF Runs
  <2> HIDE DEF new
  <2>3. view'.run = new /\ view'.of = new /\ view'.busy = TRUE /\ view'.told = "nothing"
    BY <2>1 DEF NewView
  <2>4. QED
    BY <2>2, <2>3 DEF Awaits
<1>4. ASSUME NEW r \in Runs, Working(r) PROVE Awaits'
  <2>1. ASSUME NEW s \in Servers, Step(r, s) PROVE UNCHANGED view
    BY <2>1 DEF Step, Begin, NotBegun, Stop, Start
  <2>2. UNCHANGED view
    BY <1>4, <2>1 DEF Working, Step, Return
  <2>3. QED
    BY <1>1, <2>2
<1>5. ASSUME NEW r \in Runs, NEW s \in Servers, Progress(r, s) PROVE Awaits'
  <2>1. \/ view' = view
        \/ view' = [view EXCEPT !.shown[s] = job[r][s].result]
    BY <1>5 DEF Progress
  <2>2. /\ view'.run = view.run /\ view'.of = view.of
        /\ view'.told = view.told /\ view'.busy = view.busy
    BY <1>0, <2>1 DEF Views
  <2>3. QED
    BY <2>2 DEF Awaits
<1>6. ASSUME NEW r \in Runs, Answered(r) PROVE Awaits'
  <2>1. answer[r] \in {"results", "error"}
    BY <1>6 DEF Answered, FleetStructure, FleetTypeOK
  <2>2. /\ view'.run = NoRun /\ view'.busy = FALSE /\ view'.told = answer[r]
    <3> HIDE DEF Aggregate
    <3>1. QED
      BY <1>0, <1>6 DEF Answered, Views
  <2>3. QED
    BY <2>1, <2>2 DEF Awaits
<1>7. QED
  BY <1>1, <1>2, <1>3, <1>4, <1>5, <1>6 DEF FleetNext, Viewing, Told, fleetVars

LEMMA AskedFrame ==
  ASSUME UNCHANGED runs
  PROVE  UNCHANGED Asked
BY DEF Asked, Targets

\* A step of a run settles the server or is invisible.
LEMMA WorkIsSettled ==
  ASSUME FleetStructure, NEW r \in Runs, NEW s \in Servers, Step(r, s)
  PROVE  B!Settle(r, s) \/ UNCHANGED <<Asked, Outcome, answer, Page>>
<1>1. /\ Work(r, s) /\ job[r][s].at # "done" /\ UNCHANGED <<runs, answer, view>>
      /\ Elsewhere(r, s)
      /\ job'[r][s].at = "done" => job'[r][s].result # "none"
      /\ job'[r][s].at \in {"stop", "start"} => job'[r][s].result = "none"
      /\ job'[r][s].at # "waiting"
  BY StepFacts DEF FleetStructure
<1>2. job[r][s].result = "none" /\ job[r][s] \in Jobs /\ job'[r][s] \in Jobs
  BY <1>1 DEF FleetStructure, JobsFit, FleetTypeOK, Elsewhere, Jobs
<1>3. UNCHANGED <<Asked, Page>>
  BY <1>1, AskedFrame DEF Page
<1>4. CASE job'[r][s].at = "done"
  <2> DEFINE x == job'[r][s].result
  <2>1. x \in {"ok", "error"}
    BY <1>1, <1>2, <1>4 DEF Jobs, Results
  <2>2. Outcome' = [Outcome EXCEPT ![r][s] = x]
    <3>1. \A q \in Runs, t \in Servers :
            job'[q][t].result = IF q = r /\ t = s THEN x ELSE job[q][t].result
      BY <1>1 DEF Elsewhere
    <3> HIDE DEF x
    <3>2. QED
      BY <3>1 DEF Outcome
  <2>3. answer[r] = "none"
    BY <1>1 DEF FleetStructure, Returned, Work
  <2>4. s \in Asked[r] /\ Outcome[r][s] = "none"
    BY <1>1, <1>2 DEF Asked, Outcome, Work
  <2>5. Outcome'[r][s] = x
    BY DEF Outcome
  <2> HIDE DEF x
  <2>6. QED
    BY <1>1, <1>3, <2>1, <2>2, <2>3, <2>4, <2>5 DEF B!Settle, Asked, Outcome, Page
<1>5. CASE job'[r][s].at # "done"
  <2>1. job'[r][s].result = "none"
    BY <1>1, <1>2, <1>5 DEF Jobs
  <2>2. UNCHANGED Outcome
    BY <1>1, <1>2, <2>1 DEF Outcome, Elsewhere
  <2>3. QED
    BY <1>1, <1>3, <2>2
<1>6. QED
  BY <1>4, <1>5

LEMMA ReturnAnswers ==
  ASSUME FleetStructure, NEW r \in Runs, Return(r), Targets(r) # {}
  PROVE  B!Answer(r)
<1>1. /\ Started(r) /\ answer[r] = "none" /\ \A s \in Targets(r) : Done(r, s)
      /\ UNCHANGED <<runs, job, view>>
  BY DEF Return
<1>2. UNCHANGED <<Asked, Outcome, Page>>
  BY <1>1, AskedFrame DEF Outcome, Page
<1>3. Asked[r] = Targets(r) /\ Targets(r) \subseteq Servers
  BY <1>1, TargetsAreServers DEF Asked, FleetStructure
<1>4. \A s \in Asked[r] : Outcome[r][s] # "none"
  BY <1>1, <1>3 DEF Outcome, FleetStructure, JobsFit
<1>5. \E x \in {"results", "error"} : answer' = [answer EXCEPT ![r] = x]
  BY DEF Return
<1>6. QED
  BY <1>1, <1>2, <1>3, <1>4, <1>5 DEF B!Answer, Asked, Outcome, Page

\* No run is about nothing.
Aimed == \A r \in Runs : Started(r) => Targets(r) # {}

LEMMA OrderAims ==
  ASSUME NEW o \in Orders
  PROVE  Range(o) # {}
<1>1. o \in Seq(Servers) /\ o # <<>>
  BY OrdersAreSequences DEF Orders
<1>2. o[1] \in Range(o)
  BY <1>1 DEF Range
<1>3. QED
  BY <1>2

\* The runs after one is added.
LEMMA AddedRun ==
  ASSUME FleetStructure, NEW order \in Orders, NEW action, NEW strategy,
         Run(order, action, strategy)
  PROVE  /\ Len(runs) + 1 \in Runs
         /\ Asked[Len(runs) + 1] = {}
         /\ Asked' = [Asked EXCEPT ![Len(runs) + 1] = Range(order)]
         /\ Asked'[Len(runs) + 1] = Range(order)
         /\ \A q \in Runs : q # Len(runs) + 1 => Asked'[q] = Asked[q]
<1> DEFINE new == Len(runs) + 1
           run == [action |-> action, strategy |-> strategy, order |-> order]
<1>1. new \in Runs /\ runs' = Append(runs, run) /\ run.order = order
  BY DEF Run
<1>2. Len(runs) \in Nat /\ \E S : runs \in Seq(S)
  BY DEF FleetStructure, FleetTypeOK
<1> HIDE DEF run
<1>3. /\ Len(runs') = new
      /\ \A q \in 1 .. Len(runs) : runs'[q] = runs[q]
      /\ runs'[new] = run
  BY <1>1, <1>2
<1>4. ~Started(new)
  BY <1>2
<1>5. \A q \in Runs : q # new => (Started(q)' <=> Started(q)) /\ (Started(q) => runs'[q] = runs[q])
  BY <1>2, <1>3 DEF Runs
<1>6. ASSUME NEW q \in Runs
      PROVE  Asked'[q] = IF q = new THEN Range(order) ELSE Asked[q]
  <2>1. CASE q = new
    BY <1>1, <1>3, <2>1 DEF Asked, Targets
  <2>2. CASE q # new
    BY <1>5, <2>2 DEF Asked, Targets
  <2>3. QED
    BY <2>1, <2>2
<1>7. Asked[new] = {}
  BY <1>1, <1>4 DEF Asked
<1> HIDE DEF new
<1>8. Asked' = [Asked EXCEPT ![new] = Range(order)]
  BY <1>6 DEF Asked
<1>9. QED
  BY <1>1, <1>6, <1>7, <1>8 DEF new

LEMMA AimedStep ==
  FleetStructure /\ Aimed /\ [FleetNext]_fleetVars => Aimed'
<1> SUFFICES ASSUME FleetStructure, Aimed, [FleetNext]_fleetVars PROVE Aimed'
  OBVIOUS
<1>1. ASSUME UNCHANGED runs PROVE Aimed'
  BY <1>1 DEF Aimed, Targets
<1>2. ASSUME NEW order \in Orders, NEW kind \in Kinds, Run(order, kind[1], kind[2])
      PROVE  Aimed'
  <2>1. ASSUME NEW r \in Runs, r <= Len(runs') PROVE Asked'[r] # {}
    <3>1. Len(runs') = Len(runs) + 1 /\ Len(runs) \in Nat /\ r \in Nat
      BY <1>2, FleetAssumption DEF Run, FleetStructure, FleetTypeOK, Runs
    <3>2. CASE r = Len(runs) + 1
      BY <1>2, <2>1, <3>2, AddedRun, OrderAims
    <3>3. CASE r # Len(runs) + 1
      <4>1. Started(r) /\ Asked'[r] = Asked[r]
        BY <1>2, <2>1, <3>1, <3>3, AddedRun
      <4>2. QED
        BY <4>1 DEF Aimed, Asked
    <3>4. QED
      BY <3>2, <3>3
  <2>2. QED
    BY <2>1 DEF Aimed, Asked, Targets
<1>3. ASSUME NEW r \in Runs, Working(r) \/ Told(r) PROVE UNCHANGED runs
  <2>1. ASSUME NEW s \in Servers, Step(r, s) PROVE UNCHANGED runs
    BY <2>1 DEF Step, Begin, NotBegun, Stop, Start
  <2>2. QED
    BY <1>3, <2>1 DEF Working, Step, Return, Told, Answered, Progress
<1>4. QED
  BY <1>1, <1>2, <1>3 DEF FleetNext, Viewing, LeaveView, fleetVars

LEMMA RunAsks ==
  ASSUME FleetStructure, Awaits, NEW order \in Orders, NEW kind \in Kinds,
         Run(order, kind[1], kind[2])
  PROVE  B!BatchNext
<1> DEFINE S == Range(order)
<1>0. PICK new \in Runs : new = Len(runs) + 1
  BY DEF Run
<1>1. /\ new \in Runs /\ ~view.busy /\ UNCHANGED <<job, answer>>
      /\ view' = [NewView EXCEPT !.run = new, !.of = new, !.busy = TRUE]
  BY <1>0 DEF Run
<1>2. Asked[new] = {} /\ Asked' = [Asked EXCEPT ![new] = S]
  BY <1>0, AddedRun
<1>3. S \in (SUBSET Servers) \ {{}}
  <2>1. order \in Seq(Servers)
    BY OrdersAreSequences
  <2>2. S \subseteq Servers
    BY <2>1 DEF Range
  <2>3. QED
    BY <2>2, OrderAims
<1> HIDE DEF S
<1>4. /\ view'.of = new /\ view'.told = "nothing"
      /\ view'.shown = [s \in Servers |-> "none"]
  BY <1>1 DEF NewView
<1>5. Page' = [B!NewPage EXCEPT !.of = new]
  BY <1>4 DEF Page, B!NewPage, B!Blank
<1>6. UNCHANGED Outcome
  BY <1>1 DEF Outcome
<1>7. ~ B!Waiting
  BY <1>1 DEF B!Waiting, Awaits
<1>8. B!Ask(new)
  BY <1>1, <1>2, <1>3, <1>5, <1>6, <1>7 DEF B!Ask, Asked, Outcome, Page
<1>9. QED
  BY <1>1, <1>8 DEF B!BatchNext

LEMMA TellsOrShows ==
  ASSUME FleetStructure, ViewFits, Awaits, NEW r \in Runs, Told(r)
  PROVE  B!BatchNext \/ UNCHANGED <<Asked, Outcome, answer, Page>>
<1>0. view \in Views /\ r # NoRun
  BY FleetAssumption DEF FleetStructure, FleetTypeOK, Views, Runs
<1>1. UNCHANGED <<runs, job, answer>>
  BY DEF Told, Answered, Progress
<1>2. UNCHANGED <<Asked, Outcome, answer>>
  BY <1>1, AskedFrame DEF Outcome
<1>3. ASSUME NEW s \in Servers, Progress(r, s), Mine(r)
      PROVE  B!Show(s)
  <2>1. view.run = r /\ view.of = r /\ view.told = "nothing"
    BY <1>0, <1>3 DEF Mine, ViewFits
  <2>2. B!Waiting
    BY <1>0, <2>1 DEF B!Waiting
  <2>3. Outcome[r][s] = job[r][s].result /\ job[r][s].result # "none"
    BY <1>3 DEF Outcome, Progress, FleetStructure, FleetTypeOK, JobsFit
  <2>4. view' = [view EXCEPT !.shown[s] = job[r][s].result]
    BY <1>3 DEF Progress
  <2>5. Page' = [Page EXCEPT !.shown[s] = Outcome[Page.of][s]]
    BY <1>0, <2>1, <2>3, <2>4 DEF Page, Views
  <2>6. Outcome[Page.of][s] # "none"
    BY <2>1, <2>3 DEF Page
  <2>7. QED
    BY <2>2, <2>5, <2>6 DEF B!Show, Asked, Outcome, Page
<1>4. ASSUME NEW s \in Servers, Progress(r, s), ~Mine(r)
      PROVE  UNCHANGED Page
  BY <1>4 DEF Progress, Page
<1>5. ASSUME B!Tell \/ \E s \in Servers : B!Show(s)
      PROVE  B!BatchNext
  BY <1>2, <1>5 DEF B!BatchNext, B!PageStep, Asked, Outcome, Page
<1>6. CASE Answered(r)
  <2>1. view.run = r /\ view.of = r /\ view.told = "nothing" /\ answer[r] # "none"
    BY <1>0, <1>6 DEF Answered, ViewFits
  <2>2. B!Waiting
    BY <1>0, <2>1 DEF B!Waiting
  <2>3. Aggregate(r) = Outcome[r]
    BY DEF Aggregate, Outcome
  <2> DEFINE shows == IF answer[r] = "results" THEN Outcome[r] ELSE view.shown
  <2>4. view'.of = r /\ view'.told = answer[r] /\ view'.shown = shows
    <3>1. view' = [view EXCEPT !.run = NoRun, !.busy = FALSE, !.told = answer[r],
                               !.shown = shows]
      BY <1>6, <2>3 DEF Answered
    <3> HIDE DEF shows
    <3>2. QED
      BY <1>0, <2>1, <3>1 DEF Views
  <2> HIDE DEF shows
  <2>5. Page' = [Page EXCEPT !.told = answer[r], !.shown = shows]
    <3> DEFINE Pages == [of : Runs \cup {NoRun}, told : {"nothing", "results", "error"},
                         shown : [Servers -> Results]]
    <3>1. Page \in Pages /\ Page' \in Pages
      <4>1. FleetTypeOK /\ FleetTypeOK'
        BY ViewStep DEF FleetStructure
      <4>2. QED
        BY <4>1 DEF FleetTypeOK, Page
    <3>2. Page'.of = Page.of /\ Page'.told = answer[r] /\ Page'.shown = shows
      BY <2>1, <2>4 DEF Page
    <3>3. QED
      BY <3>1, <3>2
  <2>6. Page.of = r /\ Page.shown = view.shown
    BY <2>1 DEF Page
  <2>7. Page' = [Page EXCEPT
          !.told = answer[Page.of],
          !.shown = IF answer[Page.of] = "results" THEN Outcome[Page.of] ELSE @]
    BY <2>5, <2>6 DEF shows
  <2>8. B!Tell
    BY <2>1, <2>2, <2>6, <2>7 DEF B!Tell, Asked, Outcome, Page
  <2>9. QED
    BY <1>5, <2>8
<1>7. QED
  BY <1>2, <1>3, <1>4, <1>6, <1>5 DEF Told

LEMMA FleetStepIsBatchStep ==
  /\ FleetStructure /\ ViewFits /\ Awaits /\ Aimed /\ [FleetNext]_fleetVars
  => [B!BatchNext]_(B!batchVars)
<1> SUFFICES ASSUME FleetStructure, ViewFits, Awaits, Aimed, [FleetNext]_fleetVars
             PROVE  B!BatchNext \/ UNCHANGED <<Asked, Outcome, answer, Page>>
  BY DEF B!batchVars, Asked, Outcome, Page
<1>1. CASE UNCHANGED fleetVars
  BY <1>1, AskedFrame DEF fleetVars, Outcome, Page
<1>2. CASE LeaveView
  <2>1. Page' = B!NewPage
    BY <1>2 DEF LeaveView, NewView, Page, B!NewPage, B!Blank
  <2>2. UNCHANGED <<Asked, Outcome, answer>>
    BY <1>2, AskedFrame DEF LeaveView, Outcome
  <2>3. B!Leave
    BY <2>1 DEF B!Leave, Asked, Outcome, Page
  <2>4. QED
    BY <2>2, <2>3 DEF B!BatchNext, B!PageStep, Asked, Outcome, Page
<1>3. ASSUME NEW order \in Orders, NEW kind \in Kinds, Run(order, kind[1], kind[2])
      PROVE  B!BatchNext
  BY <1>3, RunAsks
<1>4. ASSUME NEW r \in Runs, NEW s \in Servers, Step(r, s)
      PROVE  B!BatchNext \/ UNCHANGED <<Asked, Outcome, answer, Page>>
  BY <1>4, WorkIsSettled DEF B!BatchNext
<1>5. ASSUME NEW r \in Runs, Return(r) PROVE B!BatchNext
  BY <1>5, ReturnAnswers DEF B!BatchNext, Aimed, Return
<1>6. ASSUME NEW r \in Runs, Told(r)
      PROVE  B!BatchNext \/ UNCHANGED <<Asked, Outcome, answer, Page>>
  BY <1>6, TellsOrShows
<1>7. QED
  BY <1>1, <1>2, <1>3, <1>4, <1>5, <1>6 DEF FleetNext, Viewing, Working, Step

\* fleet_run and FleetView.vue: for any servers, kinds of runs and order of events,
\* however runs overlap and whatever fails, the runs and the view implement Batch.
THEOREM FleetImplementsBatch == FleetSpec => ImplementsBatch
<1>1. FleetInit => ViewFits /\ Awaits /\ Aimed
  BY NewViewFits, FleetAssumption
     DEF FleetInit, ViewFits, Shows, Awaits, NewView, Aimed, Runs
<1>2. FleetSpec => [](ViewFits /\ Awaits /\ Aimed)
  BY <1>1, ViewFitsStep, AwaitsStep, AimedStep, StructureInvariant, PTL DEF FleetSpec
<1>3. FleetInit => B!BatchInit
  <2> SUFFICES ASSUME FleetInit PROVE B!BatchInit
    OBVIOUS
  <2>1. Asked = [r \in Runs |-> {}]
    BY FleetAssumption DEF FleetInit, Asked, Runs
  <2>2. Outcome = [r \in Runs |-> B!Blank]
    BY DEF FleetInit, Outcome, NoJob, B!Blank
  <2>3. Page = B!NewPage
    BY DEF FleetInit, Page, NewView, B!NewPage, B!Blank
  <2>4. QED
    BY <2>1, <2>2, <2>3 DEF B!BatchInit, FleetInit, Asked, Outcome, Page
<1>4. QED
  BY <1>2, <1>3, FleetStepIsBatchStep, StructureInvariant, PTL
     DEF FleetSpec, ImplementsBatch, B!BatchSpec
=============================================================================
