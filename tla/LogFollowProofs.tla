-------------------------- MODULE LogFollowProofs --------------------------
(***************************************************************************)
(* Theorems about LogFollow, for any processes, logs, bounds and user.     *)
(*                                                                         *)
(* What the backend tails once all calls are executed is decided by the    *)
(* youngest call in flight, and that one is what the panel wants now       *)
(* (Follows).  Executing the oldest call keeps this, since it either is    *)
(* the youngest or leaves it where it is.                                  *)
(*                                                                         *)
(* What the panel shows is decided by the chunks on their way: the screen  *)
(* and the chunks, from one that replaces the screen on, are pieces of the *)
(* log that follow on each other up to the offset of the task (Chain).  A  *)
(* delivery joins the first two pieces, a poll adds one, a scroll-back     *)
(* puts one before the screen (ShownInv).                                  *)
(***************************************************************************)
EXTENDS LogFollow, SequenceTheorems, TLAPS

TaskOfLog == [log : Logs, offset : Int, first : BOOLEAN, course : Courses]

\* The part of the type that the wire depends on.
WireType ==
  /\ panel \in [open : BOOLEAN, process : Processes \cup {NoProcess},
                channel : Channels]
  /\ panel.open \/ clearing # NoClear => panel.process \in Processes
  /\ calls \in Seq(CallRecords)
  /\ task # NoTask => task \in TaskOfLog
  /\ size \in [Logs -> Int]

\* What the backend is about to tail: the log of the youngest call, or that of
\* the task; NoLog when there is none.
Following(log) ==
  IF calls = <<>> THEN task # NoTask /\ task.log = log
                  ELSE calls[Len(calls)] = Start(log)
NotFollowing ==
  IF calls = <<>> THEN task = NoTask ELSE calls[Len(calls)] = Stop

OpenFollows == Without({"reordered"}) /\ panel.open => Following(Log)
ClosedStops ==
  Without({"reordered", "closed"}) /\ ~panel.open =>
    NotFollowing /\ clearing = NoClear
Follows == OpenFollows /\ ClosedStops

LEMMA MishapsGrow == [LogNext]_logVars => mishaps \subseteq mishaps'
<1>. SUFFICES ASSUME [LogNext]_logVars PROVE mishaps \subseteq mishaps'
  OBVIOUS
<1>1. CASE User
  BY <1>1 DEF User, Open, SwitchChannel, Close, LoadOlder, AskClear, Risks
<1>2. CASE Answer
  BY <1>2 DEF Answer, OlderArrives, OlderFails, ClearLog, ClearReturns, ClearFails, Risks
<1>3. CASE Command
  BY <1>3 DEF Command, rt_log_start, rt_log_stop
<1>4. CASE \E log \in Logs : Grow(log) \/ Rotate(log)
  BY <1>4 DEF Grow, Rotate
<1>. QED
  BY <1>1, <1>2, <1>3, <1>4 DEF LogNext, Deliver, Poll, logVars

\* The youngest call after some were emitted.
LEMMA LastOfConcat ==
  ASSUME NEW S, NEW s \in Seq(S), NEW t \in Seq(S), t # <<>>
  PROVE  s \o t \in Seq(S) /\ s \o t # <<>> /\ (s \o t)[Len(s \o t)] = t[Len(t)]
<1>1. /\ s \o t \in Seq(S)
      /\ Len(s \o t) = Len(s) + Len(t)
      /\ \A i \in 1..(Len(s) + Len(t)) :
           (s \o t)[i] = IF i <= Len(s) THEN s[i] ELSE t[i - Len(s)]
  BY ConcatProperties
<1>2. Len(t) \in Nat /\ Len(s) \in Nat /\ Len(t) # 0
  BY EmptySeq
<1>3. /\ Len(s) + Len(t) \in 1..(Len(s) + Len(t))
      /\ ~(Len(s) + Len(t) <= Len(s)) /\ Len(s) + Len(t) # 0
      /\ Len(s) + Len(t) - Len(s) = Len(t)
  BY <1>2
<1>. HIDE <1>2
<1>4. (s \o t)[Len(s) + Len(t)] = t[Len(t)]
  BY <1>1, <1>3
<1>5. s \o t # <<>>
  BY <1>1, <1>3
<1>. QED
  BY <1>1, <1>4, <1>5

\* Executing the oldest call leaves the youngest, if there are two.
LEMMA OldestRemoved ==
  ASSUME NEW S, NEW w \in Seq(S), 1 \in DOMAIN w
  PROVE  IF Len(w) = 1 THEN RemoveAt(w, 1) = <<>>
         ELSE RemoveAt(w, 1) # <<>> /\ RemoveAt(w, 1)[Len(RemoveAt(w, 1))] = w[Len(w)]
<1>. DEFINE r == RemoveAt(w, 1)
<1>1. w # <<>> /\ Len(w) \in Nat /\ Len(w) >= 1
  OBVIOUS
<1>2. r = Tail(w)
  <2>1. SubSeq(w, 1, 0) = <<>>
    OBVIOUS
  <2>2. SubSeq(w, 2, Len(w)) = Tail(w)
    BY <1>1, TailIsSubSeq
  <2>3. Tail(w) \in Seq(S)
    BY <1>1
  <2>. QED
    BY <2>1, <2>2, <2>3, ConcatEmptySeq DEF RemoveAt
<1>3. /\ r \in Seq(S)
      /\ Len(r) = Len(w) - 1
      /\ \A j \in 1..Len(r) : r[j] = w[j + 1]
  BY <1>1, <1>2, HeadTailProperties
<1>. HIDE DEF r
<1>4. Len(w) = 1 => r = <<>>
  BY <1>3, EmptySeq
<1>5. Len(w) # 1 => r # <<>> /\ r[Len(r)] = w[Len(w)]
  <2>. SUFFICES ASSUME Len(w) # 1 PROVE r # <<>> /\ r[Len(r)] = w[Len(w)]
    OBVIOUS
  <2>1. Len(r) \in 1..Len(r) /\ Len(r) + 1 = Len(w)
    BY <1>1, <1>3
  <2>2. r # <<>>
    BY <2>1
  <2>. QED
    BY <1>3, <2>1, <2>2
<1>6. IF Len(w) = 1 THEN r = <<>> ELSE r # <<>> /\ r[Len(r)] = w[Len(w)]
  BY <1>4, <1>5
<1>. QED
  BY <1>6 DEF r

LEMMA RemoveAtTyped ==
  ASSUME NEW S, NEW w \in Seq(S), NEW i \in DOMAIN w
  PROVE  RemoveAt(w, i) \in Seq(S)
<1>1. i \in 1..Len(w)
  OBVIOUS
<1>2. SubSeq(w, 1, i - 1) \in Seq(S) /\ SubSeq(w, i + 1, Len(w)) \in Seq(S)
  BY <1>1
<1>. QED
  BY <1>2 DEF RemoveAt
-----------------------------------------------------------------------------
(* The wire keeps its type. *)

LEMMA NoTaskIsNone == ASSUME NEW t \in TaskOfLog
                      PROVE  t # NoTask
<1>1. DOMAIN t = {"log", "offset", "first", "course"}
  BY DEF TaskOfLog
<1>2. DOMAIN NoTask = {"log"}
  BY DEF NoTask
<1>. QED
  BY <1>1, <1>2

LEMMA RestartTyped ==
  ASSUME NEW log \in Logs
  PROVE  /\ Restart(log) \in Seq(CallRecords) /\ Restart(log) # <<>>
         /\ Len(Restart(log)) = 2 /\ Restart(log)[2] = Start(log)
         /\ <<Start(log)>> \in Seq(CallRecords) /\ <<Stop>> \in Seq(CallRecords)
<1>1. Start(log) \in CallRecords /\ Stop \in CallRecords
  BY DEF CallRecords
<1>. QED
  BY <1>1 DEF Restart

\* What opening the panel emits ends with the start of the log opened.
LEMMA OpenEmits ==
  ASSUME NEW p \in Processes, WireType
  PROVE  LET log == <<p, panel.channel>>
             new == <<Start(log)>> \o IF p = panel.process THEN <<>> ELSE Restart(log)
         IN log \in Logs /\ new \in Seq(CallRecords) /\ new # <<>>
            /\ new[Len(new)] = Start(log)
<1>. DEFINE log == <<p, panel.channel>>
<1>1. log \in Logs
  BY DEF Logs, WireType
<1>. HIDE DEF log
<1>2. /\ <<Start(log)>> \in Seq(CallRecords) /\ <<Start(log)>> # <<>>
      /\ <<Start(log)>>[Len(<<Start(log)>>)] = Start(log)
  BY <1>1, RestartTyped
<1>3. <<Start(log)>> \o <<>> = <<Start(log)>>
  BY <1>2, ConcatEmptySeq
<1>4. LET new == <<Start(log)>> \o Restart(log)
      IN new \in Seq(CallRecords) /\ new # <<>> /\ new[Len(new)] = Start(log)
  BY <1>1, <1>2, RestartTyped, LastOfConcat
<1>. QED
  BY <1>1, <1>2, <1>3, <1>4 DEF log

\* A call that is executed is one of the two kinds, and its task is well formed.
LEMMA Started ==
  ASSUME WireType, NEW i \in DOMAIN calls, calls[i].name = "start"
  PROVE  /\ calls[i].log \in Logs /\ calls[i] = Start(calls[i].log)
         /\ \A course \in {"sound", "over"} : NewTask(calls[i].log, course) \in TaskOfLog
<1>1. calls[i] \in CallRecords
  BY DEF WireType
<1>2. calls[i] # Stop
  BY DEF Stop
<1>3. PICK log \in Logs : calls[i] = Start(log)
  BY <1>1, <1>2 DEF CallRecords
<1>. QED
  BY <1>3 DEF Start, NewTask, TaskOfLog, Courses

LEMMA Stopped ==
  ASSUME WireType, NEW i \in DOMAIN calls, calls[i].name = "stop"
  PROVE  calls[i] = Stop
<1>1. calls[i] \in CallRecords
  BY DEF WireType
<1>. QED
  BY <1>1 DEF CallRecords, Start

\* A poll goes on with the same log.
LEMMA PollKeeps ==
  ASSUME WireType, Poll
  PROVE  task # NoTask /\ task'.log = task.log
         /\ task' \in TaskOfLog
<1>1. task \in TaskOfLog /\ task # NoTask
  BY DEF Poll, WireType
<1>2. NextOffset(task.log, task.offset) \in Int
  BY <1>1 DEF NextOffset, WireType, TaskOfLog
<1>3. PICK course \in Courses :
        task' = [task EXCEPT !.offset = NextOffset(task.log, task.offset), !.first = FALSE,
                             !.course = course]
  BY <1>1 DEF Poll, TaskOfLog, Courses
<1>. QED
  BY <1>1, <1>2, <1>3 DEF TaskOfLog

\* Emptying logs leaves the task its log, and its course if it has read nothing of
\* them.
LEMMA EmptiesKeeps ==
  ASSUME WireType, NEW logs, Empties(logs)
  PROVE  /\ task' = NoTask <=> task = NoTask
         /\ task # NoTask =>
              /\ task' \in TaskOfLog /\ task'.log = task.log
              /\ task'.offset = task.offset /\ task'.first = task.first
              /\ task' = task \/ task'.course = "cut"
              /\ task' = task => task.log \notin logs \/ ~(task.offset > 0)
                                \/ task.course = "cut"
         /\ size' \in [Logs -> Int]
         /\ \A log \in Logs : size'[log] = IF log \in logs THEN 0 ELSE size[log]
<1>1. size' = [log \in Logs |-> IF log \in logs THEN 0 ELSE size[log]]
  BY DEF Empties
<1>2. size' \in [Logs -> Int] /\ \A log \in Logs : size'[log] = IF log \in logs THEN 0 ELSE size[log]
  BY <1>1 DEF WireType
<1>3. CASE task = NoTask
  BY <1>2, <1>3 DEF Empties
<1>4. CASE task # NoTask
  <2>1. task \in TaskOfLog /\ "cut" \in Courses
    BY <1>4 DEF WireType, Courses
  <2>2. CASE task.log \in logs /\ task.offset > 0
    <3>1. task' = [task EXCEPT !.course = "cut"]
      BY <1>4, <2>2 DEF Empties
    <3>2. /\ task' \in TaskOfLog /\ task'.log = task.log /\ task'.offset = task.offset
          /\ task'.first = task.first /\ task'.course = "cut"
      BY <2>1, <3>1 DEF TaskOfLog
    <3>3. task' # NoTask
      BY <3>2, NoTaskIsNone
    <3>. QED
      BY <1>2, <1>4, <3>2, <3>3
  <2>3. CASE ~(task.log \in logs /\ task.offset > 0)
    BY <1>2, <1>4, <2>1, <2>3 DEF Empties
  <2>. QED
    BY <2>2, <2>3
<1>. QED
  BY <1>3, <1>4

LEMMA WireTypeStep == WireType /\ [LogNext]_logVars => WireType'
<1>. SUFFICES ASSUME WireType, [LogNext]_logVars PROVE WireType'
  OBVIOUS
<1>1. ASSUME NEW p \in Processes, Open(p) PROVE WireType'
  <2>. DEFINE log == <<p, panel.channel>>
              new == <<Start(log)>> \o IF p = panel.process THEN <<>> ELSE Restart(log)
  <2>1. new \in Seq(CallRecords) /\ calls' = calls \o new
    BY <1>1, OpenEmits DEF Open, Emits
  <2>2. calls' \in Seq(CallRecords)
    BY <2>1, ConcatProperties DEF WireType
  <2>3. panel' = [panel EXCEPT !.open = TRUE, !.process = p] /\ UNCHANGED <<clearing, task, size>>
    BY <1>1 DEF Open
  <2>. QED
    BY <2>2, <2>3 DEF WireType
<1>2. ASSUME NEW ch \in Channels, SwitchChannel(ch) PROVE WireType'
  <2>1. <<panel.process, ch>> \in Logs
    BY <1>2 DEF SwitchChannel, WireType, Logs
  <2>2. calls' \in Seq(CallRecords)
    BY <1>2, <2>1, RestartTyped, ConcatProperties DEF SwitchChannel, Emits, WireType
  <2>. QED
    BY <1>2, <2>2 DEF SwitchChannel, WireType
<1>3. CASE Close
  <2>1. <<Stop>> \in Seq(CallRecords)
    BY DEF CallRecords
  <2>2. calls' \in Seq(CallRecords)
    BY <1>3, <2>1, ConcatProperties DEF Close, Emits, WireType
  <2>. QED
    BY <1>3, <2>2 DEF Close, WireType
<1>4. CASE ClearReturns
  <2>1. Log \in Logs
    BY <1>4 DEF ClearReturns, WireType, Log, Logs
  <2>2. calls' \in Seq(CallRecords)
    BY <1>4, <2>1, RestartTyped, ConcatProperties DEF ClearReturns, Emits, WireType
  <2>. QED
    BY <1>4, <2>2 DEF ClearReturns, WireType
<1>5. CASE Command
  <2>1. PICK i \in DOMAIN calls : rt_log_start(i) \/ rt_log_stop(i)
    BY <1>5 DEF Command
  <2>2. calls' = RemoveAt(calls, i) /\ UNCHANGED <<panel, clearing, size>>
    BY <2>1 DEF rt_log_start, rt_log_stop, Execute
  <2>3. calls' \in Seq(CallRecords)
    BY <2>2, RemoveAtTyped DEF WireType
  <2>4. task' # NoTask => task' \in TaskOfLog
    BY <2>1, Started DEF rt_log_start, rt_log_stop, Execute
  <2>. QED
    BY <2>2, <2>3, <2>4 DEF WireType
<1>6. CASE Poll
  BY <1>6, PollKeeps DEF Poll, WireType
<1>7. ASSUME NEW log \in Logs, Grow(log) PROVE WireType'
  BY <1>7 DEF Grow, WireType
<1>8. ASSUME ClearLog \/ \E log \in Logs : Rotate(log) PROVE WireType'
  <2>1. PICK logs : Empties(logs)
    BY <1>8 DEF ClearLog, Rotate
  <2>2. (clearing' # NoClear => clearing # NoClear) /\ UNCHANGED <<panel, calls>>
    BY <1>8 DEF ClearLog, Rotate
  <2>3. size' \in [Logs -> Int] /\ (task' # NoTask => task' \in TaskOfLog)
    BY <2>1, EmptiesKeeps
  <2>. QED
    BY <2>2, <2>3 DEF WireType
<1>9. CASE AskClear
  BY <1>9 DEF AskClear, WireType
<1>10. CASE LoadOlder \/ OlderArrives \/ OlderFails \/ ClearFails \/ Deliver
            \/ UNCHANGED logVars
  BY <1>10 DEF LoadOlder, OlderArrives, OlderFails, ClearFails, Deliver, logVars, WireType
<1>. QED
  BY <1>1, <1>2, <1>3, <1>4, <1>5, <1>6, <1>7, <1>8, <1>9, <1>10
  DEF LogNext, User, Answer
-----------------------------------------------------------------------------
(* The youngest call is what the panel wants. *)

\* Steps that leave the panel, the wire and whether a log is tailed.
LEMMA WireUntouched ==
  ASSUME WireType, Follows, mishaps \subseteq mishaps', UNCHANGED <<panel, calls>>,
         clearing' # NoClear => clearing # NoClear \/ panel.open,
         task' = NoTask <=> task = NoTask, task # NoTask => task'.log = task.log
  PROVE  Follows'
<1>1. OpenFollows'
  BY DEF Follows, OpenFollows, Without, Following, Log, Start
<1>2. ClosedStops'
  BY DEF Follows, ClosedStops, Without, NotFollowing, Stop, NoClear, NoTask
<1>. QED
  BY <1>1, <1>2 DEF Follows

\* Whatever is emitted last is what will be tailed.
LEMMA StartsEmitted ==
  ASSUME WireType, panel'.open, calls' # <<>>, calls'[Len(calls')] = Start(Log')
  PROVE  Follows'
BY DEF Follows, OpenFollows, ClosedStops, Following, Start, Log

LEMMA CommandFollows ==
  ASSUME WireType, Follows, mishaps \subseteq mishaps',
         NEW i \in DOMAIN calls, rt_log_start(i) \/ rt_log_stop(i)
  PROVE  Follows'
<1>1. /\ calls' = RemoveAt(calls, i) /\ UNCHANGED <<panel, clearing>>
      /\ Len(calls) \in Nat \ {0} /\ calls # <<>> /\ calls \in Seq(CallRecords)
  BY DEF rt_log_start, rt_log_stop, Execute, WireType
<1>2. "reordered" \notin mishaps' => i = 1
  BY DEF rt_log_start, rt_log_stop, OutOfTurn
<1>3. CASE i = 1 /\ Len(calls) # 1
  <2>1. calls' # <<>> /\ calls'[Len(calls')] = calls[Len(calls)]
    BY <1>1, <1>3, OldestRemoved
  <2>. QED
    BY <1>1, <2>1 DEF Follows, OpenFollows, ClosedStops, Following, NotFollowing,
                      Without, Log, Start, Stop, NoClear
<1>4. CASE i = 1 /\ Len(calls) = 1
  <2>1. calls' = <<>>
    BY <1>1, <1>4, OldestRemoved
  <2>2. OpenFollows'
    <3>. SUFFICES ASSUME "reordered" \notin mishaps', panel.open
                  PROVE  task' # NoTask /\ task'.log = Log
      BY <1>1, <2>1 DEF OpenFollows, Without, Following, Log, NoTask
    <3>1. calls[i] = Start(Log)
      BY <1>1, <1>4 DEF Follows, OpenFollows, Without, Following
    <3>2. rt_log_start(i)
      BY <3>1 DEF rt_log_stop, Execute, Start
    <3>3. PICK course \in {"sound", "over"} : task' = NewTask(Log, course)
      BY <3>1, <3>2 DEF rt_log_start, Start
    <3>4. task' # NoTask
      BY <3>2, <3>1, <3>3, Started, NoTaskIsNone DEF rt_log_start, Execute, Start
    <3>. QED
      BY <3>3, <3>4 DEF NewTask
  <2>3. ClosedStops'
    <3>. SUFFICES ASSUME "closed" \notin mishaps', "reordered" \notin mishaps', ~panel.open
                  PROVE  task' = NoTask /\ clearing = NoClear
      BY <1>1, <2>1 DEF ClosedStops, Without, NotFollowing, NoTask, NoClear
    <3>1. calls[i] = Stop /\ clearing = NoClear
      BY <1>1, <1>4 DEF Follows, ClosedStops, Without, NotFollowing
    <3>2. rt_log_stop(i)
      BY <3>1 DEF rt_log_start, Execute, Stop
    <3>. QED
      BY <3>1, <3>2 DEF rt_log_stop
  <2>. QED
    BY <2>2, <2>3 DEF Follows
<1>5. CASE i # 1
  BY <1>2, <1>5 DEF Follows, OpenFollows, ClosedStops, Without
<1>. QED
  BY <1>3, <1>4, <1>5

LEMMA FollowsStep == WireType /\ Follows /\ [LogNext]_logVars => Follows'
<1>. SUFFICES ASSUME WireType, Follows, [LogNext]_logVars PROVE Follows'
  OBVIOUS
<1>0. mishaps \subseteq mishaps'
  BY MishapsGrow
<1>1. ASSUME NEW p \in Processes, Open(p) PROVE Follows'
  <2>. DEFINE log == <<p, panel.channel>>
              new == <<Start(log)>> \o IF p = panel.process THEN <<>> ELSE Restart(log)
  <2>1. /\ new \in Seq(CallRecords) /\ new # <<>> /\ new[Len(new)] = Start(log)
        /\ calls' = calls \o new
    BY <1>1, OpenEmits DEF Open, Emits
  <2>2. calls' # <<>> /\ calls'[Len(calls')] = Start(log)
    <3>. HIDE DEF new
    <3>. QED
      BY <2>1, LastOfConcat DEF WireType
  <2>3. panel' = [panel EXCEPT !.open = TRUE, !.process = p]
    BY <1>1 DEF Open
  <2>4. panel'.open /\ Log' = log
    BY <2>3 DEF Log, WireType
  <2>. QED
    BY <2>2, <2>4, StartsEmitted
<1>2. ASSUME NEW ch \in Channels, SwitchChannel(ch) PROVE Follows'
  <2>1. <<panel.process, ch>> \in Logs
    BY <1>2 DEF SwitchChannel, WireType, Logs
  <2>2. calls' = calls \o Restart(<<panel.process, ch>>)
    BY <1>2 DEF SwitchChannel, Emits
  <2>3. calls' # <<>> /\ calls'[Len(calls')] = Start(<<panel.process, ch>>)
    BY <2>1, <2>2, RestartTyped, LastOfConcat DEF WireType
  <2>4. panel'.open /\ Log' = <<panel.process, ch>>
    BY <1>2 DEF SwitchChannel, Log, WireType
  <2>. QED
    BY <2>3, <2>4, StartsEmitted
<1>3. CASE Close
  <2>1. <<Stop>> \in Seq(CallRecords) /\ <<Stop>> # <<>> /\ <<Stop>>[Len(<<Stop>>)] = Stop
    BY DEF CallRecords
  <2>2. calls' # <<>> /\ calls'[Len(calls')] = Stop
    BY <1>3, <2>1, LastOfConcat DEF Close, Emits, WireType
  <2>3. ~panel'.open /\ UNCHANGED clearing
    BY <1>3 DEF Close, WireType
  <2>4. "closed" \notin mishaps' => clearing = NoClear
    BY <1>3 DEF Close, Risks
  <2>. QED
    BY <2>2, <2>3, <2>4 DEF Follows, OpenFollows, ClosedStops, NotFollowing, Without,
                            Stop, NoClear
<1>4. CASE ClearReturns
  <2>1. Log \in Logs
    BY <1>4 DEF ClearReturns, WireType, Log, Logs
  <2>2. calls' # <<>> /\ calls'[Len(calls')] = Start(Log)
    BY <1>4, <2>1, RestartTyped, LastOfConcat DEF ClearReturns, Emits, WireType
  <2>3. UNCHANGED panel /\ Log' = Log /\ clearing # NoClear
    BY <1>4 DEF ClearReturns, Log
  <2>4. CASE panel.open
    BY <2>2, <2>3, <2>4, StartsEmitted
  <2>5. CASE ~panel.open
    BY <1>0, <2>3, <2>5 DEF Follows, OpenFollows, ClosedStops, Without
  <2>. QED
    BY <2>4, <2>5
<1>5. CASE Command
  BY <1>0, <1>5, CommandFollows DEF Command
<1>6. CASE Poll
  <2>1. task' # NoTask
    BY <1>6, PollKeeps, NoTaskIsNone
  <2>2. UNCHANGED <<panel, calls, clearing>>
    BY <1>6 DEF Poll
  <2>. QED
    BY <1>0, <1>6, <2>1, <2>2, PollKeeps, WireUntouched
<1>7. CASE \/ \E log \in Logs : Grow(log)
           \/ AskClear \/ LoadOlder \/ OlderArrives \/ OlderFails
           \/ ClearFails \/ Deliver \/ UNCHANGED logVars
  <2>1. /\ UNCHANGED <<panel, calls, task>>
        /\ clearing' # NoClear => clearing # NoClear \/ panel.open
    BY <1>7 DEF Grow, AskClear, LoadOlder, OlderArrives, OlderFails,
                ClearFails, Deliver, logVars
  <2>. QED
    BY <1>0, <2>1, WireUntouched
<1>8. ASSUME ClearLog \/ \E log \in Logs : Rotate(log) PROVE Follows'
  <2>1. PICK logs : Empties(logs)
    BY <1>8 DEF ClearLog, Rotate
  <2>2. (clearing' # NoClear => clearing # NoClear) /\ UNCHANGED <<panel, calls>>
    BY <1>8 DEF ClearLog, Rotate
  <2>3. (task' = NoTask <=> task = NoTask) /\ (task # NoTask => task'.log = task.log)
    BY <2>1, EmptiesKeeps
  <2>. QED
    BY <1>0, <2>2, <2>3, WireUntouched
<1>. QED
  BY <1>1, <1>2, <1>3, <1>4, <1>5, <1>6, <1>7, <1>8 DEF LogNext, User, Answer

LEMMA WireFollowsInit == ASSUME LogInit PROVE WireType /\ Follows
<1>1. panel = [open |-> FALSE, process |-> NoProcess, channel |-> First]
      /\ First \in Channels /\ calls = <<>> /\ task = NoTask /\ clearing = NoClear
      /\ size \in [Logs -> 0..MaxSize]
  BY LogAssumption DEF LogInit
<1>2. WireType
  BY <1>1, LogAssumption DEF WireType
<1>3. Follows
  BY <1>1 DEF Follows, OpenFollows, ClosedStops, NotFollowing
<1>. QED
  BY <1>2, <1>3

LEMMA FollowsInvariant == LogSpec => [](WireType /\ Follows)
BY WireFollowsInit, WireTypeStep, FollowsStep, PTL DEF LogSpec

\* With no call in flight an open panel is followed by a task of its own log, if
\* calls keep their order, also when the user acts while the log is read or
\* cleared, and when its server cannot be read (LogPanel.vue, realtime.rs).
THEOREM OpenPanelIsFollowed == LogSpec => []OpenIsFollowed
<1>1. Follows => OpenIsFollowed
  BY DEF Follows, OpenFollows, Following, OpenIsFollowed
<1>. QED
  BY <1>1, FollowsInvariant, PTL

\* With no call in flight a closed panel has no task, unless calls changed their
\* order or the panel was closed while a clear was under way (rt_log_stop).
THEOREM ClosedPanelIsLeft == LogSpec => []LogStops
<1>1. Follows => LogStops
  BY DEF Follows, ClosedStops, NotFollowing, LogStops, ClosedIsQuiet
<1>. QED
  BY <1>1, FollowsInvariant, PTL

-----------------------------------------------------------------------------
(* What is on screen.  The chunks on their way, from the one that replaces the *)
(* screen on, or what is on screen if there is none, are pieces of the log   *)
(* that follow on each other up to the offset of the task (Chain).           *)

Byte == Logs \X Int
Chunks == [data : Seq(Byte), append : BOOLEAN, startOffset : Int]

\* The part of the type that the screen depends on.
ScreenType ==
  /\ content \in Seq(Byte) /\ oldest \in Int
  /\ events \in Seq(Chunks)
  /\ reading # NoRead => reading \in [log : Logs, start : Int, length : Int]
  /\ clearing # NoClear => clearing \in [log : Logs, done : BOOLEAN]
  /\ size \in [Logs -> Nat] /\ \A log \in Logs : size[log] <= MaxSize
  /\ task # NoTask => task.offset \in Nat

LEMMA BytesMeans ==
  ASSUME NEW log \in Logs, NEW from \in Int, NEW to \in Int
  PROVE  /\ Bytes(log, from, to) \in Seq(Byte)
         /\ from <= to => Len(Bytes(log, from, to)) = to - from
         /\ \A i \in 1..(to - from) : Bytes(log, from, to)[i] = <<log, from + i - 1>>
<1>. DEFINE b == Bytes(log, from, to)
<1>1. \A i \in 1..(to - from) : <<log, from + i - 1>> \in Byte
  BY DEF Byte
<1>2. \A i \in 1..(to - from) : b[i] = <<log, from + i - 1>>
  BY DEF Bytes
<1>3. b \in [1..(to - from) -> Byte]
  BY <1>1 DEF Bytes
<1>. HIDE DEF b
<1>4. CASE from <= to
  <2>1. to - from \in Nat
    BY <1>4
  <2>2. b \in Seq(Byte)
    BY <1>3, <2>1, SeqDef
  <2>3. Len(b) = to - from
    BY <1>3, <2>1, <2>2, LenProperties
  <2>. QED
    BY <1>2, <2>2, <2>3 DEF b
<1>5. CASE ~(from <= to)
  <2>1. 1..(to - from) = 1..0
    BY <1>5
  <2>2. b \in [1..0 -> Byte] /\ 0 \in Nat
    BY <1>3, <2>1
  <2>3. b \in Seq(Byte)
    BY <2>2, SeqDef
  <2>. QED
    BY <1>2, <1>5, <2>3 DEF b
<1>. QED
  BY <1>4, <1>5

\* Bytes that follow on each other.
LEMMA BytesJoin ==
  ASSUME NEW log \in Logs, NEW a \in Int, NEW b \in Int, NEW c \in Int, a <= b, b <= c
  PROVE  Bytes(log, a, b) \o Bytes(log, b, c) = Bytes(log, a, c)
<1>. DEFINE x == Bytes(log, a, b)
            y == Bytes(log, b, c)
            z == Bytes(log, a, c)
<1>1. /\ x \in Seq(Byte) /\ Len(x) = b - a
      /\ \A i \in 1..(b - a) : x[i] = <<log, a + i - 1>>
  BY BytesMeans
<1>2. /\ y \in Seq(Byte) /\ Len(y) = c - b
      /\ \A i \in 1..(c - b) : y[i] = <<log, b + i - 1>>
  BY BytesMeans
<1>3. /\ z \in Seq(Byte) /\ Len(z) = c - a
      /\ \A i \in 1..(c - a) : z[i] = <<log, a + i - 1>>
  <2>1. a <= c
    OBVIOUS
  <2>. QED
    BY <2>1, BytesMeans
<1>. HIDE DEF x, y, z
<1>4. /\ x \o y \in Seq(Byte) /\ Len(x \o y) = Len(x) + Len(y)
      /\ \A i \in 1 .. Len(x) + Len(y) :
           (x \o y)[i] = IF i <= Len(x) THEN x[i] ELSE y[i - Len(x)]
  BY <1>1, <1>2, ConcatProperties
<1>5. Len(x \o y) = Len(z)
  BY <1>1, <1>2, <1>3, <1>4
<1>6. ASSUME NEW i \in 1 .. Len(x \o y) PROVE (x \o y)[i] = z[i]
  <2>1. i \in 1..(c - a)
    BY <1>3, <1>5
  <2>2. CASE i <= b - a
    <3>1. i \in 1..(b - a)
      BY <2>2
    <3>. QED
      BY <1>1, <1>3, <1>4, <2>1, <2>2, <3>1
  <2>3. CASE ~(i <= b - a)
    <3>1. i - (b - a) \in 1..(c - b)
      BY <2>1, <2>3
    <3>2. (x \o y)[i] = y[i - (b - a)]
      BY <1>1, <1>4, <2>3
    <3>3. b + (i - (b - a)) - 1 = a + i - 1
      BY <2>1
    <3>4. (x \o y)[i] = <<log, a + i - 1>>
      BY <1>2, <3>1, <3>2, <3>3
    <3>. QED
      BY <1>3, <2>1, <3>4
  <2>. QED
    BY <2>2, <2>3
<1>7. x \o y = z
  BY <1>3, <1>4, <1>5, <1>6, SeqEqual
<1>. QED
  BY <1>7 DEF x, y, z

\* What a poll reads and where the chunk says that it begins.
LEMMA PollReads ==
  ASSUME NEW log \in Logs, NEW offset \in Nat, size \in [Logs -> Nat]
  PROVE  LET from == TailFrom(log, offset)
             data == Bytes(log, from, size[log])
         IN /\ from \in 0..size[log]
            /\ data \in Seq(Byte) /\ Len(data) = size[log] - from
            /\ Greater(0, size[log] - Len(data)) = from
            /\ data = <<>> <=> from = size[log]
<1>. DEFINE from == TailFrom(log, offset)
            data == Bytes(log, from, size[log])
<1>1. size[log] \in Nat /\ from \in 0..size[log]
  BY LogAssumption DEF TailFrom, Smaller
<1>. HIDE DEF from
<1>2. data \in Seq(Byte) /\ Len(data) = size[log] - from
  BY <1>1, BytesMeans
<1>. HIDE DEF data
<1>3. Greater(0, size[log] - Len(data)) = from
  BY <1>1, <1>2 DEF Greater
<1>4. data = <<>> <=> Len(data) = 0
  BY <1>2, EmptySeq
<1>5. data = <<>> <=> from = size[log]
  BY <1>1, <1>2, <1>4
<1>. QED
  BY <1>1, <1>2, <1>3, <1>5 DEF from, data

\* The chunk of a poll.
Offset == IF Incremental(task.log) THEN task.offset ELSE 0
Read == Bytes(task.log, TailFrom(task.log, Offset), size[task.log])
Chunk == [data |-> Read, append |-> Incremental(task.log) /\ ~task.first,
          startOffset |-> IF Incremental(task.log) THEN TailFrom(task.log, task.offset)
                                                   ELSE NoAnchor]

LEMMA PollSends ==
  ASSUME WireType, ScreenType, Poll
  PROVE  /\ task # NoTask /\ task.log \in Logs /\ task.offset \in Nat /\ task.first \in BOOLEAN
         /\ Chunk \in Chunks
         /\ events' = IF Chunk.append /\ Chunk.data = <<>> THEN events
                                                         ELSE Append(events, Chunk)
         /\ task'.log = task.log /\ ~task'.first
         /\ task'.offset = NextOffset(task.log, task.offset)
         /\ task'.course = IF ~task.first /\ task.course = "sound"
                                /\ Skips(task.log, task.offset)
                           THEN "gap" ELSE task.course
         /\ UNCHANGED <<panel, content, oldest, reading, clearing, calls, size, mishaps>>
<1>1. /\ task # NoTask /\ task \in TaskOfLog
      /\ task.offset \in Nat /\ size \in [Logs -> Nat]
  BY DEF Poll, WireType, ScreenType
<1>2. task.log \in Logs /\ Offset \in Nat /\ task.first \in BOOLEAN
  BY <1>1 DEF Offset, TaskOfLog
<1>3. /\ TailFrom(task.log, Offset) \in 0..size[task.log]
      /\ Read \in Seq(Byte)
      /\ Greater(0, size[task.log] - Len(Read)) = TailFrom(task.log, Offset)
  BY <1>1, <1>2, PollReads DEF Read
<1>4. Incremental(task.log) \in BOOLEAN
  BY DEF Incremental
<1>5. TailFrom(task.log, task.offset) \in Int
  BY <1>1, <1>2, PollReads
<1>6. Chunk \in Chunks
  BY <1>1, <1>3, <1>4, <1>5 DEF Chunk, Chunks, NoAnchor
<1>7. Chunk = [data |-> Read, append |-> Incremental(task.log) /\ ~task.first,
               startOffset |-> IF Incremental(task.log)
                               THEN Greater(0, size[task.log] - Len(Read)) ELSE NoAnchor]
  BY <1>3 DEF Chunk, Offset
<1>. DEFINE course == IF ~task.first /\ task.course = "sound" /\ Skips(task.log, task.offset)
                      THEN "gap" ELSE task.course
<1>8. /\ task' = [task EXCEPT !.offset = NextOffset(task.log, task.offset), !.first = FALSE,
                             !.course = course]
      /\ events' = IF Chunk.append /\ Read = <<>> THEN events ELSE Append(events, Chunk)
      /\ UNCHANGED <<panel, content, oldest, reading, clearing, calls, size, mishaps>>
  BY <1>7 DEF Poll, Read, Offset
<1>9. Chunk.data = Read
  BY DEF Chunk
<1>10. /\ task'.log = task.log /\ ~task'.first /\ task'.course = course
       /\ task'.offset = NextOffset(task.log, task.offset)
  <2>. HIDE DEF course
  <2>. QED
    BY <1>1, <1>8 DEF TaskOfLog
<1>. QED
  BY <1>1, <1>2, <1>6, <1>8, <1>9, <1>10

LEMMA ScreenTypeStep == WireType /\ ScreenType /\ [LogNext]_logVars => ScreenType'
<1>. SUFFICES ASSUME WireType, ScreenType, [LogNext]_logVars PROVE ScreenType'
  OBVIOUS
<1>0. NoAnchor \in Int /\ <<>> \in Seq(Byte)
  BY DEF NoAnchor
<1>1. panel.open \/ clearing # NoClear => Log \in Logs
  BY DEF WireType, Log, Logs
<1>2. ASSUME NEW p \in Processes, Open(p) PROVE ScreenType'
  BY <1>0, <1>2 DEF Open, Emptied, ScreenType
<1>3. ASSUME NEW ch \in Channels, SwitchChannel(ch) PROVE ScreenType'
  BY <1>0, <1>3 DEF SwitchChannel, Emptied, ScreenType
<1>4. CASE Close \/ OlderFails \/ ClearFails \/ UNCHANGED logVars
  BY <1>4 DEF Close, OlderFails, ClearFails, logVars, ScreenType
<1>5. CASE LoadOlder
  <2>1. Greater(0, oldest - Window) \in Int
    BY LogAssumption DEF Greater, ScreenType
  <2>2. OlderWindow \in [log : Logs, start : Int, length : Int]
    BY <1>1, <1>5, <2>1 DEF LoadOlder, OlderWindow, ScreenType
  <2>. QED
    BY <1>5, <2>2 DEF LoadOlder, ScreenType
<1>6. CASE OlderArrives
  <2>1. reading \in [log : Logs, start : Int, length : Int]
    BY <1>6 DEF OlderArrives, ScreenType
  <2>2. Smaller(reading.start + reading.length, size[reading.log]) \in Int
    BY <2>1 DEF Smaller, ScreenType
  <2>3. content' \in Seq(Byte)
    BY <1>6, <2>1, <2>2, BytesMeans, ConcatProperties DEF OlderArrives, ScreenType
  <2>. QED
    BY <1>6, <2>1, <2>3 DEF OlderArrives, ScreenType
<1>7. CASE AskClear
  <2>1. [log |-> Log, done |-> FALSE] \in [log : Logs, done : BOOLEAN]
    BY <1>1, <1>7 DEF AskClear
  <2>. QED
    BY <1>7, <2>1 DEF AskClear, ScreenType
<1>8. ASSUME ClearLog \/ \E log \in Logs : Rotate(log) PROVE ScreenType'
  <2>1. PICK logs : Empties(logs)
    BY <1>8 DEF ClearLog, Rotate
  <2>2. ClearLog => clearing' \in [log : Logs, done : BOOLEAN]
    BY DEF ClearLog, ScreenType
  <2>3. size' = [log \in Logs |-> IF log \in logs THEN 0 ELSE size[log]]
    BY <2>1 DEF Empties
  <2>4. size' \in [Logs -> Nat] /\ \A log \in Logs : size'[log] <= MaxSize
    BY <2>3, LogAssumption DEF ScreenType
  <2>5. task' # NoTask => task'.offset \in Nat
    BY <2>1, EmptiesKeeps DEF ScreenType
  <2>. QED
    BY <1>8, <2>2, <2>4, <2>5 DEF ClearLog, Rotate, ScreenType
<1>9. CASE ClearReturns
  BY <1>0, <1>9 DEF ClearReturns, Emptied, ScreenType
<1>10. CASE Deliver
  <2>1. Head(events) \in Chunks /\ Tail(events) \in Seq(Chunks)
    BY <1>10, HeadTailProperties DEF Deliver, ScreenType
  <2>2. Head(events).data \in Seq(Byte) /\ Head(events).startOffset \in Int
    BY <2>1 DEF Chunks
  <2>3. content \in Seq(Byte) /\ content \o Head(events).data \in Seq(Byte) /\ oldest \in Int
    BY <2>2, ConcatProperties DEF ScreenType
  <2>4. content' \in Seq(Byte) /\ oldest' \in Int
    <3>1. CASE Head(events).append
      BY <1>10, <2>3, <3>1 DEF Deliver, Shows
    <3>2. CASE ~Head(events).append
      BY <1>10, <2>2, <3>2 DEF Deliver, Shows
    <3>. QED
      BY <3>1, <3>2
  <2>. QED
    BY <1>10, <2>1, <2>4 DEF Deliver, ScreenType
<1>11. CASE Command
  <2>1. PICK i \in DOMAIN calls : rt_log_start(i) \/ rt_log_stop(i)
    BY <1>11 DEF Command
  <2>2. task' # NoTask => task'.offset = 0
    BY <2>1 DEF rt_log_start, rt_log_stop, NewTask
  <2>. QED
    BY <2>1, <2>2 DEF rt_log_start, rt_log_stop, Execute, ScreenType
<1>12. CASE Poll
  <2>1. events' \in Seq(Chunks)
    <3>1. Chunk \in Chunks /\ (events' = events \/ events' = Append(events, Chunk))
      BY <1>12, PollSends
    <3>2. events \in Seq(Chunks)
      BY DEF ScreenType
    <3>. HIDE DEF Chunk, Chunks
    <3>. QED
      BY <3>1, <3>2, AppendProperties
  <2>2. task'.offset \in Nat
    BY <1>12, PollSends DEF NextOffset, ScreenType
  <2>. QED
    BY <1>12, <2>1, <2>2, PollSends DEF ScreenType
<1>13. ASSUME NEW log \in Logs, Grow(log) PROVE ScreenType'
  <2>1. size' \in [Logs -> Nat] /\ \A l \in Logs : size'[l] <= MaxSize
    BY <1>13, LogAssumption DEF Grow, ScreenType
  <2>. QED
    BY <1>13, <2>1 DEF Grow, ScreenType
<1>. QED
  BY <1>2, <1>3, <1>4, <1>5, <1>6, <1>7, <1>8, <1>9, <1>10, <1>11, <1>12, <1>13
  DEF LogNext, User, Answer

-----------------------------------------------------------------------------
Unspoilt == Without({"reordered", "overtaken"})

\* The log of the panel is tailed, and if with offsets, nothing of it was lost.
Tailed ==
  /\ panel.open /\ calls = <<>> /\ task # NoTask /\ ~task.first
  /\ Incremental(Log) => task.course = "sound"

\* Where the i-th chunk begins, what it holds and where it ends; 0 is the screen.
Begins(i) == IF i = 0 THEN oldest ELSE events[i].startOffset
Text(i) == IF i = 0 THEN content ELSE events[i].data
Reach(i) == Begins(i) + Len(Text(i))
IsPiece(i) ==
  /\ Begins(i) \in Nat /\ Reach(i) <= task.offset
  /\ Text(i) = Bytes(Log, Begins(i), Reach(i))

\* With offsets: chunk k replaces the screen, unless it is the screen, and the
\* later ones follow on each other.
Chain(k) ==
  /\ k \in 0..Len(events)
  /\ k # 0 => ~events[k].append
  /\ \A i \in k + 1 .. Len(events) : events[i].append /\ Begins(i) = Reach(i - 1)
  /\ \A i \in k .. Len(events) :
       IsPiece(i) /\ (i = Len(events) => Reach(i) = task.offset)
  /\ task.offset <= size[Log]

\* Without: the last chunk was the end of the log when it was read.
WasEnd(text) ==
  \E end \in 0..MaxSize : text = Bytes(Log, Greater(0, end - TailLength), end)
Snapshot ==
  \E last \in 0 .. Len(events) :
    /\ last = Len(events) /\ (last # 0 => ~events[last].append)
    /\ Begins(last) = NoAnchor /\ WasEnd(Text(last))

OnItsWay == IF Incremental(Log) THEN \E k \in 0..Len(events) : Chain(k) ELSE Snapshot

\* A scroll-back asks for what is before the screen, as long as nothing was lost.
AsksBefore ==
  /\ Chain(0)
  /\ reading.log = Log /\ reading.start \in Nat /\ reading.length \in Nat
  /\ reading.start + reading.length = oldest
ReadsBefore ==
  /\ calls = <<>> /\ task # NoTask /\ ~task.first /\ Incremental(Log)
  /\ task.course = "sound" => AsksBefore

\* While the log is tailed, what the panel will show is on its way, and a request
\* for older bytes is under way only for the screen that it will be put before.
ShownInv ==
  Unspoilt => (Tailed => OnItsWay) /\ (panel.open /\ reading # NoRead => ReadsBefore)

\* The types, and that the backend tails what the panel wants.
LogBase == WireType /\ ScreenType /\ Follows

LEMMA TailedLog ==
  ASSUME LogBase, Unspoilt, panel.open, calls = <<>>, task # NoTask
  PROVE  task.log = Log /\ Log \in Logs /\ size[Log] \in Nat /\ task.offset \in Nat
BY DEF LogBase, Follows, OpenFollows, Following, Unspoilt, Without, WireType, ScreenType,
       TaskOfLog, Log, Logs

LEMMA PieceTypes ==
  ASSUME ScreenType, NEW i \in 0..Len(events)
  PROVE  Begins(i) \in Int /\ Text(i) \in Seq(Byte) /\ Reach(i) \in Int /\ Len(Text(i)) \in Nat
<1>1. Begins(i) \in Int /\ Text(i) \in Seq(Byte)
  <2>1. CASE i = 0
    BY <2>1 DEF Begins, Text, ScreenType
  <2>2. CASE i # 0
    <3>1. i \in 1..Len(events)
      BY <2>2
    <3>2. events[i] \in Chunks
      BY <3>1, ElementOfSeq DEF ScreenType
    <3>. QED
      BY <2>2, <3>2 DEF Begins, Text, Chunks
  <2>. QED
    BY <2>1, <2>2
<1>2. Len(Text(i)) \in Nat
  BY <1>1, LenProperties
<1>. QED
  BY <1>1, <1>2 DEF Reach

\* Nothing the chain speaks of changes.
LEMMA ChainFrame ==
  ASSUME NEW k, UNCHANGED <<panel, content, oldest, events, task, size>>
  PROVE  Chain(k)' <=> Chain(k)
BY DEF Chain, IsPiece, Begins, Text, Reach, Log

LEMMA OnItsWayFrame ==
  ASSUME UNCHANGED <<panel, content, oldest, events, task, size>>
  PROVE  OnItsWay' <=> OnItsWay
BY ChainFrame DEF OnItsWay, Snapshot, WasEnd, Begins, Text, Log, Incremental

\* A closed panel, or a call in flight, or a log that is not tailed, and nothing
\* is read.
LEMMA NotTailed ==
  ASSUME ~Tailed', ~panel'.open \/ reading' = NoRead
  PROVE  ShownInv'
BY DEF ShownInv, NoRead

\* The request for older bytes is answered.
LEMMA OlderStep ==
  ASSUME LogBase, Unspoilt, ShownInv, OlderArrives
  PROVE  ShownInv'
<1>. SUFFICES ASSUME Tailed' PROVE OnItsWay'
  BY DEF ShownInv, OlderArrives, NoRead
<1>1. AsksBefore /\ Tailed /\ Incremental(Log)
  <2>1. Tailed /\ reading # NoRead
    BY DEF OlderArrives, Tailed, Log, Incremental
  <2>. QED
    BY <2>1 DEF ShownInv, ReadsBefore, Tailed
<1>2. /\ Log \in Logs /\ size[Log] \in Nat /\ task.offset \in Nat
      /\ UNCHANGED <<panel, clearing, calls, task, events, size>>
      /\ reading' = NoRead /\ oldest' = reading.start
      /\ reading.start \in Nat /\ reading.length \in Nat
      /\ reading.start + reading.length = oldest /\ reading.log = Log
  BY <1>1, TailedLog DEF AsksBefore, Tailed, OlderArrives
<1>3. /\ IsPiece(0) /\ Begins(0) = oldest /\ Text(0) = content
      /\ Reach(0) = oldest + Len(content) /\ oldest \in Nat /\ Len(content) \in Nat
      /\ Len(events) \in Nat
  <2>1. Len(events) \in Nat
    BY LenProperties DEF LogBase, ScreenType
  <2>2. IsPiece(0)
    BY <1>1, <2>1 DEF AsksBefore, Chain
  <2>3. Len(content) \in Nat
    BY LenProperties DEF LogBase, ScreenType
  <2>. QED
    BY <2>1, <2>2, <2>3 DEF IsPiece, Begins, Text, Reach
<1>4. content' = Bytes(Log, reading.start, Reach(0))
  <2>1. Smaller(reading.start + reading.length, size[Log]) = oldest
    <3>1. oldest <= size[Log]
      BY <1>1, <1>2, <1>3 DEF AsksBefore, Chain, IsPiece
    <3>. QED
      BY <1>2, <1>3, <3>1 DEF Smaller
  <2>2. content' = Bytes(Log, reading.start, oldest) \o content
    BY <1>2, <2>1 DEF OlderArrives
  <2>3. content = Bytes(Log, oldest, Reach(0))
    BY <1>3 DEF IsPiece
  <2>4. /\ reading.start <= oldest /\ oldest <= Reach(0)
        /\ reading.start \in Int /\ oldest \in Int /\ Reach(0) \in Int
    BY <1>2, <1>3
  <2>5. Bytes(Log, reading.start, oldest) \o Bytes(Log, oldest, Reach(0))
          = Bytes(Log, reading.start, Reach(0))
    BY <1>2, <2>4, BytesJoin
  <2>. QED
    BY <2>2, <2>3, <2>5
<1>5. Len(content') = Reach(0) - reading.start
  <2>1. reading.start <= Reach(0) /\ Reach(0) \in Int
    BY <1>2, <1>3
  <2>. QED
    BY <1>2, <1>4, <2>1, BytesMeans
<1>6. /\ Begins(0)' = reading.start /\ Text(0)' = content' /\ Reach(0)' = Reach(0)
      /\ \A i \in 1 .. Len(events) : /\ Begins(i)' = Begins(i) /\ Text(i)' = Text(i)
                                    /\ Reach(i)' = Reach(i)
  BY <1>2, <1>3, <1>5 DEF Begins, Text, Reach
<1>7. IsPiece(0)' /\ \A i \in 1 .. Len(events) : IsPiece(i) => IsPiece(i)'
  BY <1>2, <1>3, <1>4, <1>6 DEF IsPiece, Log
<1>8. Chain(0)'
  <2>1. \A i \in 0 .. Len(events) :
          IsPiece(i)' /\ (i = Len(events) => Reach(i)' = task.offset)
    BY <1>1, <1>3, <1>6, <1>7 DEF AsksBefore, Chain
  <2>2. \A i \in 1 .. Len(events) : events[i].append /\ Begins(i)' = Reach(i - 1)'
    BY <1>1, <1>3, <1>6 DEF AsksBefore, Chain
  <2>. QED
    BY <1>1, <1>2, <1>3, <2>1, <2>2 DEF AsksBefore, Chain, Log
<1>. QED
  BY <1>1, <1>2, <1>3, <1>8 DEF OnItsWay, Log, Incremental

\* A chunk reaches the page.
LEMMA DeliverShifts ==
  ASSUME ScreenType, Deliver
  PROVE  /\ Len(events) \in Nat \ {0} /\ Len(events') = Len(events) - 1
         /\ \A i \in 1 .. Len(events) - 1 :
              /\ events'[i] = events[i + 1]
              /\ Begins(i)' = Begins(i + 1) /\ Text(i)' = Text(i + 1)
              /\ Reach(i)' = Reach(i + 1)
         /\ ~events[1].append =>
              Begins(0)' = Begins(1) /\ Text(0)' = Text(1) /\ Reach(0)' = Reach(1)
         /\ events[1].append =>
              Begins(0)' = Begins(0) /\ Text(0)' = Text(0) \o Text(1)
<1>1. /\ events \in Seq(Chunks) /\ events # <<>> /\ events' = Tail(events)
      /\ Head(events) = events[1]
  BY DEF ScreenType, Deliver
<1>2. Len(events) \in Nat \ {0}
  BY <1>1, EmptySeq
<1>3. /\ Len(events') = Len(events) - 1
      /\ \A i \in 1 .. Len(events) - 1 : events'[i] = events[i + 1]
  BY <1>1, HeadTailProperties
<1>4. \A i \in 1 .. Len(events) - 1 :
        /\ Begins(i)' = Begins(i + 1) /\ Text(i)' = Text(i + 1) /\ Reach(i)' = Reach(i + 1)
  BY <1>2, <1>3 DEF Begins, Text, Reach
<1>5. Shows(events[1])
  BY <1>1 DEF Deliver
<1>. QED
  BY <1>2, <1>3, <1>4, <1>5 DEF Shows, Begins, Text, Reach

LEMMA DeliverChain ==
  ASSUME LogBase, Deliver, Log \in Logs, task.offset \in Nat, NEW k, Chain(k)
  PROVE  Chain(IF k = 0 THEN 0 ELSE k - 1)'
<1>1. /\ Len(events) \in Nat \ {0} /\ Len(events') = Len(events) - 1
      /\ \A i \in 1 .. Len(events) - 1 :
              /\ events'[i] = events[i + 1]
              /\ Begins(i)' = Begins(i + 1) /\ Text(i)' = Text(i + 1)
              /\ Reach(i)' = Reach(i + 1)
      /\ ~events[1].append =>
              Begins(0)' = Begins(1) /\ Text(0)' = Text(1) /\ Reach(0)' = Reach(1)
      /\ events[1].append =>
              Begins(0)' = Begins(0) /\ Text(0)' = Text(0) \o Text(1)
  BY DeliverShifts DEF LogBase
<1>2. /\ UNCHANGED <<panel, task, size>> /\ Log' = Log
  BY DEF Deliver, Log
<1>3. k \in 0 .. Len(events)
  BY DEF Chain
<1>4. \A i \in 1 .. Len(events) - 1 : IsPiece(i + 1) => IsPiece(i)'
  BY <1>1, <1>2 DEF IsPiece
<1>5. CASE k = 0
  <2>1. events[1].append /\ Begins(1) = Reach(0) /\ IsPiece(0) /\ IsPiece(1)
    BY <1>1, <1>5 DEF Chain
  <2>2. /\ Begins(0) \in Nat /\ Len(Text(0)) \in Nat /\ Reach(0) = Begins(0) + Len(Text(0))
        /\ Begins(1) \in Nat /\ Len(Text(1)) \in Nat /\ Reach(1) = Begins(1) + Len(Text(1))
        /\ 1 \in 0 .. Len(events) /\ 0 \in 0 .. Len(events)
    BY <1>1, <2>1, PieceTypes DEF LogBase, IsPiece, Reach
  <2>3. Text(0)' = Bytes(Log, Begins(0), Reach(1))
    <3>1. Text(0)' = Bytes(Log, Begins(0), Reach(0)) \o Bytes(Log, Reach(0), Reach(1))
      BY <1>1, <2>1 DEF IsPiece
    <3>2. /\ Begins(0) \in Int /\ Reach(0) \in Int /\ Reach(1) \in Int
          /\ Begins(0) <= Reach(0) /\ Reach(0) <= Reach(1)
      BY <2>1, <2>2
    <3>. QED
      BY <3>1, <3>2, BytesJoin
  <2>4. Reach(0)' = Reach(1)
    <3>1. Begins(0) \in Int /\ Reach(1) \in Int /\ Begins(0) <= Reach(1)
      BY <2>1, <2>2
    <3>2. Len(Text(0)') = Reach(1) - Begins(0)
      BY <2>3, <3>1, BytesMeans
    <3>3. Reach(0)' = Begins(0)' + Len(Text(0)')
      BY DEF Reach
    <3>. QED
      BY <1>1, <2>1, <3>1, <3>2, <3>3
  <2>5. IsPiece(0)'
    BY <1>1, <1>2, <2>1, <2>3, <2>4 DEF IsPiece
  <2>6. \A i \in 0 .. Len(events) - 1 :
          IsPiece(i)' /\ (i = Len(events) - 1 => Reach(i)' = task.offset)
    <3>. SUFFICES ASSUME NEW i \in 0 .. Len(events) - 1
                  PROVE  IsPiece(i)' /\ (i = Len(events) - 1 => Reach(i)' = task.offset)
      OBVIOUS
    <3>1. /\ i + 1 \in 0 .. Len(events) /\ i \in 0 .. Len(events)
          /\ i # 0 => i \in 1 .. Len(events) - 1
          /\ i = Len(events) - 1 => i + 1 = Len(events)
      BY <1>1
    <3>2. IsPiece(i + 1) /\ (i + 1 = Len(events) => Reach(i + 1) = task.offset)
      BY <1>5, <3>1 DEF Chain
    <3>. QED
      BY <1>1, <1>4, <2>4, <2>5, <3>1, <3>2
  <2>7. \A i \in 1 .. Len(events) - 1 : events'[i].append /\ Begins(i)' = Reach(i - 1)'
    <3>. SUFFICES ASSUME NEW i \in 1 .. Len(events) - 1
                  PROVE  events'[i].append /\ Begins(i)' = Reach(i - 1)'
      OBVIOUS
    <3>1. events[i + 1].append /\ Begins(i + 1) = Reach(i)
      BY <1>1, <1>5 DEF Chain
    <3>2. Reach(i - 1)' = Reach(i)
      BY <1>1, <2>4
    <3>. QED
      BY <1>1, <3>1, <3>2
  <2>8. Chain(0)'
    BY <1>1, <1>2, <1>5, <2>6, <2>7 DEF Chain
  <2>. QED
    BY <1>5, <2>8
<1>6. CASE k # 0
  <2>1. k - 1 \in 0 .. Len(events) - 1 /\ k \in 1 .. Len(events) /\ ~events[k].append
    BY <1>1, <1>3, <1>6 DEF Chain
  <2>2. k - 1 # 0 => ~events'[k - 1].append
    BY <1>1, <2>1
  <2>3. k = 1 => /\ Begins(0)' = Begins(1) /\ Text(0)' = Text(1) /\ Reach(0)' = Reach(1)
                 /\ IsPiece(1)
    BY <1>1, <2>1 DEF Chain
  <2>4. \A i \in k - 1 .. Len(events) - 1 : IsPiece(i)' /\ Reach(i)' = Reach(i + 1)
    <3>. SUFFICES ASSUME NEW i \in k - 1 .. Len(events) - 1
                  PROVE  IsPiece(i)' /\ Reach(i)' = Reach(i + 1)
      OBVIOUS
    <3>1. CASE i = 0
      BY <1>2, <1>3, <2>1, <2>3, <3>1 DEF IsPiece
    <3>2. CASE i # 0
      <4>1. i \in 1 .. Len(events) - 1 /\ i + 1 \in k .. Len(events)
        BY <1>1, <2>1, <3>2
      <4>. QED
        BY <1>1, <1>4, <4>1 DEF Chain
    <3>. QED
      BY <3>1, <3>2
  <2>5. \A i \in k .. Len(events) - 1 : events'[i].append /\ Begins(i)' = Reach(i - 1)'
    <3>. SUFFICES ASSUME NEW i \in k .. Len(events) - 1
                  PROVE  events'[i].append /\ Begins(i)' = Reach(i - 1)'
      OBVIOUS
    <3>1. /\ i \in 1 .. Len(events) - 1 /\ i + 1 \in k + 1 .. Len(events)
          /\ i - 1 \in k - 1 .. Len(events) - 1 /\ (i - 1) + 1 = i /\ (i + 1) - 1 = i
      BY <1>1, <2>1
    <3>2. events[i + 1].append /\ Begins(i + 1) = Reach(i)
      BY <3>1 DEF Chain
    <3>. QED
      BY <1>1, <2>4, <3>1, <3>2
  <2>6. \A i \in k - 1 .. Len(events) - 1 : i = Len(events) - 1 => Reach(i)' = task.offset
    <3>. SUFFICES ASSUME Len(events) - 1 \in k - 1 .. Len(events) - 1, NEW i,
                         i = Len(events) - 1
                  PROVE  Reach(i)' = task.offset
      OBVIOUS
    <3>1. i + 1 = Len(events) /\ Len(events) \in k .. Len(events)
      BY <1>1, <2>1
    <3>. QED
      BY <2>4, <3>1 DEF Chain
  <2>7. Chain(k - 1)'
    BY <1>1, <1>2, <1>6, <2>1, <2>2, <2>4, <2>5, <2>6 DEF Chain
  <2>. QED
    BY <1>6, <2>7
<1>. QED
  BY <1>5, <1>6

LEMMA DeliverStep ==
  ASSUME LogBase, Unspoilt, ShownInv, Deliver
  PROVE  ShownInv'
<1>1. /\ UNCHANGED <<panel, reading, clearing, calls, task, size>> /\ Log' = Log
      /\ Tailed' <=> Tailed
  BY DEF Deliver, Log, Tailed, Incremental
<1>2. ASSUME Tailed PROVE Log \in Logs /\ task.offset \in Nat
  BY <1>2, TailedLog DEF Tailed
<1>3. Len(events) \in Nat \ {0} /\ Len(events') = Len(events) - 1
  BY DeliverShifts DEF LogBase
<1>4. ASSUME Tailed PROVE OnItsWay'
  <2>1. CASE Incremental(Log)
    <3>1. PICK k \in 0 .. Len(events) : Chain(k)
      BY <1>4, <2>1 DEF ShownInv, OnItsWay
    <3>2. Chain(IF k = 0 THEN 0 ELSE k - 1)'
      BY <1>2, <1>4, <3>1, DeliverChain
    <3>3. (IF k = 0 THEN 0 ELSE k - 1) \in 0 .. Len(events')
      BY <1>3
    <3>. QED
      BY <1>1, <2>1, <3>2, <3>3 DEF OnItsWay, Incremental
  <2>2. CASE ~Incremental(Log)
    <3>1. Snapshot
      BY <1>4, <2>2 DEF ShownInv, OnItsWay
    <3>2. PICK n : /\ n = Len(events) /\ (n # 0 => ~events[n].append)
                   /\ Begins(n) = NoAnchor /\ WasEnd(Text(n))
      BY <3>1 DEF Snapshot
    <3>3. PICK m : m = n - 1
      OBVIOUS
    <3>4. /\ \A i \in 1 .. Len(events) - 1 :
               events'[i] = events[i + 1] /\ Begins(i)' = Begins(i + 1) /\ Text(i)' = Text(i + 1)
          /\ ~events[1].append => Begins(0)' = Begins(1) /\ Text(0)' = Text(1)
      BY DeliverShifts DEF LogBase
    <3>5. /\ Begins(m)' = Begins(n) /\ Text(m)' = Text(n)
          /\ m # 0 => ~events'[m].append
      <4>1. CASE n = 1
        BY <3>2, <3>3, <3>4, <4>1
      <4>2. CASE n # 1
        <5>1. m \in 1 .. Len(events) - 1 /\ m + 1 = n /\ n # 0
          BY <1>3, <3>2, <3>3, <4>2
        <5>. QED
          BY <3>2, <3>4, <5>1
      <4>. QED
        BY <4>1, <4>2
    <3>6. WasEnd(Text(m))'
      BY <1>1, <3>2, <3>5 DEF WasEnd
    <3>7. m \in 0 .. Len(events') /\ m = Len(events')
      BY <1>3, <3>2, <3>3
    <3>8. Snapshot'
      BY <3>2, <3>5, <3>6, <3>7 DEF Snapshot, NoAnchor
    <3>. QED
      BY <1>1, <2>2, <3>8 DEF OnItsWay, Incremental
  <2>. QED
    BY <2>1, <2>2
<1>5. ASSUME panel.open, reading # NoRead PROVE ReadsBefore'
  <2>1. ReadsBefore
    BY <1>5 DEF ShownInv
  <2>2. ASSUME task.course = "sound" PROVE AsksBefore'
    <3>1. AsksBefore /\ Tailed
      BY <1>5, <2>1, <2>2 DEF ReadsBefore, Tailed
    <3>2. Chain(0)'
      BY <1>2, <3>1, DeliverChain DEF AsksBefore
    <3>3. events[1].append
      BY <1>3, <3>1 DEF AsksBefore, Chain
    <3>4. oldest' = oldest
      BY <3>3, DeliverShifts DEF LogBase, Begins
    <3>. QED
      BY <1>1, <3>1, <3>2, <3>4 DEF AsksBefore
  <2>. QED
    BY <1>1, <2>1, <2>2 DEF ReadsBefore, Incremental
<1>. QED
  BY <1>1, <1>4, <1>5 DEF ShownInv, NoRead

\* A poll adds its chunk behind the others.
LEMMA PollAppends ==
  ASSUME LogBase, Poll, events' = Append(events, Chunk)
  PROVE  /\ Len(events) \in Nat /\ Len(events') = Len(events) + 1
         /\ \A i \in 1 .. Len(events) : events'[i] = events[i]
         /\ \A i \in 0 .. Len(events) :
              Begins(i)' = Begins(i) /\ Text(i)' = Text(i) /\ Reach(i)' = Reach(i)
         /\ \A i : i = Len(events) + 1 =>
              /\ events'[i] = Chunk /\ Begins(i)' = Chunk.startOffset
              /\ Text(i)' = Chunk.data
              /\ Reach(i)' = Chunk.startOffset + Len(Chunk.data)
<1>1. events \in Seq(Chunks) /\ Chunk \in Chunks /\ UNCHANGED <<content, oldest>>
  BY PollSends DEF LogBase, ScreenType
<1>2. Len(events) \in Nat
  BY <1>1, LenProperties
<1>. HIDE DEF Chunk, Chunks
<1>3. /\ Len(events') = Len(events) + 1
      /\ \A i \in 1 .. Len(events) : events'[i] = events[i]
      /\ events'[Len(events) + 1] = Chunk
  BY <1>1, AppendProperties
<1>4. \A i \in 0 .. Len(events) :
        Begins(i)' = Begins(i) /\ Text(i)' = Text(i) /\ Reach(i)' = Reach(i)
  BY <1>1, <1>2, <1>3 DEF Begins, Text, Reach
<1>5. \A i : i = Len(events) + 1 =>
        /\ events'[i] = Chunk /\ Begins(i)' = Chunk.startOffset
        /\ Text(i)' = Chunk.data
        /\ Reach(i)' = Chunk.startOffset + Len(Chunk.data)
  BY <1>2, <1>3 DEF Begins, Text, Reach
<1>. QED
  BY <1>2, <1>3, <1>4, <1>5

\* A later poll continues the chain, whatever it begins with.
LEMMA PollChain ==
  ASSUME LogBase, Poll, Incremental(Log), task.log = Log, ~task.first,
         task.course = "sound", task'.course = "sound", NEW k, Chain(k)
  PROVE  Chain(k)'
<1>1. /\ Log \in Logs /\ size \in [Logs -> Nat] /\ task.offset \in Nat
      /\ task'.offset = size[Log] /\ UNCHANGED <<panel, content, oldest, size>> /\ Log' = Log
      /\ events' = IF Chunk.append /\ Chunk.data = <<>> THEN events ELSE Append(events, Chunk)
  BY PollSends DEF LogBase, ScreenType, NextOffset, Log
<1>2. size[Log] \in Nat /\ TailLength \in Nat
  BY <1>1, LogAssumption
<1>3. task.offset <= size[Log] /\ size[Log] <= task.offset + TailLength /\ k \in 0 .. Len(events)
  <2>1. ~Skips(Log, task.offset)
    BY PollSends DEF LogBase
  <2>. QED
    BY <1>1, <1>2, <2>1 DEF Chain, Skips
<1>4. TailFrom(Log, task.offset) = task.offset
  BY <1>1, <1>2, <1>3 DEF TailFrom, Smaller
<1>5. /\ Chunk.append /\ Chunk.startOffset = task.offset
      /\ Chunk.data = Bytes(Log, task.offset, size[Log])
  BY <1>4 DEF Chunk, Read, Offset
<1>6. Chunk.data \in Seq(Byte) /\ Len(Chunk.data) = size[Log] - task.offset
  <2>1. task.offset \in Int /\ size[Log] \in Int
    BY <1>1, <1>2
  <2>2. /\ Bytes(Log, task.offset, size[Log]) \in Seq(Byte)
        /\ Len(Bytes(Log, task.offset, size[Log])) = size[Log] - task.offset
    BY <1>1, <1>3, <2>1, BytesMeans
  <2>. QED
    BY <1>5, <2>2
<1>7. CASE Chunk.data = <<>>
  <2>1. task'.offset = task.offset /\ events' = events
    <3>1. Len(Chunk.data) = 0
      BY <1>7, <1>6, EmptySeq
    <3>. QED
      BY <1>1, <1>2, <1>5, <1>6, <1>7, <3>1
  <2>. QED
    BY <1>1, <2>1 DEF Chain, IsPiece, Begins, Text, Reach, Log
<1>8. CASE Chunk.data # <<>>
  <2>1. events' = Append(events, Chunk)
    BY <1>1, <1>8
  <2>2. /\ Len(events) \in Nat /\ Len(events') = Len(events) + 1
        /\ \A i \in 1 .. Len(events) : events'[i] = events[i]
        /\ \A i \in 0 .. Len(events) :
             Begins(i)' = Begins(i) /\ Text(i)' = Text(i) /\ Reach(i)' = Reach(i)
        /\ \A i : i = Len(events) + 1 =>
             /\ events'[i] = Chunk /\ Begins(i)' = Chunk.startOffset
             /\ Text(i)' = Chunk.data
             /\ Reach(i)' = Chunk.startOffset + Len(Chunk.data)
    BY <2>1, PollAppends
  <2>3. \A i \in k .. Len(events) :
          IsPiece(i) /\ Reach(i) \in Int /\ (i = Len(events) => Reach(i) = task.offset)
    BY <1>3, <2>2, PieceTypes DEF Chain, LogBase
  <2>4. ASSUME NEW i \in k .. Len(events) PROVE IsPiece(i)'
    <3>1. i \in 0 .. Len(events) /\ IsPiece(i) /\ Reach(i) <= task.offset /\ Reach(i) \in Int
      BY <1>3, <2>2, <2>3, <2>4 DEF IsPiece
    <3>2. Reach(i) <= size[Log]
      BY <1>1, <1>2, <1>3, <3>1
    <3>. QED
      BY <1>1, <2>2, <3>1, <3>2 DEF IsPiece
  <2>5. ASSUME NEW i, i = Len(events) + 1
        PROVE  IsPiece(i)' /\ Reach(i)' = task'.offset /\ events'[i].append
    <3>1. Reach(i)' = size[Log] /\ Begins(i)' = task.offset
      BY <1>1, <1>2, <1>5, <1>6, <2>2, <2>5
    <3>. QED
      BY <1>1, <1>2, <1>5, <2>2, <2>5, <3>1 DEF IsPiece
  <2>6. ASSUME NEW i \in k + 1 .. Len(events)
        PROVE  events'[i].append /\ Begins(i)' = Reach(i - 1)'
    <3>1. i \in 1 .. Len(events) /\ i \in 0 .. Len(events) /\ i - 1 \in 0 .. Len(events)
      BY <1>3, <2>2, <2>6
    <3>. QED
      BY <2>2, <2>6, <3>1 DEF Chain
  <2>7. ASSUME NEW i, i = Len(events) + 1 PROVE Begins(i)' = Reach(i - 1)'
    <3>1. i - 1 = Len(events) /\ i - 1 \in 0 .. Len(events) /\ i - 1 \in k .. Len(events)
      BY <1>3, <2>2, <2>7
    <3>2. Reach(i - 1)' = task.offset
      BY <2>2, <2>3, <3>1
    <3>. QED
      BY <1>5, <2>2, <2>7, <3>2
  <2>8. \A i \in k .. Len(events') :
          IsPiece(i)' /\ (i = Len(events') => Reach(i)' = task'.offset)
    <3>1. \A i \in k .. Len(events') : i \in k .. Len(events) \/ i = Len(events) + 1
      BY <1>3, <2>2
    <3>2. \A i \in k .. Len(events) : i # Len(events')
      BY <1>3, <2>2
    <3>. QED
      BY <2>4, <2>5, <3>1, <3>2
  <2>9. \A i \in k + 1 .. Len(events') : events'[i].append /\ Begins(i)' = Reach(i - 1)'
    <3>1. \A i \in k + 1 .. Len(events') : i \in k + 1 .. Len(events) \/ i = Len(events) + 1
      BY <1>3, <2>2
    <3>. QED
      BY <2>5, <2>6, <2>7, <3>1
  <2>10. k \in 0 .. Len(events') /\ (k # 0 => ~events'[k].append)
    <3>1. k # 0 => k \in 1 .. Len(events) /\ ~events[k].append
      BY <1>3, <2>2 DEF Chain
    <3>. QED
      BY <1>3, <2>2, <3>1
  <2>11. task'.offset <= size'[Log']
    BY <1>1, <1>2
  <2>. QED
    BY <2>8, <2>9, <2>10, <2>11 DEF Chain
<1>. QED
  BY <1>7, <1>8

\* The first poll of a task with offsets begins a new chain.
LEMMA FirstPollChain ==
  ASSUME LogBase, Poll, Incremental(Log), task.log = Log, task.first
  PROVE  OnItsWay'
<1>1. /\ Log \in Logs /\ size \in [Logs -> Nat] /\ task.offset \in Nat
      /\ task'.offset = size[Log] /\ UNCHANGED <<panel, content, oldest, size>> /\ Log' = Log
      /\ ~Chunk.append /\ events' = Append(events, Chunk)
  BY PollSends DEF LogBase, ScreenType, NextOffset, Log, Chunk
<1>2. size[Log] \in Nat /\ TailLength \in Nat
  BY <1>1, LogAssumption
<1>3. TailFrom(Log, task.offset) \in 0 .. size[Log]
  BY <1>1, PollReads
<1>4. /\ Chunk.startOffset = TailFrom(Log, task.offset)
      /\ Chunk.data = Bytes(Log, TailFrom(Log, task.offset), size[Log])
  BY DEF Chunk, Read, Offset
<1>5. Len(Chunk.data) = size[Log] - TailFrom(Log, task.offset)
  BY <1>1, <1>2, <1>3, <1>4, BytesMeans
<1>6. /\ Len(events) \in Nat /\ Len(events') = Len(events) + 1
      /\ \A i : i = Len(events) + 1 =>
           /\ events'[i] = Chunk /\ Begins(i)' = Chunk.startOffset
           /\ Text(i)' = Chunk.data
           /\ Reach(i)' = Chunk.startOffset + Len(Chunk.data)
  BY <1>1, PollAppends
<1>7. PICK k : k = Len(events) + 1
  OBVIOUS
<1>8. k \in 0 .. Len(events') /\ ~events'[k].append /\ k = Len(events') /\ k \in Nat
  BY <1>1, <1>6, <1>7
<1>9. Reach(k)' = size[Log]
  BY <1>2, <1>3, <1>4, <1>5, <1>6, <1>7
<1>10. IsPiece(k)'
  BY <1>1, <1>2, <1>3, <1>4, <1>6, <1>7, <1>9 DEF IsPiece
<1>11. Chain(k)'
  <2>1. \A i \in k .. Len(events') : i = k
    BY <1>8
  <2>2. \A i \in k + 1 .. Len(events') : FALSE
    BY <1>8
  <2>3. task'.offset <= size'[Log']
    BY <1>1, <1>2
  <2>. QED
    BY <1>1, <1>8, <1>9, <1>10, <2>1, <2>2, <2>3 DEF Chain
<1>. QED
  BY <1>1, <1>8, <1>11 DEF OnItsWay, Incremental

\* A poll of a log without offsets sends its end.
LEMMA PollSnapshot ==
  ASSUME LogBase, Poll, ~Incremental(Log), task.log = Log
  PROVE  OnItsWay'
<1>1. /\ Log \in Logs /\ size \in [Logs -> Nat]
      /\ UNCHANGED <<panel, size>> /\ Log' = Log
      /\ ~Chunk.append /\ events' = Append(events, Chunk)
  BY PollSends DEF LogBase, ScreenType, Log, Chunk
<1>2. size[Log] \in Nat /\ TailLength \in Nat /\ size[Log] \in 0 .. MaxSize
  BY <1>1, LogAssumption DEF LogBase, ScreenType
<1>3. TailFrom(Log, 0) = Greater(0, size[Log] - TailLength)
  BY <1>2 DEF TailFrom, Greater, Smaller
<1>4. /\ Chunk.startOffset = NoAnchor
      /\ Chunk.data = Bytes(Log, Greater(0, size[Log] - TailLength), size[Log])
  BY <1>3 DEF Chunk, Read, Offset
<1>5. /\ Len(events) \in Nat /\ Len(events') = Len(events) + 1
      /\ \A i : i = Len(events) + 1 =>
           /\ events'[i] = Chunk /\ Begins(i)' = Chunk.startOffset
           /\ Text(i)' = Chunk.data
  BY <1>1, PollAppends
<1>6. PICK k : k = Len(events) + 1
  OBVIOUS
<1>7. k \in 0 .. Len(events') /\ k = Len(events') /\ ~events'[k].append
      /\ Begins(k)' = NoAnchor /\ Text(k)' = Chunk.data
  BY <1>1, <1>4, <1>5, <1>6
<1>8. WasEnd(Text(k))'
  BY <1>1, <1>2, <1>4, <1>7 DEF WasEnd
<1>9. Snapshot'
  BY <1>7, <1>8 DEF Snapshot, NoAnchor
<1>. QED
  BY <1>1, <1>9 DEF OnItsWay, Incremental

LEMMA PollStep ==
  ASSUME LogBase, Unspoilt, ShownInv, Poll
  PROVE  ShownInv'
<1>1. /\ UNCHANGED <<panel, oldest, reading, clearing, calls, size>> /\ Log' = Log
      /\ task # NoTask /\ task.first \in BOOLEAN /\ ~task'.first
      /\ ~task.first /\ task'.course = "sound" => task.course = "sound"
  BY PollSends DEF LogBase, Log
<1>2. ASSUME Tailed' PROVE OnItsWay'
  <2>1. panel.open /\ calls = <<>> /\ task # NoTask
    BY <1>1, <1>2 DEF Tailed
  <2>2. task.log = Log
    BY <2>1, TailedLog
  <2>3. CASE ~Incremental(Log)
    BY <2>2, <2>3, PollSnapshot
  <2>4. CASE Incremental(Log) /\ task.first
    BY <2>2, <2>4, FirstPollChain
  <2>5. CASE Incremental(Log) /\ ~task.first
    <3>1. task'.course = "sound" /\ task.course = "sound" /\ Tailed
      BY <1>1, <1>2, <2>1, <2>5 DEF Tailed, Incremental
    <3>2. PICK k \in 0 .. Len(events) : Chain(k)
      BY <2>5, <3>1 DEF ShownInv, OnItsWay
    <3>3. Chain(k)'
      BY <2>2, <2>5, <3>1, <3>2, PollChain
    <3>4. k \in 0 .. Len(events')
      BY <3>3 DEF Chain
    <3>. QED
      BY <1>1, <2>5, <3>3, <3>4 DEF OnItsWay, Incremental
  <2>. QED
    BY <2>3, <2>4, <2>5
<1>3. ASSUME panel.open, reading # NoRead PROVE ReadsBefore'
  <2>1. ReadsBefore
    BY <1>3 DEF ShownInv
  <2>2. ASSUME task'.course = "sound" PROVE AsksBefore'
    <3>1. task.course = "sound" /\ AsksBefore /\ task.log = Log /\ Incremental(Log)
      BY <1>1, <1>3, <2>1, <2>2, TailedLog DEF ReadsBefore
    <3>2. Chain(0)'
      BY <2>1, <2>2, <3>1, PollChain DEF ReadsBefore, AsksBefore
    <3>. QED
      BY <1>1, <3>1, <3>2 DEF AsksBefore
  <2>3. task' # NoTask
    BY PollKeeps, NoTaskIsNone DEF LogBase
  <2>. QED
    BY <1>1, <2>1, <2>2, <2>3 DEF ReadsBefore, Incremental
<1>. QED
  BY <1>1, <1>2, <1>3 DEF ShownInv, NoRead

\* Logs grow, or are emptied: a chain ends where the task ends, and a task that
\* has read of a log that is emptied is no longer sound.
LEMMA SizeStep ==
  ASSUME LogBase, Unspoilt, ShownInv,
         UNCHANGED <<panel, content, oldest, reading, calls, events>>,
         task' = task \/ (task' # NoTask /\ task # NoTask /\ task'.course = "cut"
                            /\ task'.log = task.log /\ task'.first = task.first),
         task' = task /\ Tailed /\ Incremental(Log) => task.offset <= size'[Log]
  PROVE  ShownInv'
<1>1. Log' = Log /\ (Incremental(Log)' <=> Incremental(Log))
  BY DEF Log, Incremental
<1>2. ASSUME task' = task, Tailed, Incremental(Log), NEW k, Chain(k) PROVE Chain(k)'
  BY <1>1, <1>2 DEF Chain, IsPiece, Begins, Text, Reach
<1>3. Tailed' => Tailed /\ (Incremental(Log) => task' = task)
  BY <1>1 DEF Tailed
<1>4. ASSUME Tailed' PROVE OnItsWay'
  <2>1. CASE Incremental(Log)
    BY <1>1, <1>2, <1>3, <1>4, <2>1 DEF ShownInv, OnItsWay
  <2>2. CASE ~Incremental(Log)
    <3>1. Snapshot
      BY <1>3, <1>4, <2>2 DEF ShownInv, OnItsWay
    <3>2. Snapshot'
      BY <3>1 DEF Snapshot, WasEnd, Begins, Text, Log
    <3>. QED
      BY <1>1, <2>2, <3>2 DEF OnItsWay
  <2>. QED
    BY <2>1, <2>2
<1>5. ASSUME panel.open, reading # NoRead PROVE ReadsBefore'
  <2>1. ReadsBefore
    BY <1>5 DEF ShownInv
  <2>2. ASSUME task'.course = "sound" PROVE AsksBefore'
    <3>1. task' = task /\ AsksBefore /\ Tailed /\ Incremental(Log)
      BY <1>5, <2>1, <2>2 DEF ReadsBefore, Tailed
    <3>2. Chain(0)'
      BY <1>2, <3>1 DEF AsksBefore
    <3>. QED
      BY <1>1, <3>1, <3>2 DEF AsksBefore
  <2>. QED
    BY <1>1, <2>1, <2>2 DEF ReadsBefore
<1>. QED
  BY <1>4, <1>5 DEF ShownInv, NoRead

LEMMA GrowStep ==
  ASSUME LogBase, Unspoilt, ShownInv, NEW grown \in Logs, Grow(grown)
  PROVE  ShownInv'
<1>1. /\ UNCHANGED <<panel, content, oldest, reading, calls, task, events>>
      /\ size' = [size EXCEPT ![grown] = @ + 1] /\ size \in [Logs -> Nat]
  BY DEF Grow, LogBase, ScreenType
<1>2. ASSUME Tailed, Incremental(Log) PROVE task.offset <= size'[Log]
  <2>1. Log \in Logs /\ task.offset \in Nat /\ task.offset <= size[Log]
    BY <1>2, TailedLog DEF Tailed, ShownInv, OnItsWay, Chain
  <2>. QED
    BY <1>1, <2>1
<1>. QED
  BY <1>1, <1>2, SizeStep

LEMMA EmptiesStep ==
  ASSUME LogBase, Unspoilt, ShownInv, ClearLog \/ \E log \in Logs : Rotate(log)
  PROVE  ShownInv'
<1>1. UNCHANGED <<panel, content, oldest, reading, calls, events>>
  BY DEF ClearLog, Rotate
<1>2. PICK logs : Empties(logs)
  BY DEF ClearLog, Rotate
<1>3. ASSUME task' = task, Tailed, Incremental(Log) PROVE task.offset <= size'[Log]
  <2>1. /\ Log \in Logs /\ task.log = Log /\ task.offset \in Nat /\ task.offset <= size[Log]
    BY <1>3, TailedLog DEF Tailed, ShownInv, OnItsWay, Chain
  <2>2. task # NoTask /\ task.course = "sound"
    BY <1>3 DEF Tailed
  <2>3. /\ size'[Log] = IF Log \in logs THEN 0 ELSE size[Log]
        /\ Log \notin logs \/ ~(task.offset > 0)
    BY <1>2, <1>3, <2>1, <2>2, EmptiesKeeps DEF LogBase
  <2>. QED
    BY <2>1, <2>3
<1>4. task' = task \/ (task' # NoTask /\ task # NoTask /\ task'.course = "cut"
                         /\ task'.log = task.log /\ task'.first = task.first)
  BY <1>2, EmptiesKeeps DEF LogBase, Empties
<1>. QED
  BY <1>1, <1>3, <1>4, SizeStep

\* Older bytes are asked for when the panel shows a part of its log.
LEMMA LoadOlderStep ==
  ASSUME LogBase, Unspoilt', ShownInv, LoadOlder
  PROVE  ShownInv'
<1>1. /\ UNCHANGED <<panel, content, oldest, clearing, calls, task, events, size>>
      /\ reading' = OlderWindow /\ oldest > 0 /\ oldest \in Int /\ Log' = Log
      /\ Tailed' <=> Tailed
  BY DEF LoadOlder, CanScrollBack, LogBase, ScreenType, Log, Tailed, Incremental
<1>2. Unspoilt /\ Settled
  BY MishapsGrow DEF LoadOlder, Risks, Unspoilt, Without, LogBase, LogNext, User
<1>3. Len(events) \in Nat /\ \A i \in 1 .. Len(events) : events[i].append
  BY <1>2, LenProperties DEF Settled, LogBase, ScreenType
<1>4. Incremental(Log)
  <2>. SUFFICES ASSUME ~Incremental(Log) PROVE FALSE
    OBVIOUS
  <2>1. Snapshot
    BY <1>2 DEF Settled, Tailed, ShownInv, OnItsWay
  <2>2. Len(events) = 0 /\ oldest = NoAnchor
    BY <1>3, <2>1 DEF Snapshot, Begins
  <2>. QED
    BY <1>1, <2>2 DEF NoAnchor
<1>5. ASSUME task.course = "sound" PROVE AsksBefore'
  <2>1. PICK k \in 0 .. Len(events) : Chain(k)
    BY <1>2, <1>4, <1>5 DEF Settled, Tailed, ShownInv, OnItsWay
  <2>2. k = 0
    BY <1>3, <2>1 DEF Chain
  <2>3. Chain(0)'
    BY <1>1, <2>1, <2>2, ChainFrame
  <2>4. /\ reading'.log = Log /\ reading'.start \in Nat /\ reading'.length \in Nat
        /\ reading'.start + reading'.length = oldest
    BY <1>1, LogAssumption DEF OlderWindow, Greater
  <2>. QED
    BY <1>1, <2>3, <2>4 DEF AsksBefore
<1>6. ReadsBefore'
  BY <1>1, <1>2, <1>4, <1>5 DEF Settled, ReadsBefore, Incremental
<1>7. Tailed => OnItsWay'
  BY <1>1, <1>2, OnItsWayFrame DEF ShownInv
<1>. QED
  BY <1>1, <1>6, <1>7 DEF ShownInv

\* Nothing on screen, on its way or in the backend changes, and no request for
\* older bytes begins.
LEMMA QuietStep ==
  ASSUME Unspoilt, ShownInv, UNCHANGED <<panel, content, oldest, calls, events, task, size>>,
         reading' = NoRead \/ reading' = reading
  PROVE  ShownInv'
<1>1. (OnItsWay' <=> OnItsWay) /\ (Chain(0)' <=> Chain(0)) /\ (Tailed' <=> Tailed)
  BY OnItsWayFrame, ChainFrame DEF Tailed, Log, Incremental
<1>2. reading' = reading => (ReadsBefore' <=> ReadsBefore)
  BY <1>1 DEF ReadsBefore, AsksBefore, Log, Incremental
<1>. QED
  BY <1>1, <1>2 DEF ShownInv, NoRead

\* The other steps lose no chunk, or the log is no longer tailed after them.
LEMMA ShownStep == LogBase /\ ShownInv /\ [LogNext]_logVars => ShownInv'
<1>. SUFFICES ASSUME LogBase, ShownInv, [LogNext]_logVars, Unspoilt'
              PROVE  ShownInv'
  BY DEF ShownInv
<1>1. Unspoilt
  BY MishapsGrow DEF Unspoilt, Without, LogBase
<1>2. panel.open /\ reading # NoRead => calls = <<>>
  BY <1>1 DEF ShownInv, ReadsBefore
<1>3. "overtaken" \notin mishaps'
  BY DEF Unspoilt, Without
<1>4. ASSUME NEW p \in Processes, Open(p) PROVE ShownInv'
  <2>. DEFINE log == <<p, panel.channel>>
              new == <<Start(log)>> \o IF p = panel.process THEN <<>> ELSE Restart(log)
  <2>1. reading' = NoRead
    BY <1>3, <1>4 DEF Open, Risks
  <2>2. /\ new \in Seq(CallRecords) /\ new # <<>> /\ calls' = calls \o new
    BY <1>4, OpenEmits DEF Open, Emits, LogBase
  <2>3. calls' # <<>>
    <3>. HIDE DEF new
    <3>. QED
      BY <2>2, LastOfConcat DEF LogBase, WireType
  <2>. QED
    BY <2>1, <2>3, NotTailed DEF Tailed
<1>5. ASSUME NEW ch \in Channels, SwitchChannel(ch) PROVE ShownInv'
  <2>1. reading' = NoRead
    BY <1>3, <1>5 DEF SwitchChannel, Risks
  <2>2. <<panel.process, ch>> \in Logs
    BY <1>5 DEF SwitchChannel, LogBase, WireType, Logs
  <2>3. calls' # <<>>
    <3>1. calls' = calls \o Restart(<<panel.process, ch>>)
      BY <1>5 DEF SwitchChannel, Emits
    <3>. QED
      BY <2>2, <3>1, RestartTyped, LastOfConcat DEF LogBase, WireType
  <2>. QED
    BY <2>1, <2>3, NotTailed DEF Tailed
<1>6. CASE Close
  <2>1. ~panel'.open
    BY <1>6 DEF Close, LogBase, WireType
  <2>. QED
    BY <2>1, NotTailed DEF Tailed
<1>7. CASE ClearReturns
  <2>1. reading' = NoRead
    BY <1>3, <1>7 DEF ClearReturns, Risks
  <2>2. Log \in Logs
    BY <1>7 DEF ClearReturns, LogBase, WireType, Log, Logs
  <2>3. calls' # <<>>
    BY <1>7, <2>2, RestartTyped, LastOfConcat DEF ClearReturns, Emits, LogBase, WireType
  <2>. QED
    BY <2>1, <2>3, NotTailed DEF Tailed
<1>8. ASSUME ClearLog \/ \E log \in Logs : Rotate(log) PROVE ShownInv'
  BY <1>1, <1>8, EmptiesStep
<1>9. CASE Command
  <2>1. PICK i \in DOMAIN calls : rt_log_start(i) \/ rt_log_stop(i)
    BY <1>9 DEF Command
  <2>2. calls # <<>> /\ UNCHANGED <<panel, reading>>
    <3>1. DOMAIN calls # {}
      BY <2>1
    <3>2. DOMAIN <<>> = {}
      OBVIOUS
    <3>. QED
      BY <2>1, <3>1, <3>2 DEF rt_log_start, rt_log_stop, Execute
  <2>3. task' = NoTask \/ task'.first
    BY <2>1 DEF rt_log_start, rt_log_stop, NewTask
  <2>. QED
    BY <1>2, <2>2, <2>3, NotTailed DEF Tailed
<1>10. CASE AskClear \/ ClearFails \/ OlderFails \/ UNCHANGED logVars
  <2>1. /\ UNCHANGED <<panel, content, oldest, calls, events, task, size>>
        /\ reading' = NoRead \/ reading' = reading
    BY <1>10 DEF AskClear, ClearFails, OlderFails, logVars
  <2>. QED
    BY <1>1, <2>1, QuietStep
<1>11. CASE OlderArrives
  BY <1>1, <1>11, OlderStep
<1>12. CASE Deliver
  BY <1>1, <1>12, DeliverStep
<1>13. CASE Poll
  BY <1>1, <1>13, PollStep
<1>14. CASE LoadOlder
  BY <1>14, LoadOlderStep
<1>15. ASSUME NEW log \in Logs, Grow(log) PROVE ShownInv'
  BY <1>1, <1>15, GrowStep
<1>. QED
  BY <1>4, <1>5, <1>6, <1>7, <1>8, <1>9, <1>10, <1>11, <1>12, <1>13, <1>14, <1>15
  DEF LogNext, User, Answer

\* ShownInv is inductive on the types of the screen, the wire and the chunks.
THEOREM ScreenInvariant == LogSpec => [](LogBase /\ ShownInv)
<1>1. LogInit => LogBase /\ ShownInv
  <2>. SUFFICES ASSUME LogInit PROVE LogBase /\ ShownInv
    OBVIOUS
  <2>1. WireType /\ Follows
    BY WireFollowsInit
  <2>2. ScreenType
    BY LogAssumption DEF LogInit, ScreenType, NoAnchor
  <2>3. ~panel.open /\ reading = NoRead
    BY DEF LogInit
  <2>. QED
    BY <2>1, <2>2, <2>3 DEF LogBase, ShownInv, Tailed
<1>2. LogBase /\ ShownInv /\ [LogNext]_logVars => (LogBase /\ ShownInv)'
  BY WireTypeStep, ScreenTypeStep, FollowsStep, ShownStep DEF LogBase
<1>. QED
  BY <1>1, <1>2, PTL DEF LogSpec

\* onChunk, loadOlder and process_log_loop: whenever no call and no chunk is in
\* flight, the panel shows its log from the anchor to the offset of a task that
\* lost nothing, or what was the end of a log without offsets.
THEOREM ScreenShowsTheLog == LogSpec => []ShowsTheLog
<1>1. LogBase /\ ShownInv => ShowsTheLog
  <2>. SUFFICES ASSUME LogBase, ShownInv, Unspoilt, Settled, events = <<>>
                PROVE  IF Incremental(Log)
                       THEN task.course = "sound" => content = Bytes(Log, oldest, task.offset)
                       ELSE \E end \in 0..MaxSize :
                              content = Bytes(Log, Greater(0, end - TailLength), end)
    BY DEF ShowsTheLog, Unspoilt
  <2>1. Len(events) = 0
    BY EmptySeq
  <2>2. ASSUME Incremental(Log), task.course = "sound"
        PROVE  content = Bytes(Log, oldest, task.offset)
    <3>1. Chain(0)
      BY <2>1, <2>2 DEF Settled, Tailed, ShownInv, OnItsWay
    <3>2. IsPiece(0) /\ Reach(0) = task.offset
      BY <2>1, <3>1 DEF Chain
    <3>. QED
      BY <3>2 DEF IsPiece, Begins, Text
  <2>3. ASSUME ~Incremental(Log)
        PROVE  \E end \in 0..MaxSize :
                 content = Bytes(Log, Greater(0, end - TailLength), end)
    <3>1. WasEnd(Text(0))
      BY <2>1, <2>3 DEF Settled, Tailed, ShownInv, OnItsWay, Snapshot
    <3>. QED
      BY <3>1 DEF WasEnd, Text
  <2>. QED
    BY <2>2, <2>3
<1>. QED
  BY <1>1, ScreenInvariant, PTL

-----------------------------------------------------------------------------
(* Types.  The screen shows positions that logs have: what a log answers with *)
(* ends where it ends, whatever window or offset it was asked for.          *)

Anchors == {NoAnchor} \cup 0..MaxSize
ScreenChunks == [data : Seq(ScreenBytes), append : BOOLEAN, startOffset : Anchors]
Windows == [log : Logs, start : 0..MaxSize, length : 1..MaxSize]

Limits ==
  /\ content \in Seq(ScreenBytes) /\ oldest \in Anchors
  /\ events \in Seq(ScreenChunks)
  /\ reading # NoRead => reading \in Windows
  /\ size \in [Logs -> 0..MaxSize]
  /\ task # NoTask => task.offset \in 0..MaxSize
  /\ mishaps \subseteq Mishaps

LEMMA BytesWithin ==
  ASSUME NEW log \in Logs, NEW from \in Nat, NEW to \in 0..MaxSize
  PROVE  Bytes(log, from, to) \in Seq(ScreenBytes)
<1>0. MaxSize \in Nat
  BY LogAssumption
<1>1. \A i \in 1..(to - from) : <<log, from + i - 1>> \in ScreenBytes
  BY <1>0 DEF ScreenBytes
<1>2. Bytes(log, from, to) \in [1..(to - from) -> ScreenBytes]
  BY <1>1 DEF Bytes
<1>3. CASE from <= to
  <2>1. to - from \in Nat
    BY <1>0, <1>3
  <2>. QED
    BY <1>2, <2>1, SeqDef
<1>4. CASE ~(from <= to)
  <2>1. 1..(to - from) = 1..0 /\ 0 \in Nat
    BY <1>0, <1>4
  <2>2. Bytes(log, from, to) \in [1..0 -> ScreenBytes]
    BY <1>2, <2>1
  <2>. QED
    BY <2>1, <2>2, SeqDef
<1>. QED
  BY <1>3, <1>4

LEMMA PollWithin ==
  ASSUME WireType, ScreenType, Limits, Poll
  PROVE  Chunk \in ScreenChunks /\ task'.offset \in 0..MaxSize
<1>0. MaxSize \in Nat
  BY LogAssumption
<1>1. /\ task # NoTask /\ task.log \in Logs /\ task.offset \in Nat /\ task.first \in BOOLEAN
      /\ task'.offset = NextOffset(task.log, task.offset)
  BY PollSends
<1>2. size \in [Logs -> Nat] /\ size[task.log] \in 0..MaxSize /\ Offset \in Nat
  BY <1>1 DEF ScreenType, Limits, Offset
<1>3. /\ TailFrom(task.log, Offset) \in 0..size[task.log]
      /\ TailFrom(task.log, task.offset) \in 0..size[task.log]
  BY <1>1, <1>2, PollReads
<1>4. Read \in Seq(ScreenBytes)
  BY <1>0, <1>1, <1>2, <1>3, BytesWithin DEF Read
<1>5. TailFrom(task.log, task.offset) \in Anchors /\ NoAnchor \in Anchors
  BY <1>0, <1>2, <1>3 DEF Anchors
<1>6. (Incremental(task.log) /\ ~task.first) \in BOOLEAN
  BY DEF Incremental
<1>7. Chunk \in ScreenChunks
  BY <1>4, <1>5, <1>6 DEF Chunk, ScreenChunks
<1>8. task'.offset \in 0..MaxSize
  BY <1>0, <1>1, <1>2 DEF NextOffset
<1>. QED
  BY <1>7, <1>8

LEMMA LimitsStep == WireType /\ ScreenType /\ Limits /\ [LogNext]_logVars => Limits'
<1>. SUFFICES ASSUME WireType, ScreenType, Limits, [LogNext]_logVars PROVE Limits'
  OBVIOUS
<1>0. /\ NoAnchor \in Anchors /\ <<>> \in Seq(ScreenBytes)
      /\ MaxSize \in Nat /\ Window \in Nat \ {0} /\ Faults \subseteq Mishaps
  BY LogAssumption DEF Anchors
<1>m. ASSUME NEW kind, NEW condition, Risks(kind, condition) PROVE mishaps' \subseteq Mishaps
  BY <1>0, <1>m DEF Risks, Limits
<1>1. panel.open \/ clearing # NoClear => Log \in Logs
  BY DEF WireType, Log, Logs
<1>2. ASSUME NEW p \in Processes, Open(p) PROVE Limits'
  BY <1>0, <1>2, <1>m DEF Open, Emptied, Limits
<1>3. ASSUME NEW ch \in Channels, SwitchChannel(ch) PROVE Limits'
  BY <1>0, <1>3, <1>m DEF SwitchChannel, Emptied, Limits
<1>4. CASE Close
  BY <1>4, <1>m DEF Close, Limits
<1>5. CASE AskClear \/ OlderFails \/ ClearFails \/ UNCHANGED logVars
  BY <1>5 DEF AskClear, OlderFails, ClearFails, logVars, Limits
<1>6. CASE LoadOlder
  <2>1. oldest \in 1..MaxSize /\ Log \in Logs
    BY <1>0, <1>1, <1>6 DEF LoadOlder, CanScrollBack, Limits, Anchors, NoAnchor
  <2>2. /\ Greater(0, oldest - Window) \in 0..MaxSize
        /\ oldest - Greater(0, oldest - Window) \in 1..MaxSize
    BY <1>0, <2>1 DEF Greater
  <2>3. OlderWindow \in Windows
    BY <2>1, <2>2 DEF OlderWindow, Windows
  <2>. QED
    BY <1>6, <2>3, <1>m DEF LoadOlder, Limits
<1>7. CASE OlderArrives
  <2>1. /\ reading \in Windows /\ size[reading.log] \in 0..MaxSize
        /\ reading.log \in Logs /\ reading.start \in 0..MaxSize /\ reading.length \in Nat
    BY <1>7 DEF OlderArrives, Limits, Windows
  <2>. DEFINE end == Smaller(reading.start + reading.length, size[reading.log])
  <2>2. end \in 0..MaxSize
    BY <1>0, <2>1 DEF Smaller
  <2>. HIDE DEF end
  <2>3. Bytes(reading.log, reading.start, end) \in Seq(ScreenBytes)
    BY <1>0, <2>1, <2>2, BytesWithin
  <2>4. content' = Bytes(reading.log, reading.start, end) \o content
    BY <1>7 DEF OlderArrives, end
  <2>5. content' \in Seq(ScreenBytes)
    BY <2>3, <2>4, ConcatProperties DEF Limits
  <2>6. oldest' \in Anchors
    BY <1>7, <2>1 DEF OlderArrives, Anchors
  <2>. QED
    BY <1>7, <2>5, <2>6 DEF OlderArrives, Limits
<1>8. ASSUME ClearLog \/ \E log \in Logs : Rotate(log) PROVE Limits'
  <2>1. PICK logs : Empties(logs)
    BY <1>8 DEF ClearLog, Rotate
  <2>2. size' = [log \in Logs |-> IF log \in logs THEN 0 ELSE size[log]]
    BY <2>1 DEF Empties
  <2>3. size' \in [Logs -> 0..MaxSize]
    BY <1>0, <2>2 DEF Limits
  <2>4. task' # NoTask => task'.offset \in 0..MaxSize
    BY <2>1, EmptiesKeeps DEF Limits
  <2>. QED
    BY <1>8, <2>3, <2>4 DEF ClearLog, Rotate, Limits
<1>9. CASE ClearReturns
  BY <1>0, <1>9, <1>m DEF ClearReturns, Emptied, Limits
<1>10. CASE Deliver
  <2>1. Head(events) \in ScreenChunks /\ Tail(events) \in Seq(ScreenChunks)
    BY <1>10, HeadTailProperties DEF Deliver, Limits
  <2>2. Head(events).data \in Seq(ScreenBytes) /\ Head(events).startOffset \in Anchors
    BY <2>1 DEF ScreenChunks
  <2>3. content \o Head(events).data \in Seq(ScreenBytes)
    BY <2>2, ConcatProperties DEF Limits
  <2>4. content' \in Seq(ScreenBytes) /\ oldest' \in Anchors
    <3>1. CASE Head(events).append
      BY <1>10, <2>3, <3>1 DEF Deliver, Shows, Limits
    <3>2. CASE ~Head(events).append
      BY <1>10, <2>2, <3>2 DEF Deliver, Shows
    <3>. QED
      BY <3>1, <3>2
  <2>. QED
    BY <1>10, <2>1, <2>4 DEF Deliver, Limits
<1>11. CASE Command
  <2>1. PICK i \in DOMAIN calls : rt_log_start(i) \/ rt_log_stop(i)
    BY <1>11 DEF Command
  <2>2. task' # NoTask => task'.offset = 0
    BY <2>1 DEF rt_log_start, rt_log_stop, NewTask
  <2>3. mishaps' \subseteq Mishaps
    BY <2>1 DEF rt_log_start, rt_log_stop, OutOfTurn, Limits, Mishaps
  <2>. QED
    BY <1>0, <2>1, <2>2, <2>3 DEF rt_log_start, rt_log_stop, Execute, Limits
<1>12. CASE Poll
  <2>1. events' \in Seq(ScreenChunks)
    <3>1. Chunk \in ScreenChunks /\ (events' = events \/ events' = Append(events, Chunk))
      BY <1>12, PollSends, PollWithin
    <3>2. events \in Seq(ScreenChunks)
      BY DEF Limits
    <3>. HIDE DEF Chunk, ScreenChunks
    <3>. QED
      BY <3>1, <3>2, AppendProperties
  <2>2. task'.offset \in 0..MaxSize
    BY <1>12, PollWithin
  <2>. QED
    BY <1>12, <2>1, <2>2, PollSends DEF Limits
<1>13. ASSUME NEW log \in Logs, Grow(log) PROVE Limits'
  <2>1. size[log] \in 0..MaxSize /\ size[log] < MaxSize
    BY <1>13 DEF Grow, Limits
  <2>2. size' \in [Logs -> 0..MaxSize]
    BY <1>0, <1>13, <2>1 DEF Grow, Limits
  <2>. QED
    BY <1>13, <2>2 DEF Grow, Limits
<1>. QED
  BY <1>2, <1>3, <1>4, <1>5, <1>6, <1>7, <1>8, <1>9, <1>10, <1>11, <1>12, <1>13
  DEF LogNext, User, Answer

\* Panel, requests, calls, task and chunks keep their types, and what is on screen
\* are positions that logs have, whatever was cleared, scrolled or reordered.
THEOREM LogTypeCorrect == LogSpec => []LogTypeOK
<1>1. LogInit => Limits
  <2>. SUFFICES ASSUME LogInit PROVE Limits
    OBVIOUS
  <2>1. size \in [Logs -> 0..MaxSize]
    BY DEF LogInit
  <2>. QED
    BY <2>1 DEF LogInit, Limits, Anchors
<1>2. LogBase => WireType /\ ScreenType
  BY DEF LogBase
<1>3. WireType /\ ScreenType /\ Limits => LogTypeOK
  <2>. SUFFICES ASSUME WireType, ScreenType, Limits PROVE LogTypeOK
    OBVIOUS
  <2>1. task = NoTask \/ task \in TaskRecords
    BY DEF WireType, TaskOfLog, Limits, TaskRecords
  <2>2. events \in Seq([data : Seq(ScreenBytes), append : BOOLEAN,
                        startOffset : {NoAnchor} \cup 0..MaxSize])
    BY DEF Limits, ScreenChunks, Anchors
  <2>. QED
    BY <2>1, <2>2 DEF WireType, ScreenType, Limits, Anchors, Windows, LogTypeOK
<1>. QED
  BY <1>1, <1>2, <1>3, LimitsStep, ScreenInvariant, PTL DEF LogSpec
=============================================================================
