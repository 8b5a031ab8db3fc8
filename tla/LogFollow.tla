----------------------------- MODULE LogFollow -----------------------------
(***************************************************************************)
(* Live tailing of a process log: the log panel (LogPanel.vue), the calls  *)
(* log:start / log:stop it emits, the single log task of the backend       *)
(* (realtime.rs) and the chunks that task sends back.                      *)
(*                                                                         *)
(* The calls are not awaited (see Subscriptions); chunks are events that   *)
(* reach the page in the order they were emitted and do not say which log  *)
(* they come from.  Two requests of the panel are awaited, and their       *)
(* continuations act on the panel as it is then: reading an older part of  *)
(* the log, and clearing the logs of the process.  Logs are emptied behind *)
(* the back of the panel too: supervisord rotates them, and other clients  *)
(* clear them.                                                             *)
(*                                                                         *)
(* A byte of a log is its position; a byte on screen is <<log, position>>. *)
(* The panel stays mounted.                                                *)
(***************************************************************************)
EXTENDS Integers, Sequences, SequencesExt, Functions

CONSTANTS
  Processes,    \* processes whose log can be opened
  Channels,     \* stdout, stderr
  NoProcess,    \* the panel has not been opened yet
  First,        \* the channel selected initially
  TailLength,   \* bytes one poll asks for
  Window,       \* bytes one scroll-back asks for
  MaxSize,      \* bound: length of a log, and of a screen whose log still grows
  MaxBytes,     \* bound: length of all logs together
  MaxCalls,     \* bound: calls in flight
  MaxEvents,    \* bound: chunks in flight
  Docker,       \* processes whose connector has no offsets
  Faults        \* what may go wrong in the instance, among Mishaps

\* reordered: a call is executed before an older one; overtaken: the panel starts
\* over while a scroll-back is under way, or one begins before the log of the
\* panel is on screen; closed: the panel is closed while a clear is under way.
Mishaps == {"reordered", "overtaken", "closed"}

\* What became of a task.  over: it ended, as the definition of its server could
\* not be read; gap: a poll skipped bytes, as the log had grown by more than
\* TailLength; cut: its log was emptied after it had read some of it.
Courses == {"sound", "over", "gap", "cut"}

ASSUME LogAssumption ==
  /\ First \in Channels /\ NoProcess \notin Processes
  /\ TailLength \in Nat \ {0} /\ Window \in Nat \ {0}
  /\ MaxSize \in Nat /\ MaxBytes \in Nat /\ MaxCalls \in Nat /\ MaxEvents \in Nat
  /\ Docker \subseteq Processes /\ Faults \subseteq Mishaps

VARIABLES
  panel,     \* open, process, channel
  content,   \* the bytes on screen
  oldest,    \* oldestOffset, or NoAnchor; canScrollBack is oldest > 0
  reading,   \* the scroll-back under way: log, start and length, or NoRead
  clearing,  \* the clear under way: its log and whether it was done, or NoClear
  calls,     \* calls emitted and not yet executed, oldest first
  task,      \* log_task: log, offset, whether it has yet to poll, and its course,
             \* or NoTask
  events,    \* chunks emitted and not yet delivered, oldest first
  size,      \* log -> its length
  mishaps    \* history: which of Mishaps have happened

logVars == <<panel, content, oldest, reading, clearing, calls, task, events, size,
             mishaps>>

Logs == Processes \X Channels
NoAnchor == -1
NoRead == [log |-> NoProcess]
NoClear == [log |-> NoProcess]
NoTask == [log |-> NoProcess]
NoLog == <<NoProcess, First>>

Log == <<panel.process, panel.channel>>
Incremental(log) == log[1] \notin Docker
CanScrollBack == oldest > 0

\* The panel is open, its task has polled, and no chunk replaces the screen.
Settled == /\ panel.open /\ calls = <<>> /\ task # NoTask /\ ~task.first
           /\ \A i \in DOMAIN events : events[i].append

\* A step that is a mishap of a kind when the condition holds.
Risks(kind, condition) ==
  /\ condition => kind \in Faults
  /\ mishaps' = mishaps \cup (IF condition THEN {kind} ELSE {})

\* Positions from (inclusive) to to (exclusive) of a log.
Bytes(log, from, to) == [i \in 1..(to - from) |-> <<log, from + i - 1>>]
Greater(m, n) == IF m > n THEN m ELSE n
Smaller(m, n) == IF m < n THEN m ELSE n

-----------------------------------------------------------------------------
(* The panel *)

Start(log) == [name |-> "start", log |-> log]
Stop == [name |-> "stop", log |-> NoLog]

\* mutant: the stop follows the start it should precede
StartFirst(log) == <<Start(log), Stop>>

Restart(log) == <<Stop, Start(log)>>

\* start() empties the panel before it calls the backend.
Emptied == content' = <<>> /\ oldest' = NoAnchor

Emits(new) ==
  /\ calls' = calls \o new
  /\ Len(calls') <= MaxCalls

\* Opening the log of another process changes both watched properties: start()
\* for the first, stop() and start() for the second.
Open(p) ==
  /\ ~panel.open
  /\ Risks("overtaken", reading # NoRead)
  /\ panel' = [panel EXCEPT !.open = TRUE, !.process = p]
  /\ LET log == <<p, panel.channel>> IN
     Emits(<<Start(log)>> \o IF p = panel.process THEN <<>> ELSE Restart(log))
  /\ Emptied
  /\ UNCHANGED <<reading, clearing, task, events, size>>

SwitchChannel(ch) ==
  /\ panel.open /\ ch # panel.channel
  /\ Risks("overtaken", reading # NoRead)
  /\ panel' = [panel EXCEPT !.channel = ch]
  /\ Emits(Restart(<<panel.process, ch>>))
  /\ Emptied
  /\ UNCHANGED <<reading, clearing, task, events, size>>

\* mutant: closing the panel leaves the backend alone
CloseSilently ==
  /\ panel.open
  /\ Risks("closed", clearing # NoClear)
  /\ panel' = [panel EXCEPT !.open = FALSE]
  /\ UNCHANGED <<calls, content, oldest, reading, clearing, task, events, size>>

Close ==
  /\ panel.open
  /\ Risks("closed", clearing # NoClear)
  /\ panel' = [panel EXCEPT !.open = FALSE]
  /\ Emits(<<Stop>>)
  /\ UNCHANGED <<content, oldest, reading, clearing, task, events, size>>

\* loadOlder() up to its await: the window before the anchor.
OlderWindow == [log |-> Log, start |-> Greater(0, oldest - Window),
                length |-> oldest - Greater(0, oldest - Window)]

LoadOlder ==
  /\ panel.open /\ CanScrollBack
  /\ reading = NoRead /\ Risks("overtaken", ~Settled)
  /\ reading' = OlderWindow
  /\ UNCHANGED <<panel, content, oldest, clearing, calls, task, events, size>>

\* The answer is put before whatever the panel shows by then.
OlderArrives ==
  /\ reading # NoRead
  /\ content' = Bytes(reading.log, reading.start,
                      Smaller(reading.start + reading.length, size[reading.log]))
                \o content
  /\ oldest' = reading.start
  /\ reading' = NoRead
  /\ UNCHANGED <<panel, clearing, calls, task, events, size, mishaps>>

OlderFails ==
  /\ reading # NoRead
  /\ reading' = NoRead
  /\ UNCHANGED <<panel, content, oldest, clearing, calls, task, events, size, mishaps>>

AskClear ==
  /\ panel.open /\ clearing = NoClear
  /\ clearing' = [log |-> Log, done |-> FALSE]
  /\ UNCHANGED <<panel, content, oldest, reading, calls, task, events, size, mishaps>>

\* Logs are emptied.  A task that has read one of them is left with an offset
\* the log no longer has, and the screen with bytes it no longer has.
Empties(logs) ==
  /\ size' = [log \in Logs |-> IF log \in logs THEN 0 ELSE size[log]]
  /\ task' = IF task # NoTask /\ task.log \in logs /\ task.offset > 0
             THEN [task EXCEPT !.course = "cut"] ELSE task

\* clearProcessLogs empties every channel of the process.
ClearLog ==
  /\ clearing # NoClear /\ ~clearing.done
  /\ clearing' = [clearing EXCEPT !.done = TRUE]
  /\ Empties({clearing.log[1]} \X Channels)
  /\ UNCHANGED <<panel, content, oldest, reading, calls, events, mishaps>>

\* The continuation restarts the log of the panel, open or not.
ClearReturns ==
  /\ clearing # NoClear /\ clearing.done
  /\ Risks("overtaken", reading # NoRead)
  /\ clearing' = NoClear
  /\ Emits(Restart(Log))
  /\ Emptied
  /\ UNCHANGED <<panel, reading, task, events, size>>

\* An error answers a clear that had no effect, and one that had: the pool for
\* the audit is asked for afterwards, and an answer may be lost.  The panel then
\* goes on as it is.
ClearFails ==
  /\ clearing # NoClear
  /\ clearing' = NoClear
  /\ UNCHANGED <<panel, content, oldest, reading, calls, task, events, size, mishaps>>

\* mutant: a chunk never replaces what is on screen
AlwaysAppend(chunk) ==
  /\ content' = content \o chunk.data
  /\ oldest' = IF chunk.append THEN oldest ELSE chunk.startOffset

\* onChunk(): append, or replace and take the anchor of the chunk.
Shows(chunk) ==
  IF chunk.append THEN content' = content \o chunk.data /\ oldest' = oldest
                  ELSE content' = chunk.data /\ oldest' = chunk.startOffset

Deliver ==
  /\ events # <<>>
  /\ Shows(Head(events))
  /\ events' = Tail(events)
  /\ UNCHANGED <<panel, reading, clearing, calls, task, size, mishaps>>

-----------------------------------------------------------------------------
(* The backend *)

Execute(i, name) ==
  /\ calls[i].name = name
  /\ i # 1 => "reordered" \in Faults
  /\ calls' = RemoveAt(calls, i)
  /\ UNCHANGED <<panel, content, oldest, reading, clearing, events, size>>

OutOfTurn(i) == IF i = 1 THEN {} ELSE {"reordered"}
NewTask(log, course) == [log |-> log, offset |-> 0, first |-> TRUE, course |-> course]

\* set_log_task() aborts the task in the slot, whatever it is.  A task whose
\* server definition cannot be read reports that and ends; it stays in the slot.
rt_log_start(i) ==
  /\ Execute(i, "start")
  /\ \E course \in {"sound", "over"} : task' = NewTask(calls[i].log, course)
  /\ mishaps' = mishaps \cup OutOfTurn(i)

rt_log_stop(i) ==
  /\ Execute(i, "stop")
  /\ task' = NoTask
  /\ mishaps' = mishaps \cup OutOfTurn(i)

\* What tail returns for an offset: the bytes after it, or the last TailLength
\* ones when there are more (overflow).
TailFrom(log, offset) ==
  IF size[log] > offset + TailLength THEN size[log] - TailLength
                                     ELSE Smaller(offset, size[log])

\* mutant: the offset advances by what was asked for
AdvanceByLength(log, offset) == Smaller(MaxSize, offset + TailLength)

\* The offset tail returns: the end of the log, or always zero.
NextOffset(log, offset) == IF Incremental(log) THEN size[log] ELSE 0

\* A poll that skips bytes: overflow is not looked at.
Skips(log, offset) == Incremental(log) /\ size[log] > offset + TailLength

\* One poll of process_log_loop, from the answer to the sleep.
Poll ==
  /\ task # NoTask /\ task.course # "over"
  /\ Len(events) < MaxEvents
  /\ LET log == task.log
         data == Bytes(log, TailFrom(log, IF Incremental(log) THEN task.offset ELSE 0),
                       size[log])
         chunk == [data |-> data, append |-> Incremental(log) /\ ~task.first,
                   startOffset |-> IF Incremental(log)
                                   THEN Greater(0, size[log] - Len(data))
                                   ELSE NoAnchor]
     IN /\ task' = [task EXCEPT !.offset = NextOffset(log, @), !.first = FALSE,
                                !.course = IF ~task.first /\ @ = "sound" /\ Skips(log, task.offset)
                                           THEN "gap" ELSE @]
        /\ events' = IF chunk.append /\ data = <<>> THEN events
                                                    ELSE Append(events, chunk)
  /\ UNCHANGED <<panel, content, oldest, reading, clearing, calls, size, mishaps>>

\* The last guard is a bound: a screen whose log was cut holds more than a log.
Grow(log) ==
  /\ size[log] < MaxSize
  /\ Len(content) < MaxSize
  /\ size' = [size EXCEPT ![log] = @ + 1]
  /\ SumFunction(size') <= MaxBytes
  /\ UNCHANGED <<panel, content, oldest, reading, clearing, calls, task, events, mishaps>>

\* A log is emptied by others: supervisord rotates it, "Clear all logs" or
\* another client of supervisord clears it.
Rotate(log) ==
  /\ size[log] > 0
  /\ Empties({log})
  /\ UNCHANGED <<panel, content, oldest, reading, clearing, calls, events, mishaps>>

-----------------------------------------------------------------------------
LogInit ==
  /\ panel = [open |-> FALSE, process |-> NoProcess, channel |-> First]
  /\ content = <<>> /\ oldest = NoAnchor
  /\ reading = NoRead /\ clearing = NoClear
  /\ calls = <<>> /\ task = NoTask /\ events = <<>>
  /\ size \in {s \in [Logs -> 0..MaxSize] : SumFunction(s) <= MaxBytes}
  /\ mishaps = {}

User == (\E p \in Processes : Open(p)) \/ (\E ch \in Channels : SwitchChannel(ch))
        \/ Close \/ LoadOlder \/ AskClear
Answer == OlderArrives \/ OlderFails \/ ClearLog \/ ClearReturns \/ ClearFails
Command == \E i \in DOMAIN calls : rt_log_start(i) \/ rt_log_stop(i)

LogNext ==
  \/ User \/ Answer \/ Deliver \/ Command \/ Poll
  \/ \E log \in Logs : Grow(log) \/ Rotate(log)

LogSpec == LogInit /\ [][LogNext]_logVars

\* Emitted calls are tasks of the executor, the log task polls on a timer,
\* requests are answered, and the page handles its events.
LogFairness ==
  /\ WF_logVars(Command) /\ WF_logVars(Poll) /\ WF_logVars(Deliver)
  /\ WF_logVars(OlderArrives \/ OlderFails)
  /\ WF_logVars(ClearLog \/ ClearReturns \/ ClearFails)

FairLogSpec == LogSpec /\ LogFairness

-----------------------------------------------------------------------------
(* Properties *)

ScreenBytes == Logs \X (0..(MaxSize - 1))
CallRecords == {Stop} \cup {Start(log) : log \in Logs}
TaskRecords == [log : Logs, offset : 0..MaxSize, first : BOOLEAN, course : Courses]

\* Panel, requests, calls, task and chunks have their types, and a request for
\* older bytes never asks for a negative range.
LogTypeOK ==
  /\ panel \in [open : BOOLEAN, process : Processes \cup {NoProcess},
                channel : Channels]
  /\ content \in Seq(ScreenBytes)
  /\ oldest \in {NoAnchor} \cup 0..MaxSize
  /\ reading = NoRead
       \/ reading \in [log : Logs, start : 0..MaxSize, length : 1..MaxSize]
  /\ clearing = NoClear \/ clearing \in [log : Logs, done : BOOLEAN]
  /\ calls \in Seq(CallRecords)
  /\ task = NoTask \/ task \in TaskRecords
  /\ events \in Seq([data : Seq(ScreenBytes), append : BOOLEAN,
                     startOffset : {NoAnchor} \cup 0..MaxSize])
  /\ size \in [Logs -> 0..MaxSize]
  /\ mishaps \subseteq Mishaps

Without(M) == mishaps \cap M = {}
ClosedIsQuiet == calls = <<>> /\ ~panel.open => task = NoTask

\* realtime.rs, rt_log_stop: tailing stops.  With no call in flight a closed
\* panel has no task, unless calls changed their order or the panel was closed
\* while a clear was under way.
LogStops == Without({"reordered", "closed"}) => ClosedIsQuiet

\* With no call in flight an open panel is followed by a task of its own log,
\* if calls keep their order.
OpenIsFollowed ==
  Without({"reordered"}) /\ calls = <<>> /\ panel.open =>
    task # NoTask /\ task.log = Log

\* What the panel shows when no call and no chunk is in flight.  With offsets:
\* the bytes from the anchor to the offset of the task, without gap or
\* repetition, however often the log was switched, scrolled back or cleared,
\* while a request is under way, and after one that failed; a log emptied under
\* the panel, or too fast for it, is shown again once the panel starts over.
\* Without: what was the end of the log at some time.
ShowsTheLog ==
  Without({"reordered", "overtaken"}) /\ Settled /\ events = <<>> =>
    IF Incremental(Log)
    THEN task.course = "sound" => content = Bytes(Log, oldest, task.offset)
    ELSE \E end \in 0..MaxSize :
           content = Bytes(Log, Greater(0, end - TailLength), end)

\* An open panel catches up: when its log stops changing and the user stops
\* acting, what is on screen ends where the log ends, unless the log was emptied
\* since the panel last started over, or the task could not begin.
Undisturbed == <>[][UNCHANGED <<panel, size>>]_logVars
OnCourse == task # NoTask => task.course \in {"sound", "gap"}
EndIsShown ==
  panel.open =>
    IF size[Log] = 0 THEN content = <<>>
    ELSE content # <<>> /\ content[Len(content)] = <<Log, size[Log] - 1>>
CatchesUp ==
  Undisturbed /\ <>[]panel.open /\ <>[]OnCourse /\ []Without({"reordered", "overtaken"})
    => <>[]EndIsShown
=============================================================================
