--------------------------- MODULE AlertingProofs ---------------------------
(***************************************************************************)
(* Proofs about Alerting, for any processes, channels, windows and delays: *)
(* type correctness, and that restarts are counted once, a fall is told    *)
(* once and a channel is told once within the window.  Each rests on what  *)
(* a snapshot that was read a while ago still says of the server.          *)
(*                                                                         *)
(* Liveness, in one case: a fall is noticed (FallsAreNoticed), because a   *)
(* server that is read again and again is read after the fall, and what    *)
(* was read of it is compared before the server is asked again.            *)
(***************************************************************************)
EXTENDS Alerting, SequenceTheorems, TLAPS

-----------------------------------------------------------------------------
(* Types *)

States == {"running", "stopped", "fatal", "absent"}
Steps == {"off", "snapshot", "read", "tracked", "send", "match", "sleep"}
Hist == [known : BOOLEAN, pid : 0 .. MaxStarts, restarts : Nat,
         events : Seq(0 .. Window)]
Sender == [pending : SUBSET Alerts, age : 0 .. MaxDelay,
           current : Alerts \cup {NoAlert}, left : SUBSET Channels]

ServerTyped ==
  /\ proc \in [Processes -> [state : States, starts : 1 .. MaxStarts]]
  /\ fell \subseteq Processes

PollerTyped ==
  poller \in [at : Steps,
              seen : [Processes -> [state : States, starts : 0 .. MaxStarts]],
              flapping : SUBSET Processes]

TrackTyped ==
  /\ hist \in [Processes -> Hist]
  /\ prev \in [Processes -> [known : BOOLEAN, fatal : BOOLEAN, flapping : BOOLEAN]]

SenderTyped ==
  /\ sender \in Sender
  /\ Sending => poller.at \in {"send", "match"}
  /\ sender.current # NoAlert <=> poller.at = "match" \/ sender.left # {}
  /\ poller.at = "match" => sender.left = {}

AgesTyped ==
  /\ recent \in [Alerts -> 0 .. Never]
  /\ told \in [Alerts \X Channels -> 0 .. Never]

Typed == ServerTyped /\ PollerTyped /\ TrackTyped /\ SenderTyped /\ AgesTyped

LEMMA Bounds ==
  /\ Window \in Nat /\ Window > 0 /\ MaxDelay \in Nat /\ MaxStarts \in Nat
  /\ MaxStarts > 0
  /\ Never \in Nat /\ Never >= Window /\ Never >= MaxDelay /\ Never = Window + MaxDelay
BY AlertAssumption DEF AlertAssumption, Never

LEMMA NoAlertIsNone ==
  NoAlert \notin Alerts
BY DEF NoAlert, Alerts

LEMMA PollerAtTyped ==
  ASSUME NEW step \in Steps, PollerAt(step)
  PROVE  PollerTyped' /\ poller'.at = step
<1>1. Unread \in [Processes -> [state : States, starts : 0 .. MaxStarts]]
    BY Bounds DEF Unread, States
<1> QED BY <1>1 DEF PollerAt, At, PollerTyped

LEMMA NothingTyped ==
  /\ Nothing \in Sender
  /\ Nothing.pending = {} /\ Nothing.current = NoAlert /\ Nothing.left = {}
  /\ Nothing.age = 0
BY Bounds DEF Nothing, Sender

\* What no step of the server's processes and no tick disturbs.
LEMMA WorldTyped ==
  ASSUME Typed, NEW p \in Processes, Changes(p)
  PROVE  Typed'
<1>1. UNCHANGED <<poller, hist, prev, sender, recent, told>>
    BY DEF Changes, StartsUp, GoesDown, GoesFatal, Leaves, Returns, World
<1>2. ServerTyped'
  <2>1. CASE StartsUp(p)
    <3>1. proc[p].starts + 1 \in 1 .. MaxStarts
        BY <2>1, Bounds DEF Typed, ServerTyped, StartsUp
    <3> QED BY <2>1, <3>1 DEF Typed, ServerTyped, StartsUp, States
  <2>2. CASE GoesDown(p) \/ GoesFatal(p) \/ Leaves(p) \/ Returns(p)
      BY <2>2 DEF Typed, ServerTyped, GoesDown, GoesFatal, Leaves, Returns, World, States
  <2> QED BY <2>1, <2>2 DEF Changes
<1> QED BY <1>1, <1>2
        DEF Typed, PollerTyped, TrackTyped, SenderTyped, AgesTyped, Sending

LEMMA TrackedTyped ==
  ASSUME NEW h \in Hist, NEW pid \in 0 .. MaxStarts
  PROVE  Tracked(h, pid) \in Hist
<1> DEFINE more == IF Restarted(h, pid) THEN 1 ELSE 0
           new == [i \in 1 .. more |-> 0]
<1>1. more \in Nat
    OBVIOUS
<1>2. new \in Seq(0 .. Window)
  <2>1. 0 \in 0 .. Window
      BY Bounds
  <2> QED BY <1>1, <2>1
<1>3. h.events \o new \in Seq(0 .. Window)
    BY <1>2 DEF Hist
<1>4. h.restarts + more \in Nat
    BY <1>1 DEF Hist
<1> HIDE DEF more, new
<1>5. Tracked(h, pid) = [known |-> TRUE, pid |-> pid,
                         restarts |-> h.restarts + more, events |-> h.events \o new]
    BY DEF Tracked, more, new
<1> QED BY <1>3, <1>4, <1>5 DEF Hist

LEMMA PidTyped ==
  ASSUME NEW r \in [state : States, starts : 0 .. MaxStarts]
  PROVE  Pid(r) \in 0 .. MaxStarts
BY Bounds DEF Pid

LEMMA ReadingTyped ==
  ASSUME Typed, Reading
  PROVE  Typed'
<1>1. CASE Reads
  <2>1. PollerTyped' /\ poller'.at = "read"
    <3>1. proc \in [Processes -> [state : States, starts : 0 .. MaxStarts]]
        BY Bounds DEF Typed, ServerTyped
    <3> QED BY <1>1, <3>1 DEF Reads, PollerTyped, Steps
  <2>2. ~ Sending /\ sender.left = {} /\ sender.current = NoAlert
      BY <1>1 DEF Reads, Typed, SenderTyped, Sending
  <2> QED BY <1>1, <2>1, <2>2
          DEF Reads, Typed, ServerTyped, TrackTyped, SenderTyped, AgesTyped, Sending
<1>2. CASE Tracks
  <2>1. hist' \in [Processes -> Hist]
    <3>1. \A p \in Processes : Tracked(hist[p], Pid(poller.seen[p])) \in Hist
        BY TrackedTyped, PidTyped DEF Typed, TrackTyped, PollerTyped
    <3> QED BY <1>2, <3>1 DEF Tracks, Typed, TrackTyped
  <2>2. PollerTyped' /\ poller'.at = "tracked"
      BY <1>2 DEF Tracks, Typed, PollerTyped, Steps, Listed
  <2>3. ~ Sending /\ sender.left = {} /\ sender.current = NoAlert
      BY <1>2 DEF Tracks, Typed, SenderTyped, Sending
  <2> QED BY <1>2, <2>1, <2>2, <2>3
          DEF Tracks, Typed, ServerTyped, TrackTyped, SenderTyped, AgesTyped, Sending
<1>3. CASE ReadFails
  <2>1. PollerTyped' /\ poller'.at = "sleep"
      BY <1>3, PollerAtTyped DEF ReadFails, Steps
  <2>2. ~ Sending /\ sender.left = {} /\ sender.current = NoAlert
      BY <1>3 DEF ReadFails, Typed, SenderTyped, Sending
  <2> QED BY <1>3, <2>1, <2>2
          DEF ReadFails, Typed, ServerTyped, TrackTyped, SenderTyped, AgesTyped, Sending
<1> QED BY <1>1, <1>2, <1>3 DEF Reading
LEMMA DetectsTyped ==
  ASSUME Typed, Detects
  PROVE  Typed'
<1> DEFINE alerts == {Fatal(p) : p \in {q \in Listed : TurnedFatal(q)}}
                     \cup {Flapping(p) : p \in {q \in Listed : TurnedFlapping(q)}}
<1>1. PollerTyped' /\ poller'.at = "send"
    BY PollerAtTyped DEF Detects, Steps
<1>2. TrackTyped'
  <2>1. \A p \in Processes : IsFatal(p) \in BOOLEAN /\ Flaps(p) \in BOOLEAN
      BY DEF IsFatal, Flaps
  <2> QED BY <2>1 DEF Typed, TrackTyped, Detects, Observed, Unknown
<1>3. alerts \subseteq Alerts
    BY DEF Alerts, Fatal, Flapping, Listed
<1>4. sender' = [Nothing EXCEPT !.pending = alerts]
    BY DEF Detects
<1> HIDE DEF alerts
<1>5. /\ sender' \in Sender
      /\ sender'.current = NoAlert /\ sender'.left = {}
    BY <1>3, <1>4, NothingTyped DEF Sender
<1>6. SenderTyped'
    BY <1>1, <1>5 DEF SenderTyped, Sending
<1> QED BY <1>1, <1>2, <1>6 DEF Detects, Typed, ServerTyped, AgesTyped

LEMMA PicksTyped ==
  ASSUME Typed, NEW a \in Alerts, Picks(a)
  PROVE  Typed'
<1>1. /\ sender \in Sender /\ sender.left = {} /\ sender.current = NoAlert
      /\ poller.at = "send"
    BY DEF Typed, SenderTyped, Picks
<1>2. CASE Duplicate(a)
  <2>1. sender' = [sender EXCEPT !.pending = @ \ {a}] /\ UNCHANGED <<recent, poller>>
      BY <1>2 DEF Picks
  <2>2. /\ sender' \in Sender /\ sender'.left = {}
        /\ sender'.current = NoAlert
      BY <1>1, <2>1 DEF Sender
  <2>3. SenderTyped'
      BY <1>1, <2>1, <2>2 DEF SenderTyped, Sending
  <2> QED BY <2>1, <2>3 DEF Picks, Typed, ServerTyped, PollerTyped, TrackTyped, AgesTyped
<1>3. CASE ~ Duplicate(a)
  <2>1. /\ sender' = [sender EXCEPT !.pending = @ \ {a}, !.current = a]
        /\ recent' = [recent EXCEPT ![a] = sender.age]
        /\ PollerAt("match")
      BY <1>3 DEF Picks
  <2>2. sender' \in Sender /\ sender'.left = {} /\ sender'.current = a
      BY <1>1, <2>1 DEF Sender
  <2>3. PollerTyped' /\ poller'.at = "match"
      BY <2>1, PollerAtTyped DEF Steps
  <2>4. SenderTyped'
      BY <2>2, <2>3, NoAlertIsNone DEF SenderTyped, Sending
  <2>5. sender.age \in 0 .. Never
      BY <1>1, Bounds DEF Sender
  <2>6. AgesTyped'
      BY <2>1, <2>5 DEF Picks, Typed, AgesTyped
  <2> QED BY <2>3, <2>4, <2>6 DEF Picks, Typed, ServerTyped, TrackTyped
<1> QED BY <1>2, <1>3

LEMMA MatchesTyped ==
  ASSUME Typed, Matches
  PROVE  Typed'
<1>1. /\ sender \in Sender /\ sender.left = {} /\ sender.current # NoAlert
    BY DEF Typed, SenderTyped, Matches
<1>2. PollerTyped' /\ poller'.at = "send"
    BY PollerAtTyped DEF Matches, Steps
<1>3. PICK S \in SUBSET Channels :
        sender' = IF S = {} THEN [sender EXCEPT !.current = NoAlert]
                            ELSE [sender EXCEPT !.left = S]
    BY DEF Matches
<1>4. /\ sender' \in Sender /\ sender'.left = S
      /\ sender'.current # NoAlert <=> S # {}
    BY <1>1, <1>3 DEF Sender
<1>5. SenderTyped'
    BY <1>2, <1>4 DEF SenderTyped, Sending
<1> QED BY <1>2, <1>5 DEF Matches, Typed, ServerTyped, TrackTyped, AgesTyped

\* The alert being sent is one, and what a dispatch leaves is less.
LEMMA DispatchFacts ==
  ASSUME Typed, NEW c \in Channels, Dispatches(c)
  PROVE  /\ sender \in Sender /\ sender.current \in Alerts /\ sender.age \in 0 .. Never
         /\ sender' \in Sender /\ sender'.left = sender.left \ {c}
         /\ sender'.current = IF sender'.left = {} THEN NoAlert ELSE sender.current
         /\ sender'.age = sender.age
<1>1. /\ sender \in Sender /\ sender.current # NoAlert
    BY DEF Typed, SenderTyped, Dispatches
<1>2. sender.current \in Alerts /\ sender.age \in 0 .. Never
    BY <1>1, Bounds DEF Sender
<1> DEFINE left == sender.left \ {c}
<1>3. sender' = [sender EXCEPT !.left = left,
                               !.current = IF left = {} THEN NoAlert ELSE @]
    BY DEF Dispatches
<1> QED BY <1>1, <1>2, <1>3 DEF Sender

LEMMA DispatchesTyped ==
  ASSUME Typed, NEW c \in Channels, Dispatches(c)
  PROVE  Typed'
<1>1. SenderTyped'
  <2>1. poller.at = "send" /\ UNCHANGED poller
      BY DEF Dispatches
  <2> QED BY <2>1, DispatchFacts, NoAlertIsNone DEF SenderTyped, Sending
<1>2. AgesTyped'
    BY DispatchFacts DEF Dispatches, Typed, AgesTyped
<1> QED BY <1>1, <1>2 DEF Dispatches, Typed, ServerTyped, PollerTyped, TrackTyped

\* The poller goes where nothing is sent.
LEMMA PollerTurnsTyped ==
  ASSUME Typed, Finishes \/ Wakes \/ PollerStarts \/ PollerAborted
  PROVE  Typed' /\ poller'.at \in {"off", "snapshot", "sleep"}
<1>1. PollerTyped' /\ poller'.at \in {"off", "snapshot", "sleep"}
    BY PollerAtTyped DEF Finishes, Wakes, PollerStarts, PollerAborted, Steps
<1>2. /\ sender' \in Sender /\ sender'.pending = {} /\ sender'.current = NoAlert
      /\ sender'.left = {}
  <2>1. CASE sender' = Nothing
      BY <2>1, NothingTyped
  <2>2. CASE (Wakes \/ PollerStarts) /\ UNCHANGED sender
      BY <2>2 DEF Wakes, PollerStarts, Typed, SenderTyped, Sending
  <2> QED BY <2>1, <2>2 DEF Finishes, Wakes, PollerStarts, PollerAborted
<1>3. SenderTyped'
    BY <1>1, <1>2 DEF SenderTyped, Sending
<1>4. UNCHANGED <<proc, hist, prev, recent, fell, told>>
    BY DEF Finishes, Wakes, PollerStarts, PollerAborted
<1> QED BY <1>1, <1>3, <1>4 DEF Typed, ServerTyped, TrackTyped, AgesTyped

LEMMA OlderTyped ==
  ASSUME NEW limit \in Nat, NEW age \in 0 .. limit
  PROVE  Older(age, limit) \in 0 .. limit
BY DEF Older

LEMMA AgedSeq ==
  ASSUME NEW S, NEW q \in Seq(S), \A age \in S : Older(age, Window) \in S
  PROVE  [i \in DOMAIN q |-> Older(q[i], Window)] \in Seq(S)
<1> DEFINE older == [i \in DOMAIN q |-> Older(q[i], Window)]
<1>1. DOMAIN q = 1 .. Len(q) /\ Len(q) \in Nat /\ \A i \in 1 .. Len(q) : q[i] \in S
    OBVIOUS
<1>2. older \in [1 .. Len(q) -> S]
    BY <1>1
<1> HIDE DEF older
<1>3. older \in Seq(S)
    BY <1>1, <1>2, SeqDef
<1> QED BY <1>3 DEF older

LEMMA TickTyped ==
  ASSUME Typed, Tick
  PROVE  Typed'
<1>1. AgesTyped'
    BY OlderTyped, Bounds DEF Typed, AgesTyped, Tick
<1>2. TrackTyped'
  <2>1. ASSUME NEW p \in Processes
        PROVE  [hist[p] EXCEPT !.events = [i \in DOMAIN @ |-> Older(@[i], Window)]] \in Hist
    <3> DEFINE events == hist[p].events
               older == [i \in DOMAIN events |-> Older(events[i], Window)]
    <3>1. hist[p] \in Hist
        BY DEF Typed, TrackTyped
    <3>2. events \in Seq(0 .. Window)
        BY <3>1 DEF Hist
    <3>3. older \in Seq(0 .. Window)
      <4> DEFINE S == 0 .. Window
      <4>1. \A age \in S : Older(age, Window) \in S
          BY OlderTyped, Bounds
      <4>2. events \in Seq(S)
          BY <3>2
      <4> HIDE DEF S, events
      <4>3. older \in Seq(S)
          BY <4>1, <4>2, AgedSeq
      <4> QED BY <4>3 DEF S
    <3> HIDE DEF older
    <3>4. [hist[p] EXCEPT !.events = older] \in Hist
        BY <3>1, <3>3 DEF Hist
    <3> QED BY <3>4 DEF older
  <2> QED BY <2>1 DEF Typed, TrackTyped, Tick
<1>3. SenderTyped'
  <2>1. sender \in Sender /\ UNCHANGED poller
      BY DEF Typed, SenderTyped, Tick
  <2>2. CASE UNCHANGED sender
      BY <2>1, <2>2 DEF Typed, SenderTyped, Sending
  <2>3. CASE Sending /\ sender' = [sender EXCEPT !.age = @ + 1]
    <3>1. sender.age + 1 \in 0 .. MaxDelay
        BY <2>1, <2>3, Bounds DEF Tick, Sender
    <3>2. /\ sender' \in Sender /\ sender'.pending = sender.pending
          /\ sender'.current = sender.current /\ sender'.left = sender.left
        BY <2>1, <2>3, <3>1 DEF Sender
    <3> QED BY <2>1, <3>2 DEF Typed, SenderTyped, Sending
  <2> QED BY <2>2, <2>3 DEF Tick
<1> QED BY <1>1, <1>2, <1>3 DEF Typed, ServerTyped, PollerTyped, Tick

LEMMA InitTyped ==
  AlertInit => Typed
<1> SUFFICES ASSUME AlertInit PROVE Typed
    OBVIOUS
<1>1. ServerTyped
    BY Bounds DEF AlertInit, ServerTyped, States
<1>2. PollerTyped /\ poller.at = "off"
  <2>1. Unread \in [Processes -> [state : States, starts : 0 .. MaxStarts]]
      BY Bounds DEF Unread, States
  <2> QED BY <2>1 DEF AlertInit, At, PollerTyped, Steps
<1>3. TrackTyped
  <2>1. NoHist \in Hist
    <3>1. <<>> \in Seq(0 .. Window)
        OBVIOUS
    <3> QED BY <3>1, Bounds DEF NoHist, Hist
  <2> QED BY <2>1 DEF AlertInit, TrackTyped, Unknown
<1>4. SenderTyped
    BY <1>2, NothingTyped DEF AlertInit, SenderTyped, Sending
<1>5. AgesTyped
    BY Bounds DEF AlertInit, AgesTyped
<1> QED BY <1>1, <1>2, <1>3, <1>4, <1>5 DEF Typed

LEMMA NextTyped ==
  Typed /\ [AlertNext]_alertVars => Typed'
<1> SUFFICES ASSUME Typed, [AlertNext]_alertVars PROVE Typed'
    OBVIOUS
<1>1. CASE \E p \in Processes : Changes(p)
    BY <1>1, WorldTyped
<1>2. CASE Reading
    BY <1>2, ReadingTyped
<1>3. CASE Detects
    BY <1>3, DetectsTyped
<1>4. CASE Sends
    BY <1>4, PicksTyped, MatchesTyped, DispatchesTyped, PollerTurnsTyped DEF Sends
<1>5. CASE Wakes \/ PollerStarts \/ PollerAborted
    BY <1>5, PollerTurnsTyped
<1>6. CASE Tick
    BY <1>6, TickTyped
<1>7. CASE UNCHANGED alertVars
    BY <1>7 DEF alertVars, Typed, ServerTyped, PollerTyped, TrackTyped, SenderTyped,
                AgesTyped, Sending
<1> QED BY <1>1, <1>2, <1>3, <1>4, <1>5, <1>6, <1>7 DEF AlertNext

\* Processes, histories, the poller and its alerts keep their types, and alerts are
\* being sent only by a poller that is there (realtime.rs, poll_loop).
THEOREM AlertTypeCorrect == AlertSpec => []AlertTypeOK
<1>1. Typed => AlertTypeOK
    BY Bounds DEF Typed, ServerTyped, PollerTyped, TrackTyped, SenderTyped, AgesTyped,
       AlertTypeOK, States, Steps, Hist, Sender
<1> QED BY <1>1, InitTyped, NextTyped, PTL DEF AlertSpec
-----------------------------------------------------------------------------
(* Restarts *)

\* h has counted no start of a process that is like r twice: a later start than
\* the one it knows is still to be counted.
Counted(h, r) ==
  /\ h.restarts < r.starts
  /\ ~ h.known => h.restarts = 0
  /\ h.known /\ r.state = "running" /\ h.pid # r.starts => h.restarts + 1 < r.starts

\* A process that was like s is like r: if it runs, it has run then or was
\* started since.
Since(s, r) ==
  /\ s.starts <= r.starts
  /\ r.state = "running" => s.state = "running" \/ s.starts < r.starts

\* What was read is what the server was.
CountInv ==
  \A p \in Processes :
    /\ Counted(hist[p], proc[p])
    /\ poller.at = "read" =>
         Counted(hist[p], poller.seen[p]) /\ Since(poller.seen[p], proc[p])

Process == [state : States, starts : Nat]

\* The history of a later state of the process.
LEMMA TrackedCounts ==
  ASSUME NEW h \in Hist, NEW s \in Process, NEW r \in Process,
         Counted(h, s), Since(s, r)
  PROVE  Counted(Tracked(h, Pid(s)), r)
<1> DEFINE t == Tracked(h, Pid(s))
<1>1. /\ h.restarts \in Nat /\ h.known \in BOOLEAN /\ h.pid \in Int
      /\ s.starts \in Nat /\ r.starts \in Nat
    BY Bounds DEF Hist, Process
<1>2. /\ t.known = TRUE /\ t.pid = Pid(s)
      /\ t.restarts = h.restarts + (IF Restarted(h, Pid(s)) THEN 1 ELSE 0)
    BY DEF Tracked
<1>3. t.restarts < s.starts
    BY <1>1, <1>2 DEF Counted, Restarted, Pid
<1>4. r.state = "running" /\ t.pid # r.starts => s.starts < r.starts
    BY <1>1, <1>2 DEF Since, Pid
<1>5. t.restarts \in Nat /\ s.starts <= r.starts
    BY <1>1, <1>2 DEF Since
<1> HIDE DEF t
<1>6. Counted(t, r)
    BY <1>1, <1>2, <1>3, <1>4, <1>5 DEF Counted
<1> QED BY <1>6 DEF t

LEMMA ProcessTyped ==
  ASSUME Typed, NEW p \in Processes
  PROVE  /\ proc[p] \in Process /\ hist[p] \in Hist /\ poller.seen[p] \in Process
         /\ proc[p].starts \in Nat /\ hist[p].restarts \in Nat
BY Bounds DEF Typed, ServerTyped, TrackTyped, PollerTyped, Process, Hist

\* What happens to a process: it starts once more, or it does not run.
LEMMA ChangesProcess ==
  ASSUME Typed, NEW q \in Processes, Changes(q), NEW p \in Processes
  PROVE  \/ proc'[p] = proc[p]
         \/ proc'[p].state = "running" /\ proc'[p].starts = proc[p].starts + 1
              /\ proc[p].state # "running"
         \/ proc'[p].state # "running" /\ proc'[p].starts = proc[p].starts
<1>1. proc \in [Processes -> [state : States, starts : 1 .. MaxStarts]]
    BY DEF Typed, ServerTyped
<1>2. CASE StartsUp(q)
    BY <1>1, <1>2 DEF StartsUp
<1>3. CASE GoesDown(q) \/ GoesFatal(q) \/ Leaves(q) \/ Returns(q)
    BY <1>1, <1>3 DEF GoesDown, GoesFatal, Leaves, Returns, World
<1> QED BY <1>2, <1>3 DEF Changes

LEMMA NextCounts ==
  Typed /\ CountInv /\ [AlertNext]_alertVars => CountInv'
<1> SUFFICES ASSUME Typed, CountInv, [AlertNext]_alertVars PROVE CountInv'
    OBVIOUS
<1>1. CASE \E q \in Processes : Changes(q)
  <2>1. PICK q \in Processes : Changes(q)
      BY <1>1
  <2>2. UNCHANGED <<poller, hist>>
      BY <2>1 DEF Changes, StartsUp, GoesDown, GoesFatal, Leaves, Returns, World
  <2>3. ASSUME NEW p \in Processes
        PROVE  /\ Counted(hist[p], proc'[p])
               /\ poller.at = "read" => Since(poller.seen[p], proc'[p])
    <3>1. /\ proc[p].starts \in Nat /\ hist[p].restarts \in Nat
          /\ poller.seen[p].starts \in Nat
        BY ProcessTyped DEF Process
    <3>2. /\ Counted(hist[p], proc[p])
          /\ poller.at = "read" => Since(poller.seen[p], proc[p])
        BY DEF CountInv
    <3>3. CASE proc'[p] = proc[p]
        BY <3>2, <3>3
    <3>4. CASE /\ proc'[p].state = "running" /\ proc[p].state # "running"
               /\ proc'[p].starts = proc[p].starts + 1
        BY <3>1, <3>2, <3>4 DEF Counted, Since
    <3>5. CASE proc'[p].state # "running" /\ proc'[p].starts = proc[p].starts
        BY <3>1, <3>2, <3>5 DEF Counted, Since
    <3> QED BY <2>1, <3>3, <3>4, <3>5, ChangesProcess
  <2> QED BY <2>2, <2>3 DEF CountInv
<1>2. CASE Reads
  <2>1. \A p \in Processes : Since(proc[p], proc[p])
      BY ProcessTyped DEF Since
  <2> QED BY <1>2, <2>1 DEF Reads, CountInv
<1>3. CASE Tracks
  <2>1. ASSUME NEW p \in Processes
        PROVE  Counted(hist'[p], proc[p])
    <3>1. CASE p \in Listed
      <4>1. hist'[p] = Tracked(hist[p], Pid(poller.seen[p]))
          BY <1>3, <3>1 DEF Tracks
      <4>2. Counted(hist[p], poller.seen[p]) /\ Since(poller.seen[p], proc[p])
          BY <1>3 DEF Tracks, CountInv
      <4> QED BY <4>1, <4>2, TrackedCounts, ProcessTyped
    <3>2. CASE p \notin Listed
        BY <1>3, <3>2 DEF Tracks, CountInv
    <3> QED BY <3>1, <3>2
  <2>2. poller'.at # "read" /\ UNCHANGED proc
      BY <1>3 DEF Tracks
  <2> QED BY <2>1, <2>2 DEF CountInv
<1>4. CASE Tick
  <2>1. \A p \in Processes : /\ hist'[p].restarts = hist[p].restarts
                             /\ hist'[p].known = hist[p].known
                             /\ hist'[p].pid = hist[p].pid
      BY <1>4 DEF Tick, Typed, TrackTyped, Hist
  <2> QED BY <1>4, <2>1 DEF Tick, CountInv, Counted
<1>5. CASE ReadFails \/ Detects \/ Sends \/ Wakes \/ PollerStarts \/ PollerAborted
  <2>1. UNCHANGED <<proc, hist>>
      BY <1>5 DEF ReadFails, Detects, Sends, Picks, Matches, Finishes, Dispatches,
                  Wakes, PollerStarts, PollerAborted
  <2>2. poller'.at # "read"
    <3>1. \A step : PollerAt(step) => poller'.at = step
        BY DEF PollerAt, At
    <3>2. CASE Sends
        BY <3>1, <3>2 DEF Sends, Picks, Matches, Finishes, Dispatches
    <3> QED BY <1>5, <3>1, <3>2 DEF ReadFails, Detects, Wakes, PollerStarts, PollerAborted
  <2> QED BY <2>1, <2>2 DEF CountInv
<1>6. CASE UNCHANGED alertVars
    BY <1>6 DEF alertVars, CountInv
<1> QED BY <1>1, <1>2, <1>3, <1>4, <1>5, <1>6 DEF AlertNext, Reading

\* track_restarts counts no start of a process twice, and the first one never,
\* however late a snapshot is evaluated (service.rs).
THEOREM RestartsAreCountedOnce == AlertSpec => []RestartsAreReal
<1>1. AlertInit => CountInv
    BY DEF AlertInit, CountInv, Counted, NoHist, At
<1>2. CountInv => RestartsAreReal
    BY DEF CountInv, Counted, RestartsAreReal
<1> QED BY <1>1, <1>2, InitTyped, NextTyped, NextCounts, PTL DEF AlertSpec
-----------------------------------------------------------------------------
(* Falls *)

\* A fall that was not noticed is remembered: where the snapshot before did not
\* see the process FATAL it has fallen since.
FallInv ==
  \A p \in Processes :
    /\ prev[p].known /\ ~ prev[p].fatal /\ proc[p].state = "fatal" => p \in fell
    /\ poller.at \in {"read", "tracked"} =>
         /\ prev[p].known /\ ~ prev[p].fatal /\ IsFatal(p) => p \in fell
         /\ ~ IsFatal(p) /\ proc[p].state = "fatal" => p \in fell

\* A process becomes FATAL in GoesFatal only.
LEMMA ChangesFall ==
  ASSUME Typed, NEW q \in Processes, Changes(q), NEW p \in Processes
  PROVE  /\ fell \subseteq fell'
         /\ proc'[p].state = "fatal" => proc[p].state = "fatal" \/ p \in fell'
<1>1. proc \in [Processes -> [state : States, starts : 1 .. MaxStarts]]
    BY DEF Typed, ServerTyped
<1>2. CASE StartsUp(q)
    BY <1>1, <1>2 DEF StartsUp
<1>3. CASE GoesFatal(q)
    BY <1>1, <1>3 DEF GoesFatal, World
<1>4. CASE GoesDown(q) \/ Leaves(q) \/ Returns(q)
    BY <1>1, <1>4 DEF GoesDown, Leaves, Returns, World
<1> QED BY <1>2, <1>3, <1>4 DEF Changes

LEMMA NextFalls ==
  Typed /\ FallInv /\ [AlertNext]_alertVars => FallInv'
<1> SUFFICES ASSUME Typed, FallInv, [AlertNext]_alertVars PROVE FallInv'
    OBVIOUS
<1>1. CASE \E q \in Processes : Changes(q)
  <2>1. PICK q \in Processes : Changes(q)
      BY <1>1
  <2>2. UNCHANGED <<poller, prev>>
      BY <2>1 DEF Changes, StartsUp, GoesDown, GoesFatal, Leaves, Returns, World
  <2>3. \A p \in Processes :
          /\ fell \subseteq fell'
          /\ proc'[p].state = "fatal" => proc[p].state = "fatal" \/ p \in fell'
      BY <2>1, ChangesFall
  <2> QED BY <2>2, <2>3 DEF FallInv, IsFatal
<1>2. CASE Reads
    BY <1>2 DEF Reads, FallInv, IsFatal
<1>3. CASE Tracks
    BY <1>3 DEF Tracks, FallInv, IsFatal
<1>4. CASE Detects
  <2>1. \A p \in Processes : prev'[p] = IF p \in Listed THEN Observed(p) ELSE Unknown
      BY <1>4 DEF Detects
  <2>2. /\ fell' = fell \ {p \in Listed : TurnedFatal(p)} /\ UNCHANGED proc
        /\ poller.at = "tracked" /\ poller'.at = "send"
      BY <1>4 DEF Detects, PollerAt, At
  <2>3. ASSUME NEW p \in Processes, prev'[p].known, ~ prev'[p].fatal,
               proc[p].state = "fatal"
        PROVE  p \in fell'
    <3>1. ~ IsFatal(p)
      <4>1. p \in Listed
          BY <2>1, <2>3 DEF Unknown
      <4>2. prev'[p] = Observed(p)
          BY <2>1, <4>1
      <4> QED BY <2>3, <4>2 DEF Observed
    <3>2. p \in fell
        BY <2>2, <2>3, <3>1 DEF FallInv
    <3> QED BY <2>2, <3>1, <3>2 DEF TurnedFatal
  <2> QED BY <2>2, <2>3 DEF FallInv
<1>5. CASE ReadFails \/ Sends \/ Wakes \/ PollerStarts \/ PollerAborted \/ Tick
  <2>1. UNCHANGED <<proc, prev, fell>>
      BY <1>5 DEF ReadFails, Sends, Picks, Matches, Finishes, Dispatches,
                  Wakes, PollerStarts, PollerAborted, Tick
  <2>2. poller'.at \notin {"read", "tracked"} \/ UNCHANGED poller
    <3>1. \A step : PollerAt(step) => poller'.at = step
        BY DEF PollerAt, At
    <3>2. CASE Sends
        BY <3>1, <3>2 DEF Sends, Picks, Matches, Finishes, Dispatches
    <3> QED BY <1>5, <3>1, <3>2 DEF ReadFails, Wakes, PollerStarts, PollerAborted, Tick
  <2> QED BY <2>1, <2>2 DEF FallInv, IsFatal
<1>6. CASE UNCHANGED alertVars
    BY <1>6 DEF alertVars, FallInv, IsFatal
<1> QED BY <1>1, <1>2, <1>3, <1>4, <1>5, <1>6 DEF AlertNext, Reading

\* A new alert is one that was detected.
LEMMA OnlyDetectsRaises ==
  ASSUME Typed, [AlertNext]_alertVars, ~ Detects
  PROVE  sender'.pending \subseteq sender.pending
<1>1. sender \in Sender
    BY DEF Typed, SenderTyped
<1>2. CASE UNCHANGED sender
    BY <1>2
<1>3. CASE sender' = Nothing
    BY <1>3, NothingTyped
<1>4. CASE Tick
    BY <1>1, <1>4 DEF Tick, Sender
<1>5. CASE \E a \in Alerts : Picks(a)
    BY <1>1, <1>5 DEF Picks, Sender
<1>6. CASE Matches
    BY <1>1, <1>6 DEF Matches, Sender
<1>7. CASE \E c \in Channels : Dispatches(c)
    BY <1>1, <1>7 DEF Dispatches, Sender
<1>8. CASE Finishes \/ PollerAborted
    BY <1>3, <1>8 DEF Finishes, PollerAborted
<1>9. CASE \E p \in Processes : Changes(p)
    BY <1>2, <1>9 DEF Changes, StartsUp, GoesDown, GoesFatal, Leaves, Returns, World
<1>10. CASE Reading \/ Wakes \/ PollerStarts \/ UNCHANGED alertVars
    BY <1>2, <1>10 DEF Reading, Reads, Tracks, ReadFails, Wakes, PollerStarts, alertVars
<1> QED BY <1>4, <1>5, <1>6, <1>7, <1>8, <1>9, <1>10 DEF AlertNext, Sends

\* Every FATAL alert that detect_alerts raises stands for a fall of its own
\* (realtime.rs).
THEOREM EveryAlertIsAFall == AlertSpec => OneAlertPerFall
<1>1. AlertInit => FallInv
    BY DEF AlertInit, FallInv, Unknown, At
<1>2. Typed /\ FallInv /\ [AlertNext]_alertVars =>
        [\A p \in Processes :
           Fatal(p) \in sender'.pending \ sender.pending => p \in fell]_alertVars
  <2> SUFFICES ASSUME Typed, FallInv, [AlertNext]_alertVars, NEW p \in Processes,
                      Fatal(p) \in sender'.pending \ sender.pending
               PROVE  p \in fell
      OBVIOUS
  <2>1. Detects
      BY OnlyDetectsRaises
  <2>2. \E q \in Listed : TurnedFatal(q) /\ Fatal(p) = Fatal(q)
    <3>1. sender'.pending = {Fatal(q) : q \in {r \in Listed : TurnedFatal(r)}}
             \cup {Flapping(q) : q \in {r \in Listed : TurnedFlapping(r)}}
        BY <2>1 DEF Detects, Nothing
    <3>2. \A q : Fatal(p) # Flapping(q)
        BY DEF Fatal, Flapping
    <3> QED BY <3>1, <3>2
  <2>3. TurnedFatal(p) /\ poller.at = "tracked"
      BY <2>1, <2>2 DEF Fatal, Detects
  <2> QED BY <2>3 DEF TurnedFatal, FallInv
<1> QED BY <1>1, <1>2, InitTyped, NextTyped, NextFalls, PTL DEF AlertSpec, OneAlertPerFall
-----------------------------------------------------------------------------
(* The duplicate window *)

\* No channel was told later than the alert was last handled; what is being sent
\* was handled at the time of its occurrence, and no channel that it still goes
\* to was told within the window before.
ToldBefore(channels) ==
  /\ recent[sender.current] = sender.age
  /\ \A c \in channels : told[<<sender.current, c>>] - sender.age >= Window

WindowInv ==
  /\ \A a \in Alerts, c \in Channels : told[<<a, c>>] >= recent[a]
  /\ poller.at = "match" => ToldBefore(Channels)
  /\ sender.left # {} => ToldBefore(sender.left)

LEMMA WindowFacts ==
  ASSUME Typed
  PROVE  /\ sender \in Sender /\ sender.age \in 0 .. MaxDelay
         /\ \A a \in Alerts : recent[a] \in 0 .. Never
         /\ \A a \in Alerts, c \in Channels : told[<<a, c>>] \in 0 .. Never
         /\ poller.at = "match" \/ sender.left # {} =>
              sender.current \in Alerts /\ Sending
         /\ poller.at = "match" => sender.left = {}
         /\ sender.left \subseteq Channels
BY DEF Typed, SenderTyped, AgesTyped, Sender, Sending

\* Ages grow alike up to Never, which no occurrence within reach has.
LEMMA OlderAlike ==
  ASSUME NEW x \in 0 .. Never, NEW y \in 0 .. Never
  PROVE  /\ x >= y => Older(x, Never) >= Older(y, Never)
         /\ x < MaxDelay => Older(x, Never) = x + 1
         /\ x < MaxDelay /\ y - x >= Window => Older(y, Never) - (x + 1) >= Window
BY Bounds DEF Older

LEMMA TickWindow ==
  ASSUME Typed, WindowInv, Tick
  PROVE  WindowInv'
<1>1. /\ \A a \in Alerts : recent'[a] = Older(recent[a], Never)
      /\ \A a \in Alerts, c \in Channels : told'[<<a, c>>] = Older(told[<<a, c>>], Never)
    BY DEF Tick
<1>2. \A a \in Alerts, c \in Channels : told'[<<a, c>>] >= recent'[a]
    BY <1>1, WindowFacts, OlderAlike DEF WindowInv
<1>3. ASSUME NEW channels \in SUBSET Channels, ToldBefore(channels),
             sender.current \in Alerts, Sending
      PROVE  ToldBefore(channels)'
  <2>1. /\ sender.age < MaxDelay /\ sender.age \in 0 .. Never
        /\ sender' = [sender EXCEPT !.age = sender.age + 1]
      BY <1>3, WindowFacts, Bounds DEF Tick
  <2>2. sender'.current = sender.current /\ sender'.age = sender.age + 1
      BY <2>1, WindowFacts DEF Sender
  <2>3. recent'[sender.current] = sender.age + 1
      BY <1>1, <1>3, <2>1, OlderAlike DEF ToldBefore
  <2>4. ASSUME NEW c \in channels
        PROVE  told'[<<sender.current, c>>] - (sender.age + 1) >= Window
    <3>1. told[<<sender.current, c>>] \in 0 .. Never
        BY <1>3, WindowFacts
    <3>2. told[<<sender.current, c>>] - sender.age >= Window
        BY <1>3 DEF ToldBefore
    <3>3. told'[<<sender.current, c>>] = Older(told[<<sender.current, c>>], Never)
        BY <1>1, <1>3
    <3> QED BY <2>1, <3>1, <3>2, <3>3, OlderAlike
  <2> QED BY <2>2, <2>3, <2>4 DEF ToldBefore
<1>4. UNCHANGED poller /\ sender'.left = sender.left
    BY WindowFacts DEF Tick, Sender
<1>5. poller'.at = "match" => ToldBefore(Channels)'
    BY <1>3, <1>4, WindowFacts DEF WindowInv
<1>6. sender.left # {} => ToldBefore(sender.left)'
  <2>1. ASSUME sender.left # {} PROVE ToldBefore(sender.left)'
    <3>1. recent'[sender'.current] = sender'.age
        BY <1>3, <2>1, WindowFacts DEF WindowInv, ToldBefore
    <3>2. \A c \in sender.left : told'[<<sender'.current, c>>] - sender'.age >= Window
        BY <1>3, <2>1, WindowFacts DEF WindowInv, ToldBefore
    <3> QED BY <3>1, <3>2, <1>4 DEF ToldBefore
  <2> QED BY <2>1
<1> QED BY <1>2, <1>4, <1>5, <1>6 DEF WindowInv

LEMMA PicksWindow ==
  ASSUME Typed, WindowInv, NEW a \in Alerts, Picks(a)
  PROVE  WindowInv'
<1>1. sender.left = {} /\ poller.at = "send"
    BY DEF Picks, Typed, SenderTyped
<1>2. CASE Duplicate(a)
  <2>1. UNCHANGED <<recent, told, poller>> /\ sender'.left = {}
      BY <1>1, <1>2, WindowFacts DEF Picks, Sender
  <2> QED BY <1>1, <2>1 DEF WindowInv
<1>3. CASE ~ Duplicate(a)
  <2>1. /\ recent' = [recent EXCEPT ![a] = sender.age] /\ UNCHANGED told
        /\ sender' = [sender EXCEPT !.pending = @ \ {a}, !.current = a]
      BY <1>3 DEF Picks
  <2>2. sender'.current = a /\ sender'.age = sender.age /\ sender'.left = {}
      BY <1>1, <2>1, WindowFacts DEF Sender
  <2>3. /\ recent'[a] = sender.age
        /\ \A b \in Alerts : b # a => recent'[b] = recent[b]
      BY <2>1 DEF Typed, AgesTyped
  <2>4. \A c \in Channels : told[<<a, c>>] - sender.age >= Window
    <3>1. recent[a] - sender.age >= Window
        BY <1>3, WindowFacts, Bounds DEF Duplicate
    <3> QED BY <3>1, WindowFacts, Bounds DEF WindowInv
  <2>5. \A b \in Alerts, c \in Channels : told'[<<b, c>>] >= recent'[b]
    <3>1. ASSUME NEW b \in Alerts, NEW c \in Channels
          PROVE  told[<<b, c>>] >= recent'[b]
      <4>1. told[<<b, c>>] \in Int /\ recent[b] \in Int /\ sender.age \in Int
          BY WindowFacts, Bounds
      <4>2. CASE b = a
        <5>1. told[<<a, c>>] - sender.age >= Window
            BY <2>4
        <5> QED BY <2>3, <4>1, <4>2, <5>1, Bounds
      <4>3. CASE b # a
          BY <2>3, <4>3 DEF WindowInv
      <4> QED BY <4>2, <4>3
    <3> QED BY <2>1, <3>1
  <2>6. ToldBefore(Channels)'
      BY <2>1, <2>2, <2>3, <2>4 DEF ToldBefore
  <2> QED BY <2>2, <2>5, <2>6 DEF WindowInv
<1> QED BY <1>2, <1>3

LEMMA DispatchesWindow ==
  ASSUME Typed, WindowInv, NEW c \in Channels, Dispatches(c)
  PROVE  WindowInv'
<1> DEFINE a == sender.current
<1>1. /\ sender'.left = sender.left \ {c} /\ sender'.age = sender.age
      /\ sender'.left # {} => sender'.current = a
      /\ a \in Alerts /\ UNCHANGED <<recent, poller>> /\ poller.at = "send"
      /\ c \in sender.left
    BY DispatchFacts DEF Dispatches
<1>2. ToldBefore(sender.left)
    BY <1>1 DEF WindowInv
<1>3. told' = told \/ told' = [told EXCEPT ![<<a, c>>] = sender.age]
    BY DEF Dispatches
<1>4. \A b \in Alerts, d \in Channels :
        told'[<<b, d>>] = told[<<b, d>>] \/ (b = a /\ d = c /\ told'[<<b, d>>] = sender.age)
    BY <1>1, <1>3 DEF Typed, AgesTyped
<1>5. \A b \in Alerts, d \in Channels : told'[<<b, d>>] >= recent'[b]
  <2>1. ASSUME NEW b \in Alerts, NEW d \in Channels
        PROVE  told'[<<b, d>>] >= recent[b]
    <3>1. CASE told'[<<b, d>>] = told[<<b, d>>]
        BY <3>1 DEF WindowInv
    <3>2. CASE b = a /\ told'[<<b, d>>] = sender.age
      <4>1. recent[a] = sender.age /\ sender.age \in Int
          BY <1>2, WindowFacts, Bounds DEF ToldBefore
      <4> QED BY <3>2, <4>1
    <3> QED BY <1>4, <3>1, <3>2
  <2> QED BY <1>1, <2>1
<1>6. sender'.left # {} => ToldBefore(sender.left)'
    BY <1>1, <1>2, <1>4, WindowFacts DEF ToldBefore
<1> QED BY <1>1, <1>5, <1>6 DEF WindowInv
LEMMA NextWindow ==
  Typed /\ WindowInv /\ [AlertNext]_alertVars => WindowInv'
<1> SUFFICES ASSUME Typed, WindowInv, [AlertNext]_alertVars PROVE WindowInv'
    OBVIOUS
<1>1. CASE Tick
    BY <1>1, TickWindow
<1>2. CASE \E a \in Alerts : Picks(a)
    BY <1>2, PicksWindow
<1>3. CASE \E c \in Channels : Dispatches(c)
    BY <1>3, DispatchesWindow
<1>4. CASE Matches
  <2>1. UNCHANGED <<recent, told>> /\ poller'.at = "send" /\ ToldBefore(Channels)
      BY <1>4 DEF Matches, WindowInv, PollerAt, At
  <2>2. PICK S \in SUBSET Channels :
          sender' = IF S = {} THEN [sender EXCEPT !.current = NoAlert]
                              ELSE [sender EXCEPT !.left = S]
      BY <1>4 DEF Matches
  <2>3. /\ sender'.left = S /\ sender'.age = sender.age
        /\ S # {} => sender'.current = sender.current
      BY <1>4, <2>2, WindowFacts DEF Matches, Sender
  <2> QED BY <2>1, <2>3 DEF WindowInv, ToldBefore
<1>5. CASE Reading \/ Detects \/ Finishes \/ Wakes \/ PollerStarts \/ PollerAborted
  <2>1. UNCHANGED <<recent, told>>
      BY <1>5 DEF Reading, Reads, Tracks, ReadFails, Detects, Finishes, Wakes,
                  PollerStarts, PollerAborted
  <2>2. poller'.at # "match"
    <3>1. \A step : PollerAt(step) => poller'.at = step
        BY DEF PollerAt, At
    <3> QED BY <1>5, <3>1 DEF Reading, Reads, Tracks, ReadFails, Detects, Finishes, Wakes,
                              PollerStarts, PollerAborted
  <2>3. sender'.left = {}
    <3>1. CASE sender' = Nothing
        BY <3>1, NothingTyped
    <3>2. CASE Detects
        BY <3>2 DEF Detects, Nothing
    <3>3. CASE Reading \/ Wakes \/ PollerStarts
      <4>1. UNCHANGED sender /\ poller.at \notin {"send", "match"}
          BY <3>3 DEF Reading, Reads, Tracks, ReadFails, Wakes, PollerStarts
      <4> QED BY <4>1 DEF Typed, SenderTyped, Sending
    <3> QED BY <1>5, <3>1, <3>2, <3>3 DEF Finishes, PollerAborted
  <2> QED BY <2>1, <2>2, <2>3 DEF WindowInv
<1>6. CASE (\E p \in Processes : Changes(p)) \/ UNCHANGED alertVars
  <2>1. UNCHANGED <<recent, told, poller, sender>>
      BY <1>6 DEF Changes, StartsUp, GoesDown, GoesFatal, Leaves, Returns, World, alertVars
  <2> QED BY <2>1 DEF WindowInv, ToldBefore
<1> QED BY <1>1, <1>2, <1>3, <1>4, <1>5, <1>6 DEF AlertNext, Sends

\* A channel is told about one alert at most once within the duplicate window,
\* however long its handling takes and however often the poller restarts
\* (notifier.rs, is_duplicate).
THEOREM ToldOncePerWindow == AlertSpec => TellsOncePerWindow
<1>1. AlertInit => WindowInv
  <2> SUFFICES ASSUME AlertInit PROVE WindowInv
      OBVIOUS
  <2>1. \A a \in Alerts, c \in Channels : told[<<a, c>>] = Never /\ recent[a] = Never
      BY DEF AlertInit
  <2>2. poller.at = "off" /\ sender.left = {}
      BY NothingTyped DEF AlertInit, At
  <2> QED BY <2>1, <2>2, Bounds DEF WindowInv
<1>2. Typed /\ WindowInv /\ [AlertNext]_alertVars =>
        [\A c \in sender.left \ sender'.left :
           told' # told => told[<<sender.current, c>>] - sender.age >= Window]_alertVars
  <2> SUFFICES ASSUME Typed, WindowInv, [AlertNext]_alertVars,
                      NEW c \in sender.left \ sender'.left, told' # told
               PROVE  told[<<sender.current, c>>] - sender.age >= Window
      OBVIOUS
  <2>1. ToldBefore(sender.left)
      BY DEF WindowInv
  <2> QED BY <2>1 DEF ToldBefore
<1> QED BY <1>1, <1>2, InitTyped, NextTyped, NextWindow, PTL
        DEF AlertSpec, TellsOncePerWindow

-----------------------------------------------------------------------------
(* A fall is noticed *)

Fallen(p) == proc[p].state = "fatal" /\ ~prev[p].fatal
Noticed(p) == proc[p].state # "fatal" \/ prev[p].fatal

\* The fall of p is in what the poller has read and not yet compared.
Underway(p) == poller.at \in {"read", "tracked"} /\ poller.seen[p].state = "fatal"

LEMMA ReadsSee ==
  ASSUME NEW p \in Processes, Fallen(p), <<Reads>>_alertVars
  PROVE  Underway(p)'
BY DEF Reads, Underway, Fallen

LEMMA StaysUnderway ==
  ASSUME NEW p \in Processes, Typed, Underway(p), [AlertNext]_alertVars,
         Fallen(p)', poller'.at # "off"
  PROVE  Underway(p)'
<1>1. poller.at # "snapshot" /\ poller.at \notin {"send", "match", "sleep", "off"}
    BY DEF Underway
<1>2. CASE Tracks
    BY <1>2 DEF Tracks, Underway
<1>3. CASE Detects
  <2>1. p \in Listed /\ Observed(p).fatal
      BY DEF Underway, Listed, Observed, IsFatal
  <2>2. prev'[p] = Observed(p)
      BY <1>3, <2>1 DEF Detects
  <2> QED BY <2>1, <2>2 DEF Fallen
<1>4. CASE (\E q \in Processes : Changes(q)) \/ Tick \/ UNCHANGED alertVars
  <2>1. UNCHANGED poller
      BY <1>4 DEF Changes, StartsUp, GoesDown, GoesFatal, Leaves, Returns, World, Tick,
                  alertVars
  <2> QED BY <2>1 DEF Underway
<1>5. CASE PollerAborted
    BY <1>5 DEF PollerAborted, PollerAt, At
<1>6. ~(Reads \/ ReadFails \/ Sends \/ Wakes \/ PollerStarts)
    BY <1>1 DEF Reads, ReadFails, Sends, Picks, Matches, Finishes, Dispatches, Wakes,
                PollerStarts
<1> QED BY <1>2, <1>3, <1>4, <1>5, <1>6 DEF AlertNext, Reading

\* A process that falls and stays FATAL is noticed by a poller that is watched
\* for good, provided that its rounds end and that a server which is asked again
\* and again answers again and again (realtime.rs, poll_loop and detect_alerts).
THEOREM FallsAreNoticed == AlertSpec /\ Answers /\ RoundsEnd => FallIsNoticed
<1> SUFFICES ASSUME NEW CONSTANT p \in Processes
             PROVE  AlertSpec /\ Answers /\ RoundsEnd /\ Watched =>
                      ((prev[p].known /\ ~prev[p].fatal /\ proc[p].state = "fatal")
                         ~> (proc[p].state # "fatal" \/ prev[p].fatal))
    BY DEF FallIsNoticed
<1> DEFINE K == Fallen(p)
           R == Underway(p)
           F == prev[p].known /\ ~prev[p].fatal /\ proc[p].state = "fatal"
           G == proc[p].state # "fatal" \/ prev[p].fatal
           On == poller.at # "off"
           Asks == poller.at = "snapshot"
<1>1. K /\ <<Reads>>_alertVars => R'
    BY ReadsSee
<1>2. Typed /\ R /\ [AlertNext]_alertVars /\ K' /\ On' => R'
    BY StaysUnderway
<1>3. R => ~Asks
    BY DEF Underway
<1>4. G \/ K
    BY DEF Fallen
<1>5. AlertSpec => []Typed /\ [][AlertNext]_alertVars
    BY InitTyped, NextTyped, PTL DEF AlertSpec
<1>6. Answers /\ RoundsEnd /\ Watched =>
        <>[]On /\ []<>Asks /\ []<><<Reads>>_alertVars
    BY PTL DEF Answers, RoundsEnd, Watched
<1> HIDE DEF K, R, F, G, On, Asks
<1>7. AlertSpec /\ Answers /\ RoundsEnd /\ Watched => (F ~> G)
    BY <1>1, <1>2, <1>3, <1>4, <1>5, <1>6, PTL
<1> QED BY <1>7 DEF F, G
=============================================================================
