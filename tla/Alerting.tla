------------------------------ MODULE Alerting ------------------------------
(***************************************************************************)
(* From a process that restarts or goes FATAL to a message in a channel:   *)
(*                                                                         *)
(*   poll_loop (realtime.rs)         reads the server every few seconds    *)
(*   track_restarts (service.rs)     counts restarts, flags flapping       *)
(*   detect_alerts (realtime.rs)     compares with the previous snapshot   *)
(*   handle_alert (notifier.rs)      drops duplicates, sends to channels   *)
(*                                                                         *)
(* One server and its poller.  The poller is a task: it may be aborted at  *)
(* each await (the last view unsubscribes, see Subscriptions) and started  *)
(* again later; what it has written to the shared maps stays.  Each action *)
(* is what the poller does from one await to the next.                     *)
(*                                                                         *)
(* Time is discrete and kept as ages.  Both the duplicate window and the   *)
(* flapping window are 60 s, Window ticks; an older restart event never    *)
(* counts, whether it is still kept (for 300 s) or not.                    *)
(***************************************************************************)
EXTENDS Integers, Sequences, FiniteSets, SequencesExt

CONSTANTS
  Processes,   \* processes of the server
  Channels,    \* notification channels
  Window,      \* the 60 s windows, in ticks
  FlapCount,   \* restarts within the window that make a process flap
  MaxDelay,    \* bound: ticks between detecting an alert and handling it
  MaxStarts    \* bound: starts of a process

ASSUME AlertAssumption ==
  /\ Window \in Nat \ {0} /\ FlapCount \in Nat \ {0}
  /\ MaxDelay \in Nat /\ MaxStarts \in Nat \ {0}

VARIABLES
  proc,     \* process -> state and starts so far; the pid is the last start
  poller,   \* where the poller is and what it has read
  hist,     \* proc_history: last pid, restarts, ages of the restarts
  prev,     \* alert_prev: was it FATAL, was it flapping, or Unknown
  sender,   \* the alerts of the poll under way, and the one being sent
  recent,   \* NotifierState: alert -> age of its last occurrence
  fell,     \* history: processes that went FATAL since their last alert
  told      \* history: alert, channel -> age of the last alert sent there

alertVars == <<proc, poller, hist, prev, sender, recent, fell, told>>

Alerts == [process : Processes, type : {"fatal", "flapping"}]
Fatal(p) == [process |-> p, type |-> "fatal"]
Flapping(p) == [process |-> p, type |-> "flapping"]

Never == Window + MaxDelay
NoHist == [known |-> FALSE, pid |-> 0, restarts |-> 0, events |-> <<>>]
Unknown == [known |-> FALSE, fatal |-> FALSE, flapping |-> FALSE]
NoAlert == [process |-> "none", type |-> "none"]
Nothing == [pending |-> {}, age |-> 0, current |-> NoAlert, left |-> {}]

Unread == [p \in Processes |-> [state |-> "absent", starts |-> 0]]
At(step) == [at |-> step, seen |-> Unread, flapping |-> {}]
PollerAt(step) == poller' = At(step)

-----------------------------------------------------------------------------
(* supervisord *)

\* A pid is never used twice; only a running process has one.
Pid(r) == IF r.state = "running" THEN r.starts ELSE 0

World(p, from, to) ==
  /\ proc[p].state \in from
  /\ proc' = [proc EXCEPT ![p].state = to]
  /\ UNCHANGED <<poller, hist, prev, sender, recent, told>>

StartsUp(p) ==
  /\ proc[p].state \in {"stopped", "fatal"} /\ proc[p].starts < MaxStarts
  /\ proc' = [proc EXCEPT ![p] = [state |-> "running", starts |-> @.starts + 1]]
  /\ UNCHANGED <<poller, hist, prev, sender, recent, fell, told>>

GoesDown(p) == World(p, {"running"}, "stopped") /\ UNCHANGED fell
GoesFatal(p) == World(p, {"stopped"}, "fatal") /\ fell' = fell \cup {p}

\* A program leaves the configuration and comes back.
Leaves(p) == World(p, {"stopped", "fatal"}, "absent") /\ UNCHANGED fell
Returns(p) == World(p, {"absent"}, "stopped") /\ UNCHANGED fell

-----------------------------------------------------------------------------
(* snapshot(): the answer of supervisord, then track_restarts() *)

\* The answer; measuring cpu and memory and fetching the configuration follow.
Reads ==
  /\ poller.at = "snapshot"
  /\ poller' = [at |-> "read", seen |-> proc, flapping |-> {}]
  /\ UNCHANGED <<proc, hist, prev, sender, recent, fell, told>>

Restarted(h, pid) == h.known /\ pid > 0 /\ pid # h.pid

\* mutant: the last pid is not remembered
TrackedOnce(h, pid) ==
  LET more == IF Restarted(h, pid) THEN 1 ELSE 0 IN
  [known |-> TRUE, pid |-> IF h.known THEN h.pid ELSE pid,
   restarts |-> h.restarts + more,
   events |-> h.events \o [i \in 1..more |-> 0]]

Tracked(h, pid) ==
  LET more == IF Restarted(h, pid) THEN 1 ELSE 0 IN
  [known |-> TRUE, pid |-> pid, restarts |-> h.restarts + more,
   events |-> h.events \o [i \in 1..more |-> 0]]

\* mutant: restarts never expire
EverRestarted(events) == Len(events) >= FlapCount

\* Enough restarts within the window.
Unsteady(events) ==
  Cardinality({i \in DOMAIN events : events[i] < Window}) >= FlapCount

Listed == {p \in Processes : poller.seen[p].state # "absent"}

\* The history of every listed process is brought up to date and the snapshot
\* is emitted; recording the metrics comes next.
Tracks ==
  /\ poller.at = "read"
  /\ hist' = [p \in Processes |-> IF p \in Listed
                THEN Tracked(hist[p], Pid(poller.seen[p])) ELSE hist[p]]
  /\ poller' = [at |-> "tracked", seen |-> poller.seen,
                flapping |-> {p \in Listed : Unsteady(hist'[p].events)}]
  /\ UNCHANGED <<proc, prev, sender, recent, fell, told>>

\* mutant: the poll loop ends with the first error
ReadEnds ==
  /\ poller.at = "snapshot"
  /\ PollerAt("ended")
  /\ UNCHANGED <<proc, hist, prev, sender, recent, fell, told>>

\* The server cannot be read: an error event, and the next round.
ReadFails ==
  /\ poller.at = "snapshot"
  /\ PollerAt("sleep")
  /\ UNCHANGED <<proc, hist, prev, sender, recent, fell, told>>

-----------------------------------------------------------------------------
(* detect_alerts() *)

IsFatal(p) == poller.seen[p].state = "fatal"
Flaps(p) == p \in poller.flapping

\* mutant: level instead of edge
WhileFatal(p) == prev[p].known /\ IsFatal(p)

TurnedFatal(p) == prev[p].known /\ IsFatal(p) /\ ~prev[p].fatal
TurnedFlapping(p) == prev[p].known /\ Flaps(p) /\ ~prev[p].flapping

Observed(p) == [known |-> TRUE, fatal |-> IsFatal(p), flapping |-> Flaps(p)]

\* A process seen for the first time raises nothing, and one that is not
\* listed is forgotten.
Detects ==
  LET fatal == {p \in Listed : TurnedFatal(p)}
      flapping == {p \in Listed : TurnedFlapping(p)}
  IN
  /\ poller.at = "tracked"
  /\ PollerAt("send")
  /\ prev' = [p \in Processes |->
                IF p \in Listed THEN Observed(p) ELSE Unknown]
  /\ sender' = [Nothing EXCEPT !.pending = {Fatal(p) : p \in fatal}
                                           \cup {Flapping(p) : p \in flapping}]
  /\ fell' = fell \ fatal
  /\ UNCHANGED <<proc, hist, recent, told>>

-----------------------------------------------------------------------------
(* handle_alert() *)

\* mutant: only the very moment of the last alert is in the window
SameMoment(a) == recent[a] = sender.age

\* Both are times of occurrence: of this alert and of the last one.
Duplicate(a) == recent[a] - sender.age < Window

Picks(a) ==
  /\ poller.at = "send" /\ sender.current = NoAlert
  /\ a \in sender.pending
  /\ IF Duplicate(a)
     THEN /\ sender' = [sender EXCEPT !.pending = @ \ {a}]
          /\ UNCHANGED <<recent, poller>>
     ELSE /\ sender' = [sender EXCEPT !.pending = @ \ {a}, !.current = a]
          /\ recent' = [recent EXCEPT ![a] = sender.age]
          /\ PollerAt("match")
  /\ UNCHANGED <<proc, hist, prev, fell, told>>

\* mutant: an alert that no channel wants is not given up
MatchesSome ==
  /\ poller.at = "match"
  /\ \E S \in SUBSET Channels : sender' = [sender EXCEPT !.left = S]
  /\ PollerAt("send")
  /\ UNCHANGED <<proc, hist, prev, recent, fell, told>>

\* The channels whose filters fit; none when the database cannot be read.
Matches ==
  /\ poller.at = "match"
  /\ \E S \in SUBSET Channels :
       sender' = IF S = {} THEN [sender EXCEPT !.current = NoAlert]
                           ELSE [sender EXCEPT !.left = S]
  /\ PollerAt("send")
  /\ UNCHANGED <<proc, hist, prev, recent, fell, told>>

\* One dispatch, ending well or not, and its record: the others go on.
Dispatches(c) ==
  LET left == sender.left \ {c} IN
  /\ poller.at = "send" /\ c \in sender.left
  /\ sender' = [sender EXCEPT !.left = left,
                              !.current = IF left = {} THEN NoAlert ELSE @]
  /\ told' \in {told, [told EXCEPT ![<<sender.current, c>>] = sender.age]}
  /\ UNCHANGED <<proc, poller, hist, prev, recent, fell>>

Finishes ==
  /\ poller.at = "send" /\ sender.current = NoAlert /\ sender.pending = {}
  /\ PollerAt("sleep")
  /\ sender' = Nothing
  /\ UNCHANGED <<proc, hist, prev, recent, fell, told>>

Wakes ==
  /\ poller.at = "sleep"
  /\ PollerAt("snapshot")
  /\ UNCHANGED <<proc, hist, prev, sender, recent, fell, told>>

\* The first view subscribes; the last one leaves.
PollerStarts ==
  /\ poller.at = "off"
  /\ PollerAt("snapshot")
  /\ UNCHANGED <<proc, hist, prev, sender, recent, fell, told>>

PollerAborted ==
  /\ poller.at # "off"
  /\ PollerAt("off")
  /\ sender' = Nothing
  /\ UNCHANGED <<proc, hist, prev, recent, fell, told>>

-----------------------------------------------------------------------------
Older(age, limit) == IF age < limit THEN age + 1 ELSE limit
Sending == sender.pending # {} \/ sender.current # NoAlert

Tick ==
  /\ Sending => sender.age < MaxDelay
  /\ recent' = [a \in Alerts |-> Older(recent[a], Never)]
  /\ told' = [x \in Alerts \X Channels |-> Older(told[x], Never)]
  /\ hist' = [p \in Processes |-> [hist[p] EXCEPT !.events =
                [i \in DOMAIN @ |-> Older(@[i], Window)]]]
  /\ sender' = IF Sending THEN [sender EXCEPT !.age = @ + 1] ELSE sender
  /\ UNCHANGED <<proc, poller, prev, fell>>

AlertInit ==
  /\ proc \in [Processes -> [state : {"running", "fatal"}, starts : {1}]]
  /\ poller = At("off")
  /\ hist = [p \in Processes |-> NoHist]
  /\ prev = [p \in Processes |-> Unknown]
  /\ sender = Nothing
  /\ recent = [a \in Alerts |-> Never]
  /\ fell = {p \in Processes : proc[p].state = "fatal"}
  /\ told = [x \in Alerts \X Channels |-> Never]

Changes(p) ==
  StartsUp(p) \/ GoesDown(p) \/ GoesFatal(p) \/ Leaves(p) \/ Returns(p)
Reading == Reads \/ Tracks \/ ReadFails
Sends ==
  \/ \E a \in Alerts : Picks(a)
  \/ Matches \/ Finishes
  \/ \E c \in Channels : Dispatches(c)

AlertNext ==
  \/ \E p \in Processes : Changes(p)
  \/ Reading \/ Detects \/ Sends \/ Wakes
  \/ PollerStarts \/ PollerAborted
  \/ Tick

AlertSpec == AlertInit /\ [][AlertNext]_alertVars

\* The poller is a task of the executor with timeouts on what it awaits, the
\* server can be read again and again, and time passes.
AlertFairness ==
  /\ SF_alertVars(Reads)
  /\ WF_alertVars(Tracks \/ ReadFails)
  /\ WF_alertVars(Detects \/ Sends \/ Wakes)
  /\ WF_alertVars(Tick)

FairAlertSpec == AlertSpec /\ AlertFairness

-----------------------------------------------------------------------------
(* Properties *)

\* The state has its types; an alert is being sent only while channels are
\* looked up or left, and a poll that is over owes nothing.
AlertTypeOK ==
  /\ proc \in [Processes -> [state : {"running", "stopped", "fatal", "absent"},
                             starts : 1..MaxStarts]]
  /\ poller.at \in {"off", "snapshot", "read", "tracked", "send", "match", "sleep"}
  /\ poller.flapping \subseteq Processes
  /\ \A p \in Processes : /\ hist[p].pid \in 0..MaxStarts
                           /\ \A i \in DOMAIN hist[p].events :
                                hist[p].events[i] \in 0..Window
  /\ prev \in [Processes -> [known : BOOLEAN, fatal : BOOLEAN, flapping : BOOLEAN]]
  /\ sender.pending \subseteq Alerts /\ sender.left \subseteq Channels
  /\ recent \in [Alerts -> 0..Never] /\ told \in [Alerts \X Channels -> 0..Never]
  /\ fell \subseteq Processes
  /\ Sending => poller.at \in {"send", "match"}
  /\ sender.current # NoAlert <=> poller.at = "match" \/ sender.left # {}

\* service.rs, track_restarts: what is counted are restarts.  No start of a
\* process is counted twice, however late a snapshot is evaluated and however
\* often the poller is stopped between reading and tracking.
RestartsAreReal ==
  \A p \in Processes : hist[p].restarts < proc[p].starts

\* realtime.rs, detect_alerts: FATAL is reported on the transition.  Every
\* FATAL alert that is raised stands for a fall of its own since the last one,
\* also when the poller was stopped and started in between.
OneAlertPerFall ==
  [][\A p \in Processes :
       Fatal(p) \in sender'.pending \ sender.pending => p \in fell]_alertVars

\* notifier.rs, is_duplicate: within the window a channel is told about the
\* same alert once, however often the process falls and the poller restarts.
TellsOncePerWindow ==
  [][\A c \in sender.left \ sender'.left :
       told' # told => told[<<sender.current, c>>] - sender.age >= Window]_alertVars

\* Some view keeps watching the server for good.
Watched == <>[](poller.at # "off")

\* realtime.rs, poll_loop: whatever was detected, whoever is to be told and
\* whatever fails, a round of a poller that is not stopped comes to its end and
\* the server is asked again.
RoundsEnd == Watched => []<>(poller.at = "snapshot")

\* The fairness of Reads, its guard written out: a server that is asked again and
\* again answers again and again.
Answers == []<>(poller.at = "snapshot") => []<><<Reads>>_alertVars

\* A process that was seen in another state, falls and stays FATAL is noticed,
\* however many reads of its server fail and however the poller was stopped
\* before.
FallIsNoticed ==
  Watched =>
    \A p \in Processes :
      (prev[p].known /\ ~prev[p].fatal /\ proc[p].state = "fatal")
        ~> (proc[p].state # "fatal" \/ prev[p].fatal)

\* Flapping is a state that ends: a process that no longer restarts stops
\* being flagged.
FlappingEnds ==
  Watched =>
    \A p \in Processes :
      (prev[p].flapping /\ proc[p].state # "absent") ~> ~prev[p].flapping
=============================================================================
