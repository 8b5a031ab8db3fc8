--------------------------- MODULE Subscriptions ---------------------------
(***************************************************************************)
(* Reference-counted snapshot subscriptions, end to end:                   *)
(*                                                                         *)
(*   frontend store          IPC                       Rust backend        *)
(*   subscriptions[s]  --rt_subscribe/rt_unsubscribe-->  pollers[s]        *)
(*                                                                         *)
(* The store (stores/realtime.js) counts the views that want live data of  *)
(* a server and calls the backend only when that count leaves or reaches   *)
(* zero.  The call is `ipc(...).catch(() => {})` (api/socket.js): nobody   *)
(* awaits it, so a call is a message in flight until the backend task that *)
(* serves it takes the `pollers` mutex.  The backend (realtime.rs) keeps   *)
(* one poll task per server with a reference count of its own.             *)
(*                                                                         *)
(* Two calls in flight need not keep their order: every async command is a *)
(* task of its own on a multi-threaded executor.  The page can be reloaded. *)
(* tidy records whether neither has happened yet.                          *)
(***************************************************************************)
EXTENDS Integers, Sequences, FiniteSets, SequencesExt

CONSTANTS
  Servers,      \* server ids
  MaxHolders,   \* bound: views that hold one server at the same time
  MaxWire,      \* bound: calls in flight for one server
  MaxReloads    \* bound: reloads of the webview page

ASSUME BoundsAssumption ==
  /\ MaxHolders \in Nat \ {0}
  /\ MaxWire \in Nat
  /\ MaxReloads \in Nat

VARIABLES
  subscriptions,  \* store: server -> number of views that hold it
  wire,           \* server -> calls emitted and not yet executed, oldest first
  pollers,        \* backend: server -> refcount of its PollerEntry, 0 = no entry
  reloads,        \* webview reloads so far (counts against MaxReloads)
  tidy            \* history: no reload, and every call executed in its turn

subVars == <<subscriptions, wire, pollers, reloads, tidy>>

Commands == {"subscribe", "unsubscribe"}
NoCalls == [s \in Servers |-> 0]

-----------------------------------------------------------------------------
(* The store *)

\* What is left of a count of c after n calls of unsubscribe(); the call is
\* ignored when the count is already zero.
Released(c, n) == IF n >= c THEN 0 ELSE c - n

Emit(calls, condition, command) ==
  IF condition THEN Append(calls, command) ELSE calls

\* mutants of the store: an emit per call instead of one per busy period
EmitOnEverySubscribe(c, lost, gained, calls) ==
  LET mid == Released(c, lost) IN
  Emit(Emit(calls, c > 0 /\ mid = 0, "unsubscribe"), gained > 0, "subscribe")
EmitOnEveryUnsubscribe(c, lost, gained, calls) ==
  LET mid == Released(c, lost) IN
  Emit(Emit(calls, c > 0 /\ lost > 0, "unsubscribe"),
       mid = 0 /\ gained > 0, "subscribe")

\* The calls a count of c emits for n unsubscribes followed by m subscribes.
Emitted(c, lost, gained, calls) ==
  LET mid == Released(c, lost) IN
  Emit(Emit(calls, c > 0 /\ mid = 0, "unsubscribe"),
       mid = 0 /\ gained > 0, "subscribe")

\* One JavaScript task: views call unsubscribe() lost[s] times and then
\* subscribe() gained[s] times.  Run to completion, so no other task of the
\* page is interleaved with it.
Task(lost, gained) ==
  /\ subscriptions' = [s \in Servers |->
                         Released(subscriptions[s], lost[s]) + gained[s]]
  /\ wire' = [s \in Servers |->
                Emitted(subscriptions[s], lost[s], gained[s], wire[s])]
  /\ \A s \in Servers : /\ subscriptions'[s] <= MaxHolders
                        /\ Len(wire'[s]) <= MaxWire
  /\ UNCHANGED <<pollers, reloads, tidy>>

\* The page is reloaded: the store starts empty, calls already handed to the
\* backend are still executed, and the backend keeps its pollers.
Reload ==
  /\ reloads < MaxReloads
  /\ reloads' = reloads + 1
  /\ tidy' = FALSE
  /\ subscriptions' = NoCalls
  /\ UNCHANGED <<wire, pollers>>

-----------------------------------------------------------------------------
(* The backend: each command runs under the pollers mutex from end to end *)

\* The runtime executes the call i of s, which need not be the oldest.
Execute(s, i, command) ==
  /\ i \in DOMAIN wire[s]
  /\ wire[s][i] = command
  /\ tidy' = (tidy /\ i = 1)
  /\ wire' = [wire EXCEPT ![s] = RemoveAt(wire[s], i)]
  /\ UNCHANGED <<subscriptions, reloads>>

\* Start the poller, or count one more holder of the running one.
rt_subscribe(s, i) ==
  /\ Execute(s, i, "subscribe")
  /\ pollers' = [pollers EXCEPT ![s] = @ + 1]

\* mutants of the backend
KeepLastHolder(n) == IF n > 1 THEN n - 1 ELSE n
DropAllHolders(n) == 0

\* refcount > 1: decrement; = 1: remove the entry and abort its task; no
\* entry: nothing to do.
AfterUnsubscribe(n) == IF n > 1 THEN n - 1 ELSE 0

rt_unsubscribe(s, i) ==
  /\ Execute(s, i, "unsubscribe")
  /\ pollers' = [pollers EXCEPT ![s] = AfterUnsubscribe(@)]

-----------------------------------------------------------------------------
SubInit ==
  /\ subscriptions = NoCalls
  /\ wire = [s \in Servers |-> <<>>]
  /\ pollers = NoCalls
  /\ reloads = 0
  /\ tidy = TRUE

SomeTask ==
  \E lost, gained \in [Servers -> 0..MaxHolders] : Task(lost, gained)

Backend(s) == \E i \in DOMAIN wire[s] : rt_subscribe(s, i) \/ rt_unsubscribe(s, i)

SubNext ==
  \/ SomeTask
  \/ Reload
  \/ \E s \in Servers : Backend(s)

\* An emitted call is a spawned task of the executor: it is eventually run.
SubFairness == \A s \in Servers : WF_subVars(Backend(s))

SubSpec == SubInit /\ [][SubNext]_subVars
FairSubSpec == SubSpec /\ SubFairness

-----------------------------------------------------------------------------
(* Properties *)

\* Counts are numbers and calls in flight are commands.
SubTypeOK ==
  /\ subscriptions \in [Servers -> Nat]
  /\ wire \in [Servers -> Seq(Commands)]
  /\ pollers \in [Servers -> Nat]
  /\ reloads \in Nat
  /\ tidy \in BOOLEAN

Held(s) == subscriptions[s] > 0
Idle(s) == wire[s] = <<>>
InFlight(s, command) ==
  Cardinality({i \in DOMAIN wire[s] : wire[s][i] = command})

\* Whatever the order of the calls and however often the page is reloaded, a
\* server some view holds has a poller once its calls are executed: the
\* refcounts of rt_subscribe / rt_unsubscribe never fall below the demand.
HeldIsPolled == \A s \in Servers : Idle(s) /\ Held(s) => pollers[s] > 0

\* The same while calls are in flight: the backend owes the store nothing
\* more than what is already on its way.
NeverUndercounts ==
  \A s \in Servers :
    pollers[s] + InFlight(s, "subscribe")
      >= InFlight(s, "unsubscribe") + (IF Held(s) THEN 1 ELSE 0)

\* realtime.rs, header: the last subscriber to leave cancels the poller.  Once
\* no call is in flight and no view holds the server, no poll task runs.  (It
\* does not hold of every behaviour; InStep says when it does.)
LastLeaverStopsPoller ==
  \A s \in Servers : Idle(s) /\ ~Held(s) => pollers[s] = 0

\* The calls w lead from a backend that polls iff `on` to a store that wants a
\* poller iff `want`, one change at a time.
Linked(w, on, want) ==
  /\ w = <<>> => (on <=> want)
  /\ w # <<>> => /\ w[1] = "subscribe" <=> ~on
                 /\ w[Len(w)] = "subscribe" <=> want
  /\ \A i \in 1..(Len(w) - 1) : w[i] # w[i+1]

\* With calls in order and no reload the page holds at most one reference to a
\* poller, whatever the number of views, and the calls in flight lead exactly
\* from what the backend runs to what the store wants.
InStep ==
  tidy => \A s \in Servers : /\ pollers[s] \in {0, 1}
                             /\ Linked(wire[s], pollers[s] = 1, Held(s))

\* The page stops emitting calls: views come and go, but no count crosses zero.
PageSettles == <>[][\A s \in Servers : Len(wire'[s]) <= Len(wire[s])]_wire

\* Once the page has settled, the pollers settle on its demand: every server
\* that is held is polled for good and every other poller is gone for good.
Converges ==
  PageSettles /\ []tidy =>
    \A s \in Servers : <>[](pollers[s] = IF Held(s) THEN 1 ELSE 0)
=============================================================================
