----------------------------- MODULE LiveViews -----------------------------
(***************************************************************************)
(* The views that share the snapshot subscriptions of Subscriptions.       *)
(*                                                                         *)
(*   list views     ServerListPanel (always on screen), DashboardView,     *)
(*                  ServersView: hold every server of the server list      *)
(*   detail view    ServerDetailView: holds the server of the route        *)
(*                                                                         *)
(* onMounted is asynchronous when the server list is still empty: the view *)
(* awaits fetchAll() first, and the continuation runs even if the view has *)
(* been unmounted meanwhile.  Every action below is one JavaScript task of *)
(* the page (a router navigation, a mount, an IPC answer with the watchers *)
(* and continuations it triggers); the calls it emits and the backend are  *)
(* those of Subscriptions.                                                 *)
(*                                                                         *)
(* A fetch answers with the server list as stored when it resolves.  A     *)
(* view instance is used once: Pages bounds how often a page is mounted.   *)
(***************************************************************************)
EXTENDS Subscriptions

CONSTANTS
  Panel,        \* the ServerListPanel
  Pages,        \* instances of routed pages, each mounted at most once
  NoPage,       \* no routed page on screen (leave transition, other routes)
  MaxEdits      \* bound: servers created or removed

ASSUME ViewAssumption ==
  /\ Panel \notin Pages
  /\ NoPage \notin Pages \cup {Panel}
  /\ MaxEdits \in Nat
  /\ {"lists", "elsewhere"} \cap Servers = {}   \* a route is one or the other

VARIABLES
  route,   \* "lists", "elsewhere", or the server of /servers/:id
  page,    \* the routed page on screen
  known,   \* serversStore.servers
  stored,  \* the servers table
  view,    \* instance -> kind, phase, and the `subscribed` ids of a list view
  edits,   \* servers created or removed so far
  mishaps  \* history: which of Mishaps have happened

viewVars == <<route, page, known, stored, view, edits, mishaps>>
allVars == <<subVars, viewVars>>

Views == Pages \cup {Panel}
Routes == Servers \cup {"lists", "elsewhere"}
Kinds == {"list", "detail"}
\* "early": a navigation while the page on screen was fetching; "unwatched": a
\* detail page was unmounted before its watcher saw the new route.
Mishaps == {"early", "unwatched"}
Phases == {"new", "fetching", "mounted", "orphan", "gone"}

\* "fetching": onMounted awaits fetchAll; "orphan": unmounted while it did.
Alive(v) == view[v].phase \in {"fetching", "mounted"}
Pending(v) == view[v].phase \in {"fetching", "orphan"}
LiveLists == {v \in Views : Alive(v) /\ view[v].kind = "list"}

-----------------------------------------------------------------------------
(* What the views ask of the store *)

One(s) == [t \in Servers |-> IF t = s THEN 1 ELSE 0]
CallsFor(S) == [t \in Servers |-> IF t \in S THEN 1 ELSE 0]
Sum2(f, g) == [t \in Servers |-> f[t] + g[t]]

\* mutant of syncSubscriptions(): it takes every server again
GainedAll(syncing, ids) == [s \in Servers |->
  IF s \in ids THEN Cardinality(syncing) ELSE 0]

\* syncSubscriptions() of several list views: they release the servers that
\* left the list and take the ones that are new in it.
Lost(syncing, ids) == [s \in Servers |->
  Cardinality({v \in syncing : s \in view[v].mine \ ids})]
Gained(syncing, ids) == [s \in Servers |->
  Cardinality({v \in syncing : s \in ids \ view[v].mine})]

Synced(syncing, ids) == [v \in Views |->
  IF v \in syncing THEN [view[v] EXCEPT !.mine = ids] ELSE view[v]]

\* The watchers on the ids of the list run only when the ids changed.
Watching(ids) == IF ids = known THEN {} ELSE LiveLists

-----------------------------------------------------------------------------
(* Navigation *)

\* Links lead to the list pages, to pages without servers, and to the servers
\* of the list.
Targets == (known \cup {"lists", "elsewhere"}) \ {route}

Unmounted(v) == [view EXCEPT ![v].phase = IF @ = "fetching" THEN "orphan"
                                                            ELSE "gone"]

\* mutants: onBeforeUnmount of a list page releases nothing, or twice
ReleaseNothing == NoCalls
ReleaseTwice == Sum2(CallsFor(view[page].mine), CallsFor(view[page].mine))

\* What onBeforeUnmount of a list page releases.
ReleasedOnLeave == CallsFor(view[page].mine)

Hurried == IF Pending(page) THEN {"early"} ELSE {}

\* The routed page stays when only the id of /servers/:id changes: its watcher
\* moves the subscription, whether or not onMounted has subscribed yet.
SwitchServer(to) ==
  /\ page # NoPage /\ route \in Servers /\ to \in Servers \cap Targets
  /\ route' = to
  /\ mishaps' = mishaps \cup Hurried
  /\ Task(One(route), One(to))
  /\ UNCHANGED <<page, known, stored, view, edits>>

\* Any other navigation unmounts the page.  A detail page unsubscribes in its
\* watcher if that still runs (watched: the framework decides); in
\* onBeforeUnmount the route has no id anymore.
LeavePage(to) ==
  /\ page # NoPage /\ to \in Targets
  /\ ~(route \in Servers /\ to \in Servers)
  /\ route' = to
  /\ page' = NoPage
  /\ view' = Unmounted(page)
  /\ \/ /\ view[page].kind = "list"
        /\ Task(ReleasedOnLeave, NoCalls)
        /\ mishaps' = mishaps \cup Hurried
     \/ /\ view[page].kind = "detail"
        /\ \E watched \in BOOLEAN :
             /\ Task(IF watched THEN One(route) ELSE NoCalls, NoCalls)
             /\ mishaps' = mishaps \cup Hurried
                             \cup (IF watched THEN {} ELSE {"unwatched"})
  /\ UNCHANGED <<known, stored, edits>>

\* A navigation while no routed page that holds servers is on screen.
Wander(to) ==
  /\ page = NoPage /\ to \in Targets
  /\ route' = to
  /\ UNCHANGED <<page, known, stored, view, edits, mishaps, subVars>>

\* onMounted up to its first await, or to its end when the list is known.
MountPage(p) ==
  /\ page = NoPage /\ route # "elsewhere"
  /\ view[p].phase = "new"
  /\ page' = p
  /\ LET kind == IF route = "lists" THEN "list" ELSE "detail" IN
     IF known = {}
     THEN /\ view' = [view EXCEPT ![p] = [@ EXCEPT !.kind = kind,
                                                   !.phase = "fetching"]]
          /\ UNCHANGED subVars
     ELSE LET held == IF kind = "list" THEN known ELSE {route} IN
          /\ view' = [view EXCEPT ![p] =
                        [kind |-> kind, phase |-> "mounted",
                         mine |-> IF kind = "list" THEN known ELSE {}]]
          /\ Task(NoCalls, CallsFor(held))
  /\ UNCHANGED <<route, known, stored, edits, mishaps>>

-----------------------------------------------------------------------------
(* Answers of the backend *)

\* fetchAll() keeps the list it has when the call fails.
Answers == {stored, known}

\* fetchAll() of onMounted or refresh() resolves: watchers first, then the continuation of
\* v, which does not look whether v is still mounted.
FetchResolves(v) ==
  /\ Pending(v)
  /\ \E ids \in Answers :
       LET isList == view[v].kind = "list"
           syncing == Watching(ids) \cup (IF isList THEN {v} ELSE {})
           own == IF ~isList /\ route \in Servers THEN One(route) ELSE NoCalls
       IN /\ known' = ids
          /\ Task(Lost(syncing, ids), Sum2(Gained(syncing, ids), own))
          /\ view' = [Synced(syncing, ids) EXCEPT ![v].phase =
                        IF @ = "fetching" THEN "mounted" ELSE "gone"]
  /\ UNCHANGED <<route, page, stored, edits, mishaps>>

\* The list changes in the store and the watchers of the list views run.
ListBecomes(ids) ==
  /\ known' = ids
  /\ Task(Lost(Watching(ids), ids), Gained(Watching(ids), ids))
  /\ view' = Synced(Watching(ids), ids)
  /\ UNCHANGED <<route, page, mishaps>>

\* refresh() of the dashboard up to its await: the page keeps what it holds,
\* and FetchResolves is its continuation.  (The servers page has no refresh;
\* whatever it does, a dashboard that is not refreshed does too.)
RefreshPage ==
  /\ page # NoPage
  /\ view[page].kind = "list" /\ view[page].phase = "mounted"
  /\ view' = [view EXCEPT ![page].phase = "fetching"]
  /\ UNCHANGED <<route, page, known, stored, edits, mishaps, subVars>>

\* fetchAll() of App.vue, which no view awaits.
Refresh ==
  /\ ListBecomes(stored)
  /\ UNCHANGED <<stored, edits>>

CreateServer(s) ==
  /\ edits < MaxEdits /\ s \notin stored
  /\ edits' = edits + 1
  /\ stored' = stored \cup {s}
  /\ ListBecomes(known \cup {s})

RemoveServer(s) ==
  /\ edits < MaxEdits /\ s \in known
  /\ edits' = edits + 1
  /\ stored' = stored \ {s}
  /\ ListBecomes(known \ {s})

-----------------------------------------------------------------------------
ViewInit ==
  /\ SubInit
  /\ route \in Routes
  /\ page = NoPage
  /\ known = {}
  /\ stored \in SUBSET Servers
  /\ view = [v \in Views |->
               [kind |-> "list", mine |-> {},
                phase |-> IF v = Panel THEN "fetching" ELSE "new"]]
  /\ edits = 0
  /\ mishaps = {}

ViewNext ==
  \/ \E to \in Routes : SwitchServer(to) \/ LeavePage(to) \/ Wander(to)
  \/ \E p \in Pages : MountPage(p)
  \/ \E v \in Views : FetchResolves(v)
  \/ RefreshPage \/ Refresh
  \/ \E s \in Servers : CreateServer(s) \/ RemoveServer(s)
  \/ \E s \in Servers : Backend(s) /\ UNCHANGED viewVars

ViewSpec == ViewInit /\ [][ViewNext]_allVars

-----------------------------------------------------------------------------
(* Properties *)

\* The state of the page has its types, and the page on screen is the only
\* routed page that is mounted.
ViewTypeOK ==
  /\ SubTypeOK
  /\ route \in Routes
  /\ page \in Pages \cup {NoPage}
  /\ known \subseteq Servers /\ stored \subseteq Servers
  /\ view \in [Views -> [kind : Kinds, phase : Phases, mine : SUBSET Servers]]
  /\ edits \in 0..MaxEdits
  /\ mishaps \subseteq Mishaps
  /\ {p \in Pages : Alive(p)} = {page} \ {NoPage}

\* The servers a view on screen shows live.
Shows(v) ==
  IF ~Alive(v) THEN {}
  ELSE IF view[v].kind = "list" THEN view[v].mine
  ELSE IF view[v].phase = "mounted" THEN {route} \cap Servers ELSE {}

\* stores/realtime.js: views subscribe on mount and unsubscribe on unmount.
\* Unless a page is left while it fetches or before its watcher ran, the count
\* of a server is the number of views on screen that show it.
CountsAreExact ==
  mishaps = {} =>
    \A s \in Servers :
      subscriptions[s] = Cardinality({v \in Views : s \in Shows(v)})

\* From the views to the backend: under the same condition, with calls executed
\* in their turn and none in flight, exactly the servers that some view on
\* screen shows are polled.
PolledIffShown ==
  mishaps = {} /\ tidy /\ (\A s \in Servers : Idle(s)) =>
    {s \in Servers : pollers[s] > 0} = UNION {Shows(v) : v \in Views}

LivePanel == \A s \in view[Panel].mine : subscriptions[s] > 0

\* ServerListPanel.vue: the panel keeps the status of every server of its list
\* fresh while it is mounted.  A detail page whose watcher did not run leaks its
\* server but takes none from the panel.
PanelStaysLive == "early" \notin mishaps => LivePanel
=============================================================================
