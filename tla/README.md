# helMiO: a verification project

helMiO is a desktop application (Tauri: a Vue page in a webview, a Rust backend)
that watches and controls supervisord on many servers. This directory holds TLA+
modules that model the parts of it with state and concurrency, TLC configurations
that check them on small instances, and proofs checked by TLAPS.

Paths below are relative to the repository root (`src-tauri/src/` is the backend,
`src/` the page, `agent/` the optional agent on a server).

Contents: 1 inventory of the system · 2 modules and how they correspond to the
code · 3 what the runs check · 4 fairness · 5 what is proved · 6 disagreements
between code and comments · 7 what is not modelled · 8 plan.

---------------------------------------------------------------------------

## 1. Inventory

### Who runs concurrently

* The **page** is one JavaScript thread: a task runs to completion, `await` splits
  it, and a continuation runs whatever has become of the view that started it.
* Every **command** (`#[tauri::command] async fn`) is a task of its own on a
  multi-threaded executor. Two calls the page emits one after the other may be
  executed in the other order. Calls made through `api/socket.js` are not awaited.
* **Long-lived tasks** of the backend: one poller per subscribed server, one log
  task, one loop per enabled health check, fleet runs. A task can be *aborted*, and
  then stops at its next await, between any two of its effects.
* **supervisord** on a server is driven by other people too: processes start, fall
  and disappear, files change, calls fail, and the answer of a call can be lost
  although the call had its effect.

### Components

| component | state it keeps | operations | hard part | correct when | module |
|---|---|---|---|---|---|
| Snapshot subscriptions (`stores/realtime.js`, `api/socket.js`, `realtime.rs` 153-208) | counts per server in the page; refcount and task per server in the backend | subscribe, unsubscribe; `rt_subscribe`, `rt_unsubscribe`; reload of the page | unordered, unawaited calls; two counts of the same thing | a held server is polled; the last leaver stops the poller | `Subscriptions` |
| Views that subscribe (`ServerListPanel`, `DashboardView`, `ServersView`, `ServerDetailView`, `stores/servers.js`, router) | which view is mounted, its ids; the server list | mount, unmount, navigate, watchers, fetch, create/remove a server | await in `onMounted`; watchers and unmount hooks in a transition | counts equal the views on screen | `LiveViews` (extends `Subscriptions`) |
| Live log (`LogPanel.vue`, `realtime.rs` 223-325, `service.rs` tail and read) | panel, content, `oldestOffset`; one task slot; offset | open, switch, close, scroll back, clear; poll | one slot for all panels; unawaited start/stop; chunks without an origin | what is on screen is a gapless part of the log; a closed panel is not tailed | `LogFollow` |
| Snapshot, restarts, alerts (`service.rs` 120-175, `realtime.rs` 60-150, `notifier.rs`) | `proc_history`, `alert_prev`, `NotifierState` | poll, track, detect, deduplicate, dispatch | shared maps outlive the poller, which can be aborted at every await | a restart is counted once; an alert per transition; once per window and channel | `Alerting` |
| Health checks (`services/healthcheck.rs`, `commands/healthchecks.rs`, `store/healthchecks.rs`) | rows, handles, loops, consecutive failures | create/update/remove, `reload`, `run_check`, `take_action` | `reload` aborts, awaits and spawns; rows read before an await | exactly one loop per enabled check; acts after the threshold | `HealthScheduler` |
| Configuration (`service.rs` 535-575, `connector.rs` multicall, `commands/servers.rs`, `ConfigPanel`, `ProgramBuilder`) | files, what supervisord has read, what runs | save, reload (reread, remove, add) | partial failure ignored; batches repeated; no lock | a reload that ran undisturbed applies what it read | `ConfigApply` |
| Fleet runs (`commands/fleet.rs`, `FleetView.vue`) | runs, jobs, progress, the view's `currentRunId` | run (parallel or sequential), progress, answer | lost answers, failing servers, a view left during a run | rolling means one at a time; results shown are of this run and true | `Fleet` |
| Process, group, bulk control (`commands/process.rs`, `groups.rs`, `bulk.rs`) | none | one call and an audit record; restart = stop, start | statuses per process | – | where checks and fleet runs use them |
| Server store and secrets (`store/servers.rs`, `crypto.rs`, `ServerFormDrawer.vue`) | table, key, key file; the drawer's form and test state | create, update (read, await, write), remove, load the key; open, type, test, save | a masked field keeps the stored secret; a lost key; continuations of test and save in a drawer that has changed | a row holds the texts entered last, also after restarts; only what passed a test is stored | `Vault`, `SecretStore`, `ServerForm` |
| Channel store (`store/channels.rs`, `ChannelsView.vue`) | table; the page's list | CRUD, switch, matching | the switch sends back a listed row | alerts go where the user last said | `Channels` (extends `SecretStore`); a choice of a set in `Alerting` |
| Program blocks (`supervisor/config.rs`, `ConfigPanel.vue`, `ProgramBuilder.vue`) | files; texts in the editor; the form | read, save, parse, build, add | requests in sequence with a path read in between; what the form does not hold | editing keeps the rest; the editor shows the file | `Programs` |
| Connectors (`supervisor/connectors/*`) | sessions | call, multicall, files, shell | timeouts only for tcp, agent | a call ends | external behaviour of calls; multicall in `ConfigApply` |
| XML-RPC codec, HTTP (`xmlrpc.rs`, `http.rs`) | none | encode, decode | – | unit tests in the source | – |
| Metrics, overview (`store/metrics.rs`, `overview.rs`) | ring of samples, throttle | record, query | throttle set before the write | – | – |
| Audit log (`store/audit.rs`) | append-only table | record, list | errors ignored | – | – |
| Installer (`services/installer.rs`, `SupervisorInstallPanel.vue`) | the server's package, files and supervisord; the panel | facts, package, configure, restart; diagnose | every command can fail, or fail after its effect; overlapping installs; one panel for all servers | a reported password stays valid; the panel gets its answer | `Installer` |
| Database, start-up (`db.rs`, `lib.rs`, migrations) | the pool | open | may not be there yet | – | the error paths in the modules that use it |
| Agent (`agent/src`) | none | proxy, one request at a time | a slow stop blocks the host | – | – |
| Page frame, forms, charts | presentation | – | – | – | – |

How they interact. Views call the subscription store; the store emits calls; the
backend starts and aborts pollers; a poller reads a server through a connector,
updates restart history, emits the snapshot, and hands alerts to the notifier, which
reads channels from the database and dispatches. Health-check loops read their row,
probe, restart through the same service functions, alert through the same notifier,
and write the row back; the commands that edit rows rewrite the whole schedule. The
log task shares connectors with the pollers and sends chunks the panel appends.
Configuration commands and fleet runs go through the service to the same
supervisord. Servers and channels are rows with secrets in one database, encrypted
with one key that is loaded at start; every connector gets its server's row with the
secrets decrypted, the page gets masks.

The hazards, each at its line with the properties that watch it, are listed in
`PROJECT.json`.

---------------------------------------------------------------------------

## 2. The modules

`X.tla` models a component, `XProofs.tla` proves theorems about it, `MCX.tla` names
the values TLC uses. Every action is one uninterrupted stretch of code: a JavaScript
task, or what a Rust task does from one await to the next. An abort takes effect at
an await. Names are the source's where TLA+ allows it; `PROJECT.json` maps each
definition to its lines.

**History variables.** Some promises hold only while something has not happened: two
commands overlapped, a reply was lost, a user acted during a request. Such events
never disable an action; they are recorded (`tidy`, `mishaps`, `lone`, `alone`) and
the property names the ones it excludes, so that each property says exactly under
which conditions the code keeps its promise. The constant `Faults` chooses which of
them an instance lets happen. Other history variables (`streak`, `fell`, `told`,
`view.of`, `job.up`) record the past a property speaks of and guard nothing.

### Subscriptions
`subscriptions` is the map in `stores/realtime.js`, `pollers` the refcounts of
`PollerEntry`, `wire[s]` the calls emitted for a server and not yet executed. `Task`
is one JavaScript task in which views unsubscribe and subscribe any number of times;
`Emitted` says which calls it makes. `rt_subscribe`/`rt_unsubscribe` execute *any*
call of the wire; `Reload` empties the page and not the backend. Calls of different
servers commute, so the wire is per server.

### LiveViews
Extends `Subscriptions` by the views: a panel that is always there, and routed pages
that are lists or a detail page. `MountPage`, `LeavePage`, `SwitchServer`,
`FetchResolves` are the hooks, watchers and continuations; each ends in the `Task`
of the calls it makes. The route guard and the transition let the framework decide
whether a detail page's watcher still runs on leaving (`watched`); a page left while
fetching becomes an `orphan` whose continuation still runs. A fetch answers with the
list as stored when it resolves, or fails and keeps the list. Two fetches of one
page under way at once are merged into one; the server list is a set (the array of
`stores/servers.js` can hold a duplicate, see hazards); the dashboard's `refresh`
stands for both list pages. Ids of servers are not used again by the application;
here a removed server may be created again, which only adds behaviours.

### LogFollow
`panel`, `content`, `oldest`, `reading`, `clearing` are the state of `LogPanel.vue`;
`calls` the calls in flight; `task` the single slot; `events` the chunks on their
way. A byte of a log is its position, a byte on screen is `<<log, position>>`, so a
gap, a repetition or a byte of another log shows. A connector without offsets
(docker) answers with the tail and offset 0 and its chunks replace the screen. A
tail answers as the XML-RPC interface of supervisord documents it. Clearing and
reading older bytes are awaited requests whose continuations act on the panel as it
is then. A clear empties every channel of the process (`ClearLog`), and may be answered
with an error whether or not it did (`ClearFails`): the pool for the audit is asked for
afterwards, and an answer can be lost. Logs are also emptied behind the panel's back,
by a rotation or by another client (`Rotate`). The code does not notice either, so
that its task's `course` is from then on "cut", as it is "gap" once a poll skipped bytes
(`overflow`) and "over" when the task could not begin; `ShowsTheLog` and `CatchesUp`
say what holds on which course, and the course is sound again when the panel starts
over. The panel is modal and stays mounted.

### Alerting
One server and its poller, which is turned on and off (`PollerStarts`,
`PollerAborted`) at every await. `hist` is `proc_history`, `prev` is `alert_prev`,
`recent` is the duplicate map, and all of them survive the poller. Time is discrete
and kept as ages; the 60 s windows of `is_duplicate` and of flapping are both `Window`
ticks. Restart events older than the window stay and no longer count (the code drops
them after 300 s). Pids are never reused; the clock does not jump back. Which
channels match is any set. Only the poller takes snapshots: `servers_snapshot` is a
command no page calls (`src/api/client.js:95`). `RoundsEnd` says that a poller which is
not stopped comes round again, whatever is matched and whoever fails to be told;
`Answers` is what is assumed of the server (section 4).

### HealthScheduler
`row` is the table, `tasks` the map of handles, `loop` the tasks themselves,
`command` the commands under way. A command writes a row (`create`, `update`,
`remove`) and reloads: `Drain`, `List` or `ListFails`, `Insert`, an await between any
two. A loop goes through `Wake`, the probe, `Act`, `StopProcess`, `StartProcess`,
`Record`. `HashMap::insert` detaches a loop whose handle it replaces, and that is
what `Insert` does. Intervals do not appear: sleeping may take any time. All checks
have the same threshold, and each watches a process of its own. A re-read of the row
right after a write is taken to succeed.

`Watch` is what all this amounts to for whoever edits the table: which checks are
`enabled`, what `work` there is for each (none, a loop asleep, a run under way), and the
`stage` of the edit (loops not stopped yet, stopped, current). `W` maps the scheduler to
it: handles, loops, listed rows and commands become these three. A run begins only for
an enabled check (`Begin`), and every edit stops the runs under way first (`Stop`).

### ConfigApply
`file`, `parsed`, `active` are three versions of every group; a version stands for
the text. `Reread`, `Remove`, `Add` are the XML-RPC calls with the effect the
interface documents, `CallFails` a call without effect, `Repeat` the fallback of
`multicall` that sends a batch again call by call. One file holds one group.

### Fleet
`fleet_run` for any number of overlapping runs: `Begin`, `Stop`, `Start` per server,
each with a result and an effect that may disagree (a lost answer, or a bulk call
that succeeds although a process did not). What a run is about on a server is one
boolean. `Run`, `Progress`, `Answered`, `LeaveView` are the view. `startAll` and
`startGroup` (and so on) differ in the processes, not in the steps. A lost answer
means the call took effect when it was made, or never.

`Batch` is an action on many servers as whoever asks for it sees it: `Ask`, one `Settle`
per server, `Answer` when all are settled, and a page that is told results of what it
asked for last. `B` maps the runs to it: order, strategy, calls and progress events
disappear, so that a rolling and a parallel run are the same thing.

### Vault, SecretStore
`Vault` is what a table with secrets promises: `kept` texts per row and field, changes
that are `asked` for and then performed at once or abandoned. `SecretStore` is the code:
`stored` are columns (a text with the key it was encrypted with, or in the clear), `cmd`
the updates between reading the row (`Fetch`) and writing it whole (`Write`), `env`,
`file` and `key` the key of the environment, of the file, and of the running program.
`Load` is `SecretBox::load`, with a key file that is lost between two starts
(`rekeyed`) or cannot be written (`unsaved`). A restart ends every update. `V` maps the
store to the vault: ciphertexts become their texts and an update becomes its request;
keys, files and restarts disappear.

### ServerForm
Extends `SecretStore` by the drawer. There is one set of variables for whatever server
the drawer is open for; `flow` holds the calls of `test()` and `save()` under way and
where each is, and continuations (`TestPassed`, `Saved`) act on the drawer as it is
then. `passed` remembers the connection that passed a test last. The signature of the
form is not kept: `StatesAfter` lets an edit void a test that was passed and leaves
both outcomes open where the code's choice depends on an older signature. A test
fills masks in from the row (`Filled`), or tests them as they are when the row cannot
be read, since `resolve_secrets` drops that error; that such a test passes is the slip
`unread`.

### Channels
Extends `SecretStore` by options (enabled, filters), which an update writes along with
the secrets, by the page's `list`, and by requests: a change and, after it, the list
being loaded again. `wanted` is what the user has asked for successfully. The dialog is
what the user saves, a mask only where one was shown.

### Installer
`kind` is what a server is like (managers, init, privileges), `site` its package, files
and supervisord, `tasks` the installs with the command each is at. The password that
install number i generates is i. Every command may fail without an effect
(`CommandFails`) or after it (`Afterwards`). The configure script looks for the section
(`Looks`) and then appends one (`Appends`): the scripts of two installs of one server
run on connections of their own, and here their commands interleave in any order.
`AppendFails` is the chain of && and || with an append that failed. An install's
`trouble` records, as history, what made its report doubtful, and `rivals` which other
installs had looked into its file, found nothing, and were still to append when it did.
`panel`, `asking`, `timers` are the panel. What packages bring, which file a unit uses,
and that supervisord reads its file when it starts, is outside the code and modelled
from how the scripts use it.

### Programs
`disk` has the files, each a sequence of programs; a program has one setting of each
kind that the form treats differently: text; counts, whose absence becomes 0; the
priority, whose 0 is dropped; Booleans, of whose spellings only "true" is read as true;
the log, which is always written; and `extra`, what the form does not have or cannot
read. Users change the text and the count, which stand for the others. A write that
fails may have emptied its file first (`WriteFails`, `BlockFails`), the editor's as well
as the builder's; an empty file is left out of the list like one that is not there.
`contents` is the editor (a text that is `unread`, `blank` while it is read, or `read`),
`builder` the form, and `reading`, `saving`, `parsing`, `creating` are the requests
under way. A read may answer with the file as it was when the request was sent or as it
is now. `Overtakes` says when a write makes what the editor has, or is about to get, old
without the editor knowing.

---------------------------------------------------------------------------

## 3. The runs

Every run finishes without error; each property has a mutant in
`PROJECT.json`, a plausible bug in a mapped definition under which TLC finds that
property violated in the same configuration.

| run | instance | states | shows |
|---|---|---|---|
| `subscriptions` | 2 servers, ≤2 views each, ≤3 calls in flight each, 1 reload | 25 k | `NeverUndercounts` and `HeldIsPolled` whatever the order and with reloads; `InStep` while calls keep their order; `Converges` (liveness) |
| `views` | 2 servers, the panel and 3 pages, 2 list edits, ≤2 calls | 1.6 M | `CountsAreExact`, `PolledIffShown`, `PanelStaysLive` |
| `hc_table` | 2 checks, 2 loops, startup reload and one command at a time, 3 edits, failing lists, failing records, lost replies | 1.3 M | `InSync`, `DisabledIsQuiet`, `ActsAfterThreshold`, `NoHalfRestart`, and the refinement `ImplementsWatch` |
| `hc_overlap` | 1 broken check, 4 loops, two overlapping commands, 3 edits | 1.3 M | `NoneForgotten`, and the liveness property `BrokenChecksAct` |
| `log` | 2 processes (one on docker), 2 channels, ≤2 bytes of logs in all, tail and window of 1, ≤3 calls; bursts, logs emptied by a clear or by others, clears that fail before or after their effect, a panel closed during a clear, unreadable servers | 1.5 M | `LogStops`, `OpenIsFollowed`, `ShowsTheLog`, and the liveness property `CatchesUp` |
| `alerts` | 1 process, 2 channels, 3 starts, window 2, delay 1 | 0.3 M | `RestartsAreReal`; per step `OneAlertPerFall`, `TellsOncePerWindow`; liveness `FallIsNoticed`, `RoundsEnd`, `FlappingEnds` |
| `config` | 2 groups, 2 clients, 3 edits, 1 repeated batch each | 45 k | `CleanReloadApplies` |
| `fleet` | 2 servers, a rolling restart and a parallel stop that may overlap, 2 runs | 4.9 M | `RollingKeepsOthersUp`, `OkLeavesAsAsked`, `ShownIsTrue`, `NoRunStalls`, and the refinement `ImplementsBatch` |
| `channels` | 1 channel, 1 secret, 1 server, 1 alert type, 2 clients, 3 edits, 1 restart | 2.0 M | `AlertsGoAsChosen` |
| `form` | 1 server, 2 secret fields, 2 flows, 2 edits, 1 restart; keys lost or not saved, rows a test cannot read, answers that fail | 2.5 M | `SecretsOutliveRestart`, per step `StoredWasTested`, and the refinement `ImplementsVault` |
| `install` | a host with apt and systemd, apk without a service manager, or pip; a server without a shell; 2 installs, of one server or of two, whose scripts interleave; failed appends, quiet restarts, a panel turned during an install | 1.6 M | `ReportedStaysValid`, `OffersWhatWasFound`, and the liveness property `PanelIsFreed` |
| `programs` | 2 files, 2 programs, 3 changes; a file the form can hold, and one with all it cannot; writes unnoticed, or emptying the file | 7.8 M | `EditorIsCurrent`, per step `EditKeepsTheRest` |

Why the bounds are enough for what they are to show.

* *Subscriptions, LiveViews.* A count has to pass 1 (two holders), and a wire has to
  hold a subscribe and an unsubscribe of different generations (three calls). In
  `LiveViews` three pages give a page left while fetching, its successor, and one
  more; `MaxHolders` 4 is never what stops a step of four views holding one server.
* *HealthScheduler.* Four loops in `hc_overlap`: two reloads of one check, a detached
  loop, and one to spare. Two loops in `hc_table`, where commands do not overlap and
  a third would mean a loop without a check. A threshold of 2 tells a first failure
  from a second and is the least at which an off-by-one shows both ways.
* *LogFollow.* With a tail and a window of one byte a log of two bytes already
  needs two polls or a scroll-back, or overflows one; a byte in each of two logs tells
  them apart, also when one clear empties both. Logs grow again after they were emptied.
  Calls that change their order and scroll-backs that are overtaken are left out for
  size; the properties they would disturb exclude them.
* *Alerting.* The window has to be longer than the delay for an alert to be
  handled inside the window of an earlier one. `FlapCount` is 2 here, 3 in the code.
* *ConfigApply.* Three edits make a group changed, gone and new again around two
  commands.
* *Fleet.* Two servers and two runs give every pair: an earlier and a later server,
  an old and a new run. The proofs cover all kinds and any number of servers; TLC
  takes two kinds that conflict.
* *SecretStore, ServerForm, Channels.* One row is enough: rows share nothing but the
  key. Two clients make two updates of one row, or a test and a save, overlap; two
  fields tell a masked field from one that is entered. In `form` users do not act while
  a flow is under way (`hasty` is left out of `Faults`, the instance would be too
  large); such acts are what `StoredWasTested` excludes anyway.
* *Installer.* Two installs of one server, or of two, and hosts that differ in each
  branch of the scripts. A panel turned to another server during a diagnosis (`hasty`)
  is left out for size, and is excluded by the property it matters to.
* *Programs.* One of the two files at first breaks the form in every way at once, so
  that each change of it is a loss; the proof covers all files. Three changes are a
  change in the form, a save, and a change or a save in the editor. A builder opened
  again during a request (`hasty`) is left out for size.

`SYMMETRY` is used only in runs without liveness properties. `CHECK_DEADLOCK FALSE`
stands in every run except `alerts`: the edits, runs, reloads or bytes of the
instance come to an end, and a page nobody touches does nothing. Type invariants
(`SubTypeOK`, `ViewTypeOK`, `TypeOK`, `LogTypeOK`, `AlertTypeOK`, `ConfigTypeOK`,
`FleetTypeOK`, `FormTypeOK`, `ChannelTypeOK`, `InstallerTypeOK`, `ProgramsTypeOK`) are
stated in their modules and hold in the same instances; the runs spend their time on the
properties above, and each type invariant is proved for every instance (section 5). So
is `EveryLoopHasItsHandle`, which `ImplementsWatch` covers in the run: a loop without a
handle would outlive the `Stop` of the next edit.

---------------------------------------------------------------------------

## 4. Fairness

* A command that was emitted is a task of the executor and is eventually run, and a
  log task or a loop is woken by its timer: weak fairness of `Backend`, `Command`,
  `Poll`, `LoopStep`, `ReloadStep`, and of the poller's steps.
* A call to a server ends: `tcp.rs:31` limits it to 20 s, `agent.rs:27` to 15 s, a
  dispatch to a channel to 8 s (`notifier.rs:97`), and a probe has its timeout. Over
  ssh, a local socket or docker there is *no* timeout; there the liveness properties
  say what holds if the call ends (a hazard in `PROJECT.json`).
* A server that is asked again and again answers sometime: strong fairness of `Reads`
  in `Alerting`. Without it a server that fails every read would never be noticed,
  which is right.
* An install is a task whose commands end: weak fairness of each task's `Step` in
  `Installer`. Of the diagnoses and of the user nothing is assumed.
* Nobody is obliged to act: no fairness on users, on processes, on views.
* That a run of a fleet action ends is stated without fairness: `NoRunStalls` says that
  work is left in the form of the guards of its steps (`CanGoOn`); a run has finitely
  much work, since each job moves forward only.

Two theorems of section 5 have a fairness condition as hypothesis. Since `ENABLED` is out
of the prover's reach, the condition is written with the guard of the action instead:

* `CommandsEnd` is the weak fairness of `Step(i)` in `InstallerSpec`, where
  `i \in Running` stands for `ENABLED <<Step(i)>>_vars`. The two agree because whatever
  command an install is at may fail: `NoConnection` has no guard but that the facts are
  being gathered, `CommandFails` none but that another command is under way.
* `Answers` is the strong fairness of `Reads` in `FairAlertSpec`: its guard is
  `poller.at = "snapshot"`, and nothing else can keep it from being taken.

---------------------------------------------------------------------------

## 5. What is proved

`tlapm` checks every leaf. The theorems hold for every value of the constants that
satisfies the module's assumption (`BoundsAssumption`, `ViewAssumption`,
`SchedulerAssumption`, `ConfigAssumption`, `ProgramsAssumption`, `FleetAssumption`,
`StoreAssumption`, `FormAssumption`, `InstallerAssumption`, `AlertAssumption`,
`LogAssumption`), which are only types, `Boot \in Clients`, a
positive threshold, at least one start in `Alerting`, finitely many servers in
`Fleet`, and that markers (`NoPage`, `NoSite`, `NoPath`, `Add`, the routes that are no
server) are not values they stand beside. The refinements of `Vault` and `Watch` speak of
the behaviours in which updates of one row, or commands on checks, do not overlap: they
have `[]Apart` or `[]Without({"overlap"})` as hypothesis, about the history and not
about the constants, and overlapping is what the code does not guard against.

Every invariant and action property of the runs is stated by a theorem, and so are all
three refinements and two of the liveness properties; what is only model-checked is
listed at the end of this section.

**SubscriptionsProofs.** `SubTypeCorrect`. `NothingUndercounted`, from which
`HeldStaysPolled` follows: refcount plus subscribes in flight cover unsubscribes in
flight plus demand. This is inductive by itself, and the work is in counting:
`CallsInAppend` and `CallsInRemoved` (a bijection between a sequence without one
position and the rest of it) say how a step changes the number of calls of a kind,
and `EmittedBalance` that a JavaScript task emits exactly the change of demand. It
holds in every behaviour, reordering and reloads included. `InStepInvariant`: while
calls keep their order and the page is not reloaded, the calls in flight alternate,
the first is what the backend does not have, the last is what the store wants
(`Linked`). Appending a call keeps this (`EmitLinked`, `EmittedLinked`), executing
the oldest one keeps it (`ExecuteLinked`). `LastLeaverStops` is its case of an empty
wire; without the condition it fails in four steps.

The same module proves the theorems about `LiveViews`. A behaviour of the views is one
of the store (`ViewsUseTheStore`): every step of a view is a `Task`, a step of the
backend, or leaves the store alone, so all of the above holds in the application
(`ViewsArePolled`; `ViewTypeCorrect` is the type of the rest). `CountsStayExact`
compares a sum in the store with what is on screen. Inductive is first that the only
views on screen are the panel and the routed page and what each phase of a page implies
(`ViewInvariant`); then each hook, watcher and continuation is shown to change the count
of a server by as much as it changes the number of views that show it (`Moved`), orphans
showing nothing. Until a page is left while it fetches, the count may exceed what is on
screen (a detail page whose watcher did not run is still counted) but is never below it
(`CountInv`), and that is what `PanelKeepsLive` needs. `ShownIsPolled` joins both
halves: counts are exact, and with an empty wire the backend polls what is counted
(`InStepInvariant`).

**HealthSchedulerProofs.** `TypeCorrect`. `ScheduleInvariant`: `InSync` is not
inductive, because it speaks of settled states only. The invariant `Schedule` says
what holds during a command: at most one command is under way; live loops and handles
are in bijection; after the drain there is no loop; between list and insert the listed
checks are still the enabled ones; otherwise the handles are those of the enabled
checks. It has a part that survives a failed list query (`Registered`) and a part that
does not (`TableIsSchedule`). Loop steps keep it because they move a loop without
ending it or changing its check (`LoopStepFrame`), commands one by one (`EditKeeps`,
`DrainKeeps`, `ListKeeps`, `InsertKeeps`). From it `LoopsHaveHandles`,
`ScheduleInSync`, `DisabledStaysQuiet`.
`ActsWhenDue`: a counter is trusted because what a loop counts with, and what the row
holds, is at most the number of failures seen in a row (`Tallied`), except that a row
may be ahead while the run that will overwrite it is under way; that run is the only
one of its check, which is where `Schedule` is needed. `RestartsAreWhole` and
`NoCheckForgotten` need no order among commands: the first is inductive (`HalfStep`),
the second follows from `Remembered`, that an enabled check without a loop is still
ahead of some command (its drain, its list, or among the rows it has listed).
`ScheduleImplementsWatch` is the refinement. By `Registered` a check has at most one live
loop and the handle says which, so that what the loops do is a function of the checks
(`Work`); then each step of a loop maps to `Begin`, `Finish` or nothing, `Crud` to
`Change`, `Drain` to `Stop`, and `Insert`, like `ListFails`, to `Resume`. `Wake` maps to
`Begin` only because it looks at the row again, which is what `DisabledIsQuiet` is about
as well, and aborting is what makes `Drain` a `Stop`.

**ConfigApplyProofs.** `ConfigTypeCorrect`, and `ReloadApplies`. What is inductive is
that a command that is still alone is on track (`OnTrack`): while it removes, groups
outside both batches are as read, groups already removed are gone, groups to add are
inactive unless still to be removed (`Removing`); while it adds, everything outside
the batch is as read and a group of the batch is either inactive or as read
(`Adding`). The last form is what makes a repeated batch harmless.

About `Programs`: `EditorStaysCurrent` rests on `EditorInv`, that one save is under way
at most, that a read under way carries what its file holds (a write, or a failed write
that empties the file, makes it stale only as the mishap the property excludes), and
the property itself; `BuilderKeepsTheRest` on
`BuilderInv`, that without haste the one parse or save under way is for the file the
builder is open for, and that the form agrees with the text it was parsed from in
everything the user has not touched. It speaks of files the form can hold (`Plain`);
what is lost of others is in section 6. `ProgramsTypeCorrect` is their base.

**FleetProofs.** `FleetTypeCorrect`; `OkIsTrue` and `RollingRunIsRolling`. The
structural invariant says where a job can be under each action (`JobsFit`), that a
sequential run works in the order of its selection (`InOrder`), that a run answered only
when its work was done (`Returned`), and that a lone run is the last one and all others
have answered (`LoneIsLast`): nobody else touches its servers. On top of it
`LeftAsAsked` says that a result "ok" is the truth. Rolling follows: when a server is
under way all earlier ones are done and all later ones are waiting, a waiting one has
taken nothing down, and a done one is up or said "error". `ViewTellsTheTruth`: a result
is final, so a progress event that is delivered late and passes the view's filter is
still true, and an answer belongs to the run of the view that waits for it.
`NoRunIsStuck`: of the servers a run has left, the one that comes first in its order is
ready. That there is a first one is the least-element principle for numbers
(`LeastNumber`), which the library's theorem on well-founded relations gives without an
operator parameter. `FleetImplementsBatch` maps each step to a step of `Batch` or to
none, in every behaviour, overlapping runs included: the step that ends a job is a
`Settle`, `Return` an `Answer`, `Progress` a `Show` or nothing, `Answered` a `Tell`.
What makes them so is that a result comes with the end of its job, that a run returns
when all jobs are done, and that an event or an answer says what the run has
(`ViewFits`).

**SecretStoreProofs.** `StoreTypeCorrect`. `SecretsSurvive`: that every stored secret
can be read is not inductive, because an update under way carries ciphertexts that were
read earlier; the invariant says the same of those, and that the running key is the one
a start would load. `StoreImplementsVault` is the refinement, for every behaviour
without overlapping updates of one row (`Apart`): initial states map to initial states,
`create`, `remove`, `Fetch` map to `Create`, `Remove`, `Ask`; `Write` maps to `Perform`
if the row is still there and else to `Abandon`, as do `UpdateFails` and `Restart`. What
makes `Write` a `Perform` is the invariant that the columns read are the columns there
now, as long as the row has no other update.

The two users of the store, `ServerForm` and `Channels`, are proved in the same module.
Each only uses the store as `SecretStore` says (`FormUsesTheStore`, `PageUsesTheStore`),
which makes `FormKeepsSecrets`, `FormImplementsVault`, `PageKeepsSecrets` and
`PageImplementsVault` consequences. `FormTypeCorrect` is the drawer's type.
`OnlyTestedIsStored` needs an invariant of the drawer (`TestInv`): as long as nothing
went wrong (no slip, an unread row among them), each flow works with what the drawer
holds, a test the drawer believes is of the form it holds (`Vouched`), and what the page
lists is what is stored, so that a mask stands for the secret that was tested.
`ChannelsAsChosen` needs that requests are one at a time, that what is stored is what
the user asked for, that the page lists what is stored once it waits for nothing, and
that what a switch has under way is the row as stored but for the switch (`Faithful`,
`ChosenInv`).

**InstallerProofs.** `InstallerTypeCorrect`; `ReportedStays`. That a reported password
is valid is not inductive: the invariant `Valid` says so already of an install that is
about to restart the service (`Holds`), and of a server with a service manager that the
file written is the file of the unit. A password a file has is changed only by an
install that is about to append (`Ready`), and a service manager starts supervisord only
with the file of the unit (`SitesStep`). An install that is about to append to a file in
which another has put its password is one of that one's rivals (`Rivals`), because an
install that looked later would have found the section; so what one install has, its own
password or a rival's (`Good`), is kept by the steps of all others (`StaysValid`). Each
command is then one lemma. Without rivals the password is its own. `PanelOffersItsOwn`:
without haste only the panel's own server is being asked (`AsksForItself`), so whichever
answer comes next is for it.

`PanelComesFree` is liveness: with `CommandsEnd` the panel does not wait for ever. While
it waits, and was not turned to another server, the install it waits for is the last
one, which is running (`WaitsForLast`). An install passes six stages, facts, package,
configuration, append, service and over; a step of its own takes it from one to a later
one or ends it, and no other step moves it (`InstallEnds`). Since a running install
takes a step of its own again and again, it ends after at most five, and its end is what
frees the panel. Six stages are six cases, so no induction is needed.

**AlertingProofs.** `AlertTypeCorrect`. `RestartsAreCountedOnce`: what was read
of a process is a state the server was in (`Since`), and the history has counted no
start twice, neither as seen from what was read nor as seen from the server now
(`Counted`, `CountInv`); a read that is evaluated late is therefore behind the server
and never beside it. `EveryAlertIsAFall`: where the snapshot before
did not see the process FATAL but what was read does, it has fallen since (`FallInv`),
also when the poller ended in between. `ToldOncePerWindow`: no channel was told later
than the occurrence was entered in the duplicate map, ages grow alike, and the channels
an alert still has to go to were not told of it within the window before its occurrence
(`WindowInv`).

`FallsAreNoticed` is liveness. Suppose a process stays FATAL and the poller never notices.
With `RoundsEnd` the server is asked again and again, so with `Answers` it is read after the
fall (`ReadsSee`); from then on the fall is in what was read and not yet compared, since
comparing it would be noticing (`StaysUnderway`), and then the server is not asked again,
which contradicts `RoundsEnd`. That `RoundsEnd` holds is checked by the run only: a round
has as many steps as it has alerts and channels, which takes an induction over finite sets.

**LogFollowProofs.** `LogTypeCorrect`, which carries along how far offsets, chunks and
requests can get (`Limits`). `OpenPanelIsFollowed` and `ClosedPanelIsLeft`. Both speak of an
empty wire and are cases of `Follows`: what the backend will tail is what the youngest
call in flight says, or the task if there is none, and that is what the panel wants.
Every emission ends with the right call (`OpenEmits`, `LastOfConcat`), and executing
the oldest call leaves the youngest where it is, unless they are the same
(`OldestRemoved`). A clear that returns to a closed panel breaks only the second.
`ScreenShowsTheLog` speaks of settled states only; inductive is what holds of the chunks
on their way (`ShownInv`): from the last chunk that replaces the screen on, or from the
screen itself, they are pieces of the panel's log that follow on each other up to the
offset of the task (`Chain`). Joining two neighbours (`BytesJoin`) is what a delivery
does, a poll adds a piece at the end, an answer to a scroll-back one at the front. All
this is of a task on a sound course: emptying the log it has read takes it off that
course, as does a poll that skips bytes, and a start puts a new task in its place. It
rests on `LogBase`: types, and that the last call in flight, or the task when there is
none, is for the log the panel is on (`Settled`).

Only model-checked: the liveness properties `Converges`, `CatchesUp`, `FlappingEnds`,
`BrokenChecksAct` and `RoundsEnd`, whose arguments are inductions over the length of a
queue, over a counter or over a finite set, which the library's induction theorems
cannot be instantiated for. These are out of the prover's reach.

---------------------------------------------------------------------------

## 6. Where code and comments disagree

All of these were met while modelling and are in `PROJECT.json` with the lines they
contradict. The properties of the runs name the condition that excludes each.

* *Subscriptions.* An unsubscribe that overtakes its subscribe leaves a poller without
  a holder (`realtime.rs:5-6`); a detail page whose route changes while it fetches
  takes the panel's subscription (`ServerListPanel.vue:23`); a page left while it
  fetches takes subscriptions nobody releases.
* *Checks.* Two overlapping reloads leave a check with two loops, one of them detached
  (`healthcheck.rs:310`).
* *Logs.* A panel closed during a clear is tailed again (`realtime.rs:314`); the
  `overflow` of a tail is ignored. An answer to a scroll-back is put before whatever log
  is on screen by then. A log that is emptied behind the panel, also by its own clear
  when that is answered with an error, stays on the screen, and the offset stays beyond
  its end (`realtime.rs:241`).
* *Alerts.* An abort between storing the snapshot and sending loses alerts.
* *Configuration and bulk.* Failures in `reload_config`, and errors and statuses of
  bulk restarts, are ignored.
* *Secrets and forms.* Plaintext of the predecessor stays plaintext as long as its
  field comes back masked (`crypto.rs:6-7`); a form that is edited, or opened for
  another server, during a test is saved untested (`ServerFormDrawer.vue:202`), and so is
  a masked secret when the row could not be read for the test (`store/servers.rs:224`).
* *Installer.* A failed restart under systemd is a success; a running supervisord
  without a service manager is not restarted (`en.json:337`); a password is reported
  although it was not written, and disappears after 1.2 s (`en.json:348`); of two
  installs that overlap both append and both report, and only the later section counts
  (`installer.rs:187`); a server
  whose facts cannot be gathered counts as installed.
* *Programs.* Editing a program drops the other programs of its file and the settings
  the form does not have (`ProgramBuilder.vue:176`), sets absent numbers to 0, drops a
  priority of 0 (`ProgramBuilder.vue:113`), and reads "yes" and "on" as false; adding
  one replaces a file of that name; the editor refreshes the file that is shown, not the
  one that was edited (`ConfigPanel.vue:39`), is not told of a file that a failed write
  emptied, and saves an unread file as empty.

---------------------------------------------------------------------------

## 7. What is not modelled, and what was abstracted

* Text: XML, HTTP, messages, translations, layout, charts, forms.
* Transports; a call is an effect and an answer that may be lost.
* The order of effects after an abort: a task stops at an await, never inside a
  stretch of code, and an event it emitted earlier still arrives.
* The panic of a spawned task of a fleet run; the daemon log loop (it always replaces
  the screen); the log download; the configuration cache of a snapshot; docker's own
  reload (`docker.rs:290-295`); the page's list of alerts.
* Health checks: different thresholds, edits of the threshold, two checks of one
  process.
* Settings: of a program one of each kind that fares differently; of the spellings of
  truth "yes" stands for those that are not "true". Quoting in a block.
* The installer on macOS (brew has no command there) and the two paths its facts script
  finds only there; `openrc` is a service manager like `systemd` without `|| true`.
* Channel tests and the record of what was sent last; `set_ingest_token`, which nothing
  calls; the name of a server, which no test needs.
* Composition across tables: a removed server leaves its checks and metrics behind.
* The ring of metric samples and its throttle, the audit log, the agent, process and
  group commands: one statement or one call each, with nothing that interleaves.

---------------------------------------------------------------------------

## 8. Plan

What would be modelled next: several programs of one file joined to `ConfigApply`;
process, group and bulk commands with `restart` shared by checks and users; the docker
connector, which answers true whatever `supervisorctl` says (`docker.rs:240-270`); the
page's own list of alerts; removal of a server composed with checks and pollers. As
abstract specification: a live view ("polled iff shown") for `LiveViews`.

Proofs next: the safety half of `Converges` and `CatchesUp` (that a goal once reached is
kept, and that while it is not some step towards it is open, written without `ENABLED`
as in `NoRunIsStuck`), and whatever the models above bring.
