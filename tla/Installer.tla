------------------------------ MODULE Installer ------------------------------
(***************************************************************************)
(* Installing supervisor on a server (services/installer.rs) from the panel *)
(* that diagnoses it (SupervisorInstallPanel.vue on ServersView.vue, one   *)
(* panel for all servers).                                                 *)
(*                                                                         *)
(*   install   a task of its own: gather facts, install the package unless *)
(*             it is there, configure (if asked, with a new password for   *)
(*             [inet_http_server]), restart the service, report once       *)
(*   panel     diagnoses its server when it is opened, when the user asks  *)
(*             and 1.2 s after a success; every answer replaces what is    *)
(*             shown; a result of another server is dropped                *)
(*                                                                         *)
(* A task is a sequence of commands over the connection, each of which may *)
(* fail; installs of one server can overlap, because leaving the page and  *)
(* coming back makes a new panel.  The password of install i is i.         *)
(***************************************************************************)
EXTENDS Integers, Sequences

CONSTANTS
  Sites,     \* servers
  Kinds,     \* site -> what it may be like (see Kind)
  Found,     \* bound: what the files of a site may hold at first
  NoSite,
  MaxRuns,   \* bound: installs
  MaxAsks,   \* bound: diagnoses of a site under way
  Faults     \* which may happen: "full" (a failed append goes unnoticed),
             \*   "quiet" (systemd fails to restart), "hasty", "switch"

VARIABLES
  kind,     \* site -> what it is like; never changes
  site,     \* site -> its package, supervisord and configuration files
  tasks,    \* installs so far, in the order they were asked for; rivals: those
            \*   that were about to append to the file when this one did
  panel,    \* the panel: its site, loading, installing, diag
  asking,   \* site -> diagnoses under way whose answer the panel gets
  timers,   \* diagnoses that wait for 1.2 s after a success
  mishaps   \* history: "hasty": the panel was turned to another site during a
            \*   diagnosis, "switch": during an install

vars == <<kind, site, tasks, panel, asking, timers, mishaps>>
panelVars == <<panel, asking, timers, mishaps>>
shown == <<panel, timers>>

PM_PRIORITY == <<"apt-get", "dnf", "yum", "apk", "pip3", "pip">>
Managers == {"apt-get", "dnf", "yum", "apk", "pip3", "pip", "brew"}
Paths == {"/etc/supervisor/supervisord.conf", "/etc/supervisord.conf"}

\* shell: the connection can execute commands; user: "root" (docker executes as
\* root), or sudo is "free" or "asks"; pms: the package managers found.
Kind == [shell : BOOLEAN, user : {"root", "free", "asks"},
         pms : SUBSET Managers, mac : BOOLEAN,
         init : {"systemd", "openrc", "none"}]

Absent == -1             \* no such file
NoInet == 0              \* the file has no [inet_http_server]
Theirs == MaxRuns + 1    \* the password of a section that was there before
Passwords == NoInet .. Theirs
None == "none"

\* serves: the password of the listener of a supervisord that is up.
Site == [installed : BOOLEAN, up : BOOLEAN, serves : Passwords,
         file : [Paths -> Passwords \cup {Absent}]]

ASSUME InstallerAssumption ==
  /\ MaxRuns \in Nat /\ MaxAsks \in Nat
  /\ NoSite \notin Sites
  /\ \A s \in Sites : Kinds[s] \subseteq Kind
  /\ Found \subseteq [Paths -> {Absent, NoInet, Theirs}]

-----------------------------------------------------------------------------
(* What the facts script finds, and what install derives from it *)

\* The first manager by priority, of what the script found of them.
parse_facts(found) ==
  LET usable == SelectSeq(PM_PRIORITY, LAMBDA p : p \in found.pms)
  IN  IF usable # <<>> THEN usable[1] ELSE IF found.mac THEN "brew" ELSE None

package_manager(s) == parse_facts(kind[s])

install_command(pm) == pm \in Managers \ {"brew"}

default_conf_path(pm) ==
  IF pm = "apt-get" THEN "/etc/supervisor/supervisord.conf" ELSE "/etc/supervisord.conf"

\* The first file the script finds, else the default.
conf_path(s) ==
  IF \E p \in Paths : site[s].file[p] # Absent
  THEN IF site[s].file["/etc/supervisor/supervisord.conf"] # Absent
       THEN "/etc/supervisor/supervisord.conf" ELSE "/etc/supervisord.conf"
  ELSE default_conf_path(package_manager(s))

\* The service manager starts supervisord with its package's file; what pip
\* installs has no unit.
HasUnit(s) == package_manager(s) \notin {"pip", "pip3"}
UnitPath(s) == default_conf_path(package_manager(s))

\* privilege_wrap: commands run as root, or through sudo, with the password the
\* user gave or none.
Privileged(s, given) == kind[s].user = "asks" => given

-----------------------------------------------------------------------------
(* install: one step per command *)

Running == {i \in DOMAIN tasks : tasks[i].step # "over"}

\* onInstallResult: a result of another site than the panel's is dropped.
onInstallResult(s, ok) ==
  IF s = panel.site
  THEN /\ panel' = [panel EXCEPT !.installing = FALSE]
       /\ timers' = timers + (IF ok THEN 1 ELSE 0)
  ELSE UNCHANGED shown

\* emit_result.  Nothing tells the moment an event is emitted from the moment it
\* arrives.  A failed install keeps nothing of what it found.
Fail(i) ==
  /\ tasks' = [tasks EXCEPT ![i] = [@ EXCEPT !.step = "over", !.path = None,
                                            !.trouble = {}, !.rivals = {}]]
  /\ onInstallResult(tasks[i].site, FALSE)

Succeed(i, trouble) ==
  /\ tasks' = [tasks EXCEPT ![i] = [@ EXCEPT !.step = "over", !.ok = TRUE,
                             !.trouble = tasks[i].trouble \cup trouble]]
  /\ onInstallResult(tasks[i].site, TRUE)

AfterPackage(i) == IF tasks[i].http THEN "configure" ELSE "service"

\* mutant: an install that cannot connect ends without a word
NoConnectionMute(i) ==
  /\ tasks[i].step = "facts"
  /\ tasks' = [tasks EXCEPT ![i].step = "over"]
  /\ UNCHANGED <<site, shown>>

\* The server is gone, has no shell, or cannot be reached.
NoConnection(i) ==
  /\ tasks[i].step = "facts"
  /\ Fail(i)
  /\ UNCHANGED site

gather_facts(i) ==
  LET s == tasks[i].site IN
  /\ tasks[i].step = "facts" /\ kind[s].shell
  /\ IF site[s].installed \/ install_command(package_manager(s))
     THEN /\ tasks' = [tasks EXCEPT ![i].path = conf_path(s),
                 ![i].step = IF site[s].installed THEN AfterPackage(i) ELSE "package"]
          /\ UNCHANGED shown
     ELSE Fail(i)
  /\ UNCHANGED site

\* run_raw: a command that fails without a further effect ends the install.
CommandFails(i) ==
  /\ tasks[i].step \in {"package", "configure", "append", "service"}
  /\ Fail(i)
  /\ UNCHANGED site

\* A command can have its effect and fail none the less.
Afterwards(i, step, trouble) ==
  \/ /\ tasks' = [tasks EXCEPT ![i].step = step, ![i].trouble = @ \cup trouble]
     /\ UNCHANGED shown
  \/ Fail(i)

\* A package may bring a configuration file, which has no [inet_http_server],
\* and may start its service.
Package(i) ==
  LET s == tasks[i].site IN
  /\ tasks[i].step = "package" /\ Privileged(s, tasks[i].given)
  /\ \E brings, starts \in BOOLEAN :
       LET there == IF site[s].file[UnitPath(s)] = Absent /\ brings
                    THEN NoInet ELSE site[s].file[UnitPath(s)]
           up == starts /\ there # Absent /\ HasUnit(s) /\ ~ site[s].up
       IN  site' = [site EXCEPT ![s] =
                     [installed |-> TRUE, up |-> @.up \/ up,
                      serves |-> IF up THEN there ELSE @.serves,
                      file |-> [@.file EXCEPT ![UnitPath(s)] = there]]]
  /\ Afterwards(i, AfterPackage(i), {})

\* mutant: grep finds nothing
FindsNothing(old) == FALSE

\* grep finds the section.
Finds(old) == old \notin {Absent, NoInet}

\* configure_script up to its grep: the file is there after it, and holds the
\* section already, or is about to.
Looks(i) ==
  LET s == tasks[i].site
      was == site[s].file[tasks[i].path]
  IN
  /\ tasks[i].step = "configure" /\ Privileged(s, tasks[i].given)
  /\ site' = [site EXCEPT ![s].file[tasks[i].path] = IF was = Absent THEN NoInet ELSE was]
  /\ IF Finds(was) THEN Afterwards(i, "service", {"kept"})
                   ELSE Afterwards(i, "append", {})

\* Installs that have looked into the file of install i and are about to append.
AboutToAppend(i) ==
  {j \in Running \ {i} : /\ tasks[j].step = "append"
                        /\ tasks[j].site = tasks[i].site /\ tasks[j].path = tasks[i].path}

\* The rest of configure_script.  It appends whatever is there by now; of several
\* sections of one name supervisord takes the last.
Appends(i) ==
  /\ tasks[i].step = "append"
  /\ site' = [site EXCEPT ![tasks[i].site].file[tasks[i].path] = i]
  /\ \/ /\ tasks' = [tasks EXCEPT ![i].step = "service", ![i].rivals = AboutToAppend(i)]
        /\ UNCHANGED shown
     \/ Fail(i)

\* The commands of the script are chained by && and ||, so that the failure of
\* one that is not the last goes unnoticed.
AppendFails(i) ==
  /\ tasks[i].step = "append" /\ "full" \in Faults
  /\ UNCHANGED site
  /\ Afterwards(i, "service", {"full"})

\* supervisord reads file p as it starts.
Started(s, p) ==
  [site EXCEPT ![s].up = TRUE, ![s].serves = site[s].file[p]]

\* service_script, with a service manager.
RestartUnit(i) ==
  LET s == tasks[i].site IN
  /\ tasks[i].step = "service" /\ Privileged(s, tasks[i].given)
  /\ kind[s].init # "none" /\ HasUnit(s) /\ site[s].file[UnitPath(s)] # Absent
  /\ site' = Started(s, UnitPath(s))
  /\ \/ Succeed(i, IF tasks[i].path = UnitPath(s) THEN {} ELSE {"elsewhere"})
     \/ Fail(i)

\* The script for systemd succeeds whatever systemctl says.
RestartFails(i) ==
  LET s == tasks[i].site IN
  /\ tasks[i].step = "service" /\ Privileged(s, tasks[i].given)
  /\ kind[s].init = "systemd"
  /\ \/ ~ HasUnit(s) /\ UNCHANGED site
     \/ /\ HasUnit(s)
        /\ site[s].file[UnitPath(s)] = Absent \/ "quiet" \in Faults
        /\ site' = [site EXCEPT ![s].up = FALSE]
  /\ Succeed(i, {"quiet"})

\* Without a service manager supervisord is started, unless it is up.
Start(i) ==
  LET s == tasks[i].site IN
  /\ tasks[i].step = "service" /\ Privileged(s, tasks[i].given)
  /\ kind[s].init = "none" /\ ~ site[s].up
  /\ site[s].file[tasks[i].path] # Absent
  /\ site' = Started(s, tasks[i].path)
  /\ Succeed(i, {}) \/ Fail(i)

LeftAlone(i) ==
  LET s == tasks[i].site IN
  /\ tasks[i].step = "service" /\ Privileged(s, tasks[i].given)
  /\ kind[s].init = "none" /\ site[s].up
  /\ UNCHANGED site
  /\ Succeed(i, {"left"})

Step(i) ==
  /\ i \in Running
  /\ \/ NoConnection(i) \/ gather_facts(i) \/ CommandFails(i) \/ Package(i)
     \/ Looks(i) \/ Appends(i) \/ AppendFails(i)
     \/ RestartUnit(i) \/ RestartFails(i) \/ Start(i) \/ LeftAlone(i)
  /\ UNCHANGED <<kind, asking, mishaps>>

\* supervisord ends: it crashes or is stopped by somebody else.
Ends(s) ==
  /\ site[s].up
  /\ site' = [site EXCEPT ![s].up = FALSE]
  /\ UNCHANGED <<kind, tasks, panelVars>>

-----------------------------------------------------------------------------
(* The panel *)

\* detect and the panel's status.  The ping can fail though supervisord is up;
\* when the facts cannot be gathered, "unknown" counts as installed.
Status(s) ==
  (IF site[s].up THEN {"ready"} ELSE {})
  \cup (IF ~ kind[s].shell THEN {"no-shell"}
        ELSE {"configure",
              IF site[s].installed THEN "configure"
              ELSE IF install_command(package_manager(s)) THEN "install"
              ELSE "no-pm"})

NoDiag == [site |-> NoSite, status |-> None]
Unmounted == [site |-> NoSite, loading |-> FALSE,
              installing |-> FALSE, diag |-> NoDiag]

\* The answer of a diagnosis is shown whatever the panel shows by then.
diagnose(s) ==
  /\ asking[s] < MaxAsks
  /\ asking' = [asking EXCEPT ![s] = @ + 1]

Diagnosed(s) ==
  /\ asking[s] > 0
  /\ \E status \in Status(s) :
       panel' = [panel EXCEPT !.loading = FALSE,
                              !.diag = [site |-> s, status |-> status]]
  /\ asking' = [asking EXCEPT ![s] = @ - 1]
  /\ UNCHANGED <<kind, site, tasks, timers, mishaps>>

DiagnoseFails(s) ==
  /\ asking[s] > 0
  /\ panel' = [panel EXCEPT !.loading = FALSE, !.diag = NoDiag]
  /\ asking' = [asking EXCEPT ![s] = @ - 1]
  /\ UNCHANGED <<kind, site, tasks, timers, mishaps>>

\* mutant: the panel opens with what it showed last
OpenAsItWas(s) ==
  /\ panel' = [panel EXCEPT !.site = s]
  /\ UNCHANGED <<kind, site, tasks, asking, timers, mishaps>>

\* openInstall, after closing the panel if it is open: a closed panel goes on
\* with what it does.
Open(s) ==
  /\ panel' = [panel EXCEPT !.site = s, !.loading = TRUE]
  /\ diagnose(s)
  /\ mishaps' = mishaps
       \cup (IF \E t \in Sites \ {s} : asking[t] > 0 THEN {"hasty"} ELSE {})
       \cup (IF panel.installing /\ panel.site # s THEN {"switch"} ELSE {})
  /\ mishaps' \subseteq Faults
  /\ UNCHANGED <<kind, site, tasks, timers>>

Rediagnose ==
  /\ panel.site # NoSite /\ ~ panel.loading /\ ~ panel.installing
  /\ panel' = [panel EXCEPT !.loading = TRUE]
  /\ diagnose(panel.site)
  /\ UNCHANGED <<kind, site, tasks, timers, mishaps>>

TimerFires ==
  /\ timers > 0
  /\ timers' = timers - 1
  /\ panel' = [panel EXCEPT !.loading = TRUE]
  /\ diagnose(panel.site)
  /\ UNCHANGED <<kind, site, tasks, mishaps>>

startInstall(http, given) ==
  /\ panel.site # NoSite /\ ~ panel.loading /\ ~ panel.installing
  /\ panel.diag.status \in {"install", "configure"}
  /\ Len(tasks) < MaxRuns
  /\ given => kind[panel.site].user = "asks"
  /\ panel' = [panel EXCEPT !.installing = TRUE]
  /\ tasks' = Append(tasks, [site |-> panel.site, http |-> http, given |-> given,
                 step |-> "facts", path |-> None, ok |-> FALSE, trouble |-> {}, rivals |-> {}])
  /\ UNCHANGED <<kind, site, asking, timers, mishaps>>

\* The page is left and shown again: answers and timers of the old panel are
\* lost, its installs go on.
LeavePage ==
  /\ panel # Unmounted
  /\ panel' = Unmounted
  /\ asking' = [s \in Sites |-> 0] /\ timers' = 0
  /\ UNCHANGED <<kind, site, tasks, mishaps>>

User ==
  \/ \E s \in Sites : Open(s) \/ Ends(s)
  \/ Rediagnose \/ LeavePage
  \/ \E http, given \in BOOLEAN : startInstall(http, given)

Answer == \E s \in Sites : Diagnosed(s) \/ DiagnoseFails(s)

\* Where supervisord is up it has read a file, and only what is installed can
\* be up; no file holds a password of this program's yet.  Without a shell the
\* program sees and touches no file.
InstallerInit ==
  /\ kind \in {k \in [Sites -> UNION {Kinds[s] : s \in Sites}] :
               \A s \in Sites : k[s] \in Kinds[s]}
  /\ site \in {x \in [Sites -> [installed : BOOLEAN, up : BOOLEAN,
                                serves : {NoInet, Theirs},
                                file : Found]] :
       \A s \in Sites :
         /\ x[s].up => x[s].installed /\ \E p \in Paths : x[s].file[p] = x[s].serves
         /\ ~ x[s].up => x[s].serves = NoInet
         /\ ~ kind[s].shell =>
              x[s].installed /\ \A p \in Paths : x[s].file[p] # Absent}
  /\ tasks = <<>>
  /\ panel = Unmounted /\ asking = [s \in Sites |-> 0] /\ timers = 0
  /\ mishaps = {}

InstallerNext ==
  \/ User \/ Answer \/ TimerFires
  \/ \E i \in 1 .. MaxRuns : Step(i)

\* Commands on a server end.  What the fairness of InstallerSpec comes to: an
\* install that is under way has a step, as its next command may fail.
KeepsGoing(i) == []<>(i \notin Running) \/ []<><<Step(i)>>_vars
CommandsEnd == [](\A i \in 1 .. MaxRuns : KeepsGoing(i))

InstallerSpec ==
  /\ InstallerInit /\ [][InstallerNext]_vars
  /\ \A i \in 1 .. MaxRuns : WF_vars(Step(i))

-----------------------------------------------------------------------------
(* Properties *)

Task == [site : Sites, http : BOOLEAN, given : BOOLEAN,
         step : {"facts", "package", "configure", "append", "service", "over"},
         path : Paths \cup {None}, ok : BOOLEAN,
         trouble : SUBSET {"kept", "full", "quiet", "elsewhere", "left"},
         rivals : SUBSET (1 .. MaxRuns)]

\* Servers, installs and the panel have their types; an install that has
\* gathered its facts has a file to configure.
InstallerTypeOK ==
  /\ kind \in [Sites -> Kind]
  /\ site \in [Sites -> Site]
  /\ tasks \in Seq(Task) /\ Len(tasks) <= MaxRuns
  /\ \A i \in Running : tasks[i].step # "facts" => tasks[i].path \in Paths
  /\ panel \in [site : Sites \cup {NoSite}, loading : BOOLEAN,
                installing : BOOLEAN,
                diag : [site : Sites \cup {NoSite},
                        status : {None, "ready", "no-shell", "configure",
                                  "install", "no-pm"}]]
  /\ asking \in [Sites -> 0 .. MaxAsks] /\ timers \in Nat
  /\ mishaps \subseteq Faults

Reported(i) ==
  tasks[i].ok /\ tasks[i].http /\ tasks[i].trouble = {}

\* installer.rs, install and configure_script: the password a successful install
\* reports is, and stays, the one in the file it configured, and a supervisord
\* that has read the file asks for it, whatever installs of the same server run
\* meanwhile or later; only an install that had looked into the file before this
\* one wrote it, and wrote it after, can have put its own password there.
ReportedStaysValid ==
  \A i \in DOMAIN tasks : Reported(i) =>
    LET s == tasks[i].site
        valid == {i} \cup tasks[i].rivals
    IN
    /\ site[s].file[tasks[i].path] \in valid
    /\ site[s].up /\ kind[s].init # "none" => site[s].serves \in valid

\* SupervisorInstallPanel.vue: what the panel offers for a server is what the
\* diagnosis of this server found, unless the panel was turned to it while
\* another server was being diagnosed.
OffersWhatWasFound ==
  panel.site # NoSite /\ ~ panel.loading /\ "hasty" \notin mishaps =>
    panel.diag.site \in {panel.site, NoSite}

\* SupervisorInstallPanel.vue: an install the panel waits for ends with a result
\* for it, whichever of its commands fails, unless the panel was turned to
\* another server meanwhile.
PanelIsFreed ==
  panel.installing ~> (~ panel.installing \/ "switch" \in mishaps)
=============================================================================
