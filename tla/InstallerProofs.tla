--------------------------- MODULE InstallerProofs ---------------------------
(***************************************************************************)
(* Proofs about Installer, for any servers, kinds of servers and faults:   *)
(* type correctness, and that a password that was reported stays valid.    *)
(* The second rests on the invariant Valid: what an install has written, or *)
(* one of its rivals, is still in its file when it restarts the service and *)
(* ever after, because only an install that is about to append changes a   *)
(* password that a file has, and such an install is a rival (Rivals).      *)
(* What the panel offers is its own server's (PanelOffersItsOwn): unless   *)
(* it was turned to a server during another's diagnosis, only the server   *)
(* it is for is being asked (AsksForItself).                               *)
(* Liveness, in one case: the panel comes free (PanelComesFree), because   *)
(* its install passes stages that no step takes back.                      *)
(***************************************************************************)
EXTENDS Installer, TLAPS

LEMMA PathTypes ==
  ASSUME NEW s
  PROVE  UnitPath(s) \in Paths /\ conf_path(s) \in Paths
<1>1. \A pm : default_conf_path(pm) \in Paths
    BY DEF default_conf_path, Paths
<1> QED BY <1>1 DEF UnitPath, conf_path, Paths

\* A server's package manager, and with it its unit, never changes.
LEMMA UnitFrame ==
  ASSUME UNCHANGED kind, NEW s
  PROVE  UnitPath(s)' = UnitPath(s) /\ HasUnit(s)' = HasUnit(s)
BY DEF UnitPath, HasUnit, package_manager

LEMMA SeqExcept ==
  ASSUME NEW S, NEW q \in Seq(S), NEW i \in DOMAIN q, NEW r \in S
  PROVE  /\ [q EXCEPT ![i] = r] \in Seq(S)
         /\ Len([q EXCEPT ![i] = r]) = Len(q)
         /\ DOMAIN [q EXCEPT ![i] = r] = DOMAIN q
         /\ [q EXCEPT ![i] = r][i] = r
         /\ \A j \in DOMAIN q : j # i => [q EXCEPT ![i] = r][j] = q[j]
OBVIOUS

\* Task i becomes one of the tasks in R; nothing else does.
Becomes(i, R) ==
  /\ tasks' \in Seq(Task) /\ Len(tasks') = Len(tasks)
  /\ DOMAIN tasks' = DOMAIN tasks
  /\ tasks'[i] \in R
  /\ \A j \in DOMAIN tasks : j # i => tasks'[j] = tasks[j]

LEMMA BecomesBy ==
  ASSUME tasks \in Seq(Task), NEW i \in DOMAIN tasks, NEW r \in Task,
         tasks' = [tasks EXCEPT ![i] = r]
  PROVE  Becomes(i, {r})
BY SeqExcept DEF Becomes

ShownTyped ==
  /\ panel \in [site : Sites \cup {NoSite}, loading : BOOLEAN,
                installing : BOOLEAN,
                diag : [site : Sites \cup {NoSite},
                        status : {None, "ready", "no-shell", "configure",
                                  "install", "no-pm"}]]
  /\ timers \in Nat

LEMMA ResultTyped ==
  ASSUME ShownTyped, NEW s, NEW ok \in BOOLEAN, onInstallResult(s, ok) \/ UNCHANGED shown
  PROVE  ShownTyped'
<1>1. CASE UNCHANGED shown
    BY <1>1 DEF shown, ShownTyped
<1>2. CASE onInstallResult(s, ok) /\ s = panel.site
  <2>1. panel' = [panel EXCEPT !.installing = FALSE]
      BY <1>2 DEF onInstallResult
  <2>2. timers' = timers + (IF ok THEN 1 ELSE 0)
      BY <1>2 DEF onInstallResult
  <2>3. panel' \in [site : Sites \cup {NoSite}, loading : BOOLEAN,
                    installing : BOOLEAN,
                    diag : [site : Sites \cup {NoSite},
                            status : {None, "ready", "no-shell", "configure",
                                      "install", "no-pm"}]]
      BY <2>1 DEF ShownTyped
  <2>4. timers' \in Nat
      BY <2>2 DEF ShownTyped
  <2> QED BY <2>3, <2>4 DEF ShownTyped
<1>3. CASE onInstallResult(s, ok) /\ s # panel.site
    BY <1>1, <1>3 DEF onInstallResult
<1> QED BY <1>1, <1>2, <1>3

Failed(i) == [tasks[i] EXCEPT !.step = "over", !.path = None, !.trouble = {},
                              !.rivals = {}]

LEMMA FailTyped ==
  ASSUME tasks \in Seq(Task), ShownTyped, NEW i \in DOMAIN tasks, Fail(i)
  PROVE  Becomes(i, {Failed(i)}) /\ ShownTyped'
<1>1. Failed(i) \in Task
  <2>1. tasks[i] \in Task
      OBVIOUS
  <2> QED BY <2>1 DEF Failed, Task
<1>2. tasks' = [tasks EXCEPT ![i] = Failed(i)]
    BY DEF Fail, Failed
<1> QED BY <1>1, <1>2, BecomesBy, ResultTyped DEF Fail

Succeeded(i, trouble) ==
  [tasks[i] EXCEPT !.step = "over", !.ok = TRUE,
                   !.trouble = tasks[i].trouble \cup trouble]

LEMMA SucceedTyped ==
  ASSUME tasks \in Seq(Task), ShownTyped, NEW i \in DOMAIN tasks,
         NEW trouble \in SUBSET {"kept", "full", "quiet", "elsewhere", "left"},
         Succeed(i, trouble)
  PROVE  Becomes(i, {Succeeded(i, trouble)}) /\ ShownTyped'
<1>1. Succeeded(i, trouble) \in Task
  <2>1. tasks[i] \in Task
      OBVIOUS
  <2> QED BY <2>1 DEF Succeeded, Task
<1>2. tasks' = [tasks EXCEPT ![i] = Succeeded(i, trouble)]
    BY DEF Succeed, Succeeded
<1> QED BY <1>1, <1>2, BecomesBy, ResultTyped DEF Succeed

Proceeded(i, step, trouble) ==
  [tasks[i] EXCEPT !.step = step, !.trouble = @ \cup trouble]

LEMMA AfterwardsTyped ==
  ASSUME tasks \in Seq(Task), ShownTyped, NEW i \in DOMAIN tasks,
         NEW step \in {"package", "configure", "append", "service"},
         NEW trouble \in SUBSET {"kept", "full", "quiet", "elsewhere", "left"},
         Afterwards(i, step, trouble)
  PROVE  Becomes(i, {Proceeded(i, step, trouble), Failed(i)}) /\ ShownTyped'
<1>1. CASE Fail(i)
    BY <1>1, FailTyped DEF Becomes
<1>2. CASE /\ tasks' = [tasks EXCEPT ![i].step = step, ![i].trouble = @ \cup trouble]
           /\ UNCHANGED shown
  <2>1. Proceeded(i, step, trouble) \in Task
    <3>1. tasks[i] \in Task
        OBVIOUS
    <3> QED BY <3>1 DEF Proceeded, Task
  <2>2. tasks' = [tasks EXCEPT ![i] = Proceeded(i, step, trouble)]
      BY <1>2 DEF Proceeded
  <2>3. ShownTyped'
      BY <1>2, ResultTyped
  <2> QED BY <2>1, <2>2, <2>3, BecomesBy DEF Becomes
<1> QED BY <1>1, <1>2 DEF Afterwards

-----------------------------------------------------------------------------
(* What install i must have, given its task t and the sites x *)

\* It has written its password, and nothing went wrong on the way.
Holds(t) ==
  t.http /\ t.trouble = {} /\ (t.step = "service" \/ t.ok)

\* Its password and those of its rivals.
Good(i, t) == {i} \cup t.rivals

ValidTask(i, t, x) ==
  /\ t.step # "over" => ~ t.ok
  /\ Holds(t) => t.path \in Paths /\ x[t.site].file[t.path] \in Good(i, t)
  /\ Holds(t) /\ t.ok /\ kind[t.site].init # "none" =>
       /\ t.path = UnitPath(t.site)
       /\ x[t.site].up => x[t.site].serves \in Good(i, t)

Valid == \A i \in DOMAIN tasks : ValidTask(i, tasks[i], site)

\* Task t is about to append to the file p of server s.
Ready(t, s, p) == t.step = "append" /\ t.site = s /\ t.path = p

\* With task t for its own, install i and the others know their rivals.
Fits(i, t) ==
  \A j \in DOMAIN tasks : j # i =>
    /\ Holds(t) /\ Ready(tasks[j], t.site, t.path) => j \in t.rivals
    /\ Holds(tasks[j]) /\ Ready(t, tasks[j].site, tasks[j].path) => i \in tasks[j].rivals

Rivals == \A i \in DOMAIN tasks : Fits(i, tasks[i])

PathKnown(t) == t.step \notin {"over", "facts"} => t.path \in Paths

Inv == InstallerTypeOK /\ Valid /\ Rivals

\* What a step may do to the sites: a password in a file is changed by an install
\* that is about to append only, and a service manager starts supervisord with
\* the file of the unit.
SitesStep ==
  /\ site' \in [Sites -> Site]
  /\ \A s \in Sites :
       /\ \A p \in Paths : site[s].file[p] > NoInet =>
            \/ site'[s].file[p] = site[s].file[p]
            \/ \E k \in DOMAIN tasks : Ready(tasks[k], s, p) /\ site'[s].file[p] = k
       /\ kind[s].init # "none" /\ site'[s].up =>
            \/ site[s].up /\ site'[s].serves = site[s].serves
            \/ site'[s].serves = site'[s].file[UnitPath(s)]

\* What a step of task i does to the tasks.
TaskStep(i) ==
  /\ tasks' \in Seq(Task) /\ Len(tasks') = Len(tasks)
  /\ DOMAIN tasks' = DOMAIN tasks
  /\ \A j \in DOMAIN tasks : j # i => tasks'[j] = tasks[j]
  /\ PathKnown(tasks'[i]) /\ ValidTask(i, tasks'[i], site') /\ Fits(i, tasks'[i])

LEMMA StaysValid ==
  ASSUME InstallerTypeOK, SitesStep, Rivals, NEW j \in DOMAIN tasks,
         ValidTask(j, tasks[j], site)
  PROVE  ValidTask(j, tasks[j], site')
<1> DEFINE t == tasks[j]
<1>1. t \in Task /\ t.site \in Sites /\ t.step \in {"facts", "package", "configure",
        "append", "service", "over"} /\ \A k \in Good(j, t) : k \in Nat /\ k > NoInet
  <2>1. tasks \in Seq(Task)
      BY DEF InstallerTypeOK
  <2>2. t \in Task /\ j \in Nat /\ j > 0
      BY <2>1
  <2> QED BY <2>2 DEF Task, Good, NoInet
<1>2. ASSUME Holds(t)
      PROVE  t.path \in Paths /\ site'[t.site].file[t.path] \in Good(j, t)
  <2>1. /\ t.path \in Paths /\ site[t.site].file[t.path] \in Good(j, t)
        /\ site[t.site].file[t.path] > NoInet
      BY <1>1, <1>2 DEF ValidTask
  <2>2. CASE site'[t.site].file[t.path] = site[t.site].file[t.path]
      BY <2>1, <2>2
  <2>3. ASSUME NEW k \in DOMAIN tasks, Ready(tasks[k], t.site, t.path)
        PROVE  k \in Good(j, t)
      BY <1>2, <2>3 DEF Rivals, Fits, Good
  <2> QED BY <1>1, <2>1, <2>2, <2>3 DEF SitesStep
<1>3. ASSUME Holds(t), t.ok, kind[t.site].init # "none", site'[t.site].up
      PROVE  site'[t.site].serves \in Good(j, t)
  <2>1. t.path = UnitPath(t.site) /\ (site[t.site].up => site[t.site].serves \in Good(j, t))
      BY <1>3 DEF ValidTask
  <2>2. \/ site[t.site].up /\ site'[t.site].serves = site[t.site].serves
        \/ site'[t.site].serves = site'[t.site].file[UnitPath(t.site)]
      BY <1>1, <1>3 DEF SitesStep
  <2> QED BY <1>2, <1>3, <2>1, <2>2
<1> QED BY <1>2, <1>3 DEF ValidTask

LEMMA StepKeepsInv ==
  ASSUME Inv, NEW i \in DOMAIN tasks, SitesStep, TaskStep(i), ShownTyped',
         UNCHANGED <<kind, asking, mishaps>>
  PROVE  Inv'
<1>1. \A j \in DOMAIN tasks : ValidTask(j, tasks'[j], site')
    BY StaysValid DEF Inv, Valid, TaskStep
<1>5. ASSUME NEW j \in DOMAIN tasks PROVE Fits(j, tasks[j])'
  <2>1. Fits(i, tasks'[i]) /\ Fits(j, tasks[j])
      BY DEF TaskStep, Inv, Rivals
  <2>2. ASSUME NEW m \in DOMAIN tasks, m # j
        PROVE  /\ Holds(tasks'[j]) /\ Ready(tasks'[m], tasks'[j].site, tasks'[j].path)
                    => m \in tasks'[j].rivals
               /\ Holds(tasks'[m]) /\ Ready(tasks'[j], tasks'[m].site, tasks'[m].path)
                    => j \in tasks'[m].rivals
      BY <2>1, <2>2 DEF TaskStep, Fits
  <2> QED BY <2>2 DEF TaskStep, Fits, Holds, Ready
<1>2. \A j \in DOMAIN tasks : PathKnown(tasks'[j])
    BY DEF Inv, InstallerTypeOK, TaskStep, PathKnown, Running
<1>3. Valid'
    BY <1>1, UnitFrame DEF Valid, ValidTask, TaskStep
<1>4. InstallerTypeOK'
    BY <1>2 DEF Inv, InstallerTypeOK, TaskStep, PathKnown, Running, SitesStep, ShownTyped
<1> QED BY <1>3, <1>4, <1>5 DEF Inv, Rivals, TaskStep

-----------------------------------------------------------------------------
(* The steps of an install *)

LEMMA SitesAlone ==
  ASSUME InstallerTypeOK, UNCHANGED site
  PROVE  SitesStep
BY DEF SitesStep, InstallerTypeOK

LEMMA BecomesValid ==
  ASSUME NEW i \in DOMAIN tasks, NEW R, Becomes(i, R),
         \A r \in R : PathKnown(r) /\ ValidTask(i, r, site') /\ Fits(i, r)
  PROVE  TaskStep(i)
BY DEF Becomes, TaskStep

\* A task under way: its fields, and that it is not reported yet.
LEMMA UnderWay ==
  ASSUME Inv, NEW i \in Running
  PROVE  /\ i \in DOMAIN tasks /\ i \in 1 .. MaxRuns
         /\ tasks \in Seq(Task) /\ tasks[i] \in Task /\ tasks[i].site \in Sites
         /\ tasks[i].step # "over" /\ tasks[i].ok = FALSE
         /\ PathKnown(tasks[i]) /\ ValidTask(i, tasks[i], site) /\ Fits(i, tasks[i])
         /\ Rivals /\ InstallerTypeOK /\ ShownTyped
<1>1. i \in DOMAIN tasks /\ tasks \in Seq(Task) /\ Len(tasks) <= MaxRuns
    BY DEF Inv, InstallerTypeOK, Running
<1>2. tasks[i] \in Task /\ i \in 1 .. MaxRuns
    BY <1>1, InstallerAssumption DEF InstallerAssumption
<1>3. /\ tasks[i].step # "over" /\ ValidTask(i, tasks[i], site)
      /\ Rivals /\ Fits(i, tasks[i])
    BY <1>1 DEF Running, Inv, Valid, Rivals
<1>4. tasks[i].site \in Sites /\ tasks[i].ok = FALSE
    BY <1>2, <1>3 DEF Task, ValidTask
<1>5. PathKnown(tasks[i]) /\ InstallerTypeOK /\ ShownTyped
    BY DEF Inv, InstallerTypeOK, ShownTyped, PathKnown
<1> QED BY <1>1, <1>2, <1>3, <1>4, <1>5

LEMMA FailedValid ==
  ASSUME Inv, NEW i \in Running, NEW x
  PROVE  PathKnown(Failed(i)) /\ ValidTask(i, Failed(i), x) /\ Fits(i, Failed(i))
<1>1. Failed(i).step = "over" /\ Failed(i).ok = FALSE
    BY UnderWay DEF Failed, Task
<1> QED BY <1>1 DEF PathKnown, ValidTask, Holds, Fits, Ready

LEMMA FailKeepsInv ==
  ASSUME Inv, NEW i \in Running, Fail(i), SitesStep,
         UNCHANGED <<kind, asking, mishaps>>
  PROVE  Inv'
<1>1. Becomes(i, {Failed(i)}) /\ ShownTyped'
    BY UnderWay, FailTyped
<1>2. i \in DOMAIN tasks
    BY UnderWay
<1>3. \A r \in {Failed(i)} : PathKnown(r) /\ ValidTask(i, r, site') /\ Fits(i, r)
    BY FailedValid
<1>4. TaskStep(i)
    BY <1>1, <1>2, <1>3, BecomesValid
<1> QED BY <1>1, <1>2, <1>4, StepKeepsInv

Troubles == {"kept", "full", "quiet", "elsewhere", "left"}

\* A success with a new trouble promises nothing.
LEMMA TroubledKeepsInv ==
  ASSUME Inv, NEW i \in Running, NEW w \in Troubles, Succeed(i, {w}), SitesStep,
         UNCHANGED <<kind, asking, mishaps>>
  PROVE  Inv'
<1>1. Becomes(i, {Succeeded(i, {w})}) /\ ShownTyped'
    BY UnderWay, SucceedTyped DEF Troubles
<1>2. /\ Succeeded(i, {w}).step = "over"
      /\ Succeeded(i, {w}).trouble = tasks[i].trouble \cup {w}
    BY UnderWay DEF Succeeded, Task
<1>3. /\ PathKnown(Succeeded(i, {w})) /\ ValidTask(i, Succeeded(i, {w}), site')
      /\ Fits(i, Succeeded(i, {w}))
    BY <1>2 DEF PathKnown, ValidTask, Holds, Fits, Ready
<1>4. i \in DOMAIN tasks
    BY UnderWay
<1>5. \A q \in {Succeeded(i, {w})} :
        PathKnown(q) /\ ValidTask(i, q, site') /\ Fits(i, q)
    BY <1>3
<1>6. TaskStep(i)
    BY <1>1, <1>4, <1>5, BecomesValid
<1> QED BY <1>1, <1>4, <1>6, StepKeepsInv

\* A success at the last step with nothing new wrong: what the task has written
\* is what supervisord has read.
LEMMA SuccessKeepsInv ==
  ASSUME Inv, NEW i \in Running, Succeed(i, {}), SitesStep,
         tasks[i].step = "service",
         UNCHANGED <<kind, asking, mishaps>>,
         kind[tasks[i].site].init # "none" =>
           /\ tasks[i].path = UnitPath(tasks[i].site)
           /\ site'[tasks[i].site].serves =
                site'[tasks[i].site].file[UnitPath(tasks[i].site)]
  PROVE  Inv'
<1> DEFINE r == Succeeded(i, {})
<1>1. Becomes(i, {r}) /\ ShownTyped'
    BY UnderWay, SucceedTyped
<1>2. /\ r.step = "over" /\ r.trouble = tasks[i].trouble
      /\ r.path = tasks[i].path /\ r.http = tasks[i].http
      /\ r.site = tasks[i].site /\ r.rivals = tasks[i].rivals
    BY UnderWay DEF Succeeded, Task
<1>3. ValidTask(i, tasks[i], site') /\ Fits(i, tasks[i])
    BY UnderWay, StaysValid
<1>4. PathKnown(r) /\ ValidTask(i, r, site') /\ Fits(i, r)
    BY <1>2, <1>3 DEF PathKnown, ValidTask, Holds, Good, Fits, Ready
<1>5. i \in DOMAIN tasks
    BY UnderWay
<1>6. \A q \in {r} : PathKnown(q) /\ ValidTask(i, q, site') /\ Fits(i, q)
    BY <1>4
<1>7. TaskStep(i)
    BY <1>1, <1>5, <1>6, BecomesValid
<1> QED BY <1>1, <1>5, <1>7, StepKeepsInv

\* A command that has its effect and may fail none the less.  None of them puts
\* a password in place.
LEMMA AfterwardsKeepsInv ==
  ASSUME Inv, NEW i \in Running, SitesStep,
         UNCHANGED <<kind, asking, mishaps>>,
         NEW step \in {"package", "configure", "append", "service"},
         NEW trouble \in SUBSET Troubles,
         Afterwards(i, step, trouble), tasks[i].path \in Paths,
         step = "service" => ~ tasks[i].http \/ trouble # {},
         step = "append" => ~ site[tasks[i].site].file[tasks[i].path] > NoInet
  PROVE  Inv'
<1> DEFINE r == Proceeded(i, step, trouble)
<1>1. Becomes(i, {r, Failed(i)}) /\ ShownTyped'
    BY UnderWay, AfterwardsTyped DEF Troubles
<1>2. /\ r.step = step /\ r.trouble = tasks[i].trouble \cup trouble
      /\ r.path = tasks[i].path /\ r.http = tasks[i].http
      /\ r.site = tasks[i].site /\ r.ok = FALSE
    BY UnderWay DEF Proceeded, Task
<1>7. ASSUME NEW j \in DOMAIN tasks, Holds(tasks[j])
      PROVE  ~ Ready(r, tasks[j].site, tasks[j].path)
  <2>1. tasks[j] \in Task /\ j \in Nat /\ j > 0
    <3>1. tasks \in Seq(Task)
        BY UnderWay
    <3> QED BY <3>1
  <2>3. site[tasks[j].site].file[tasks[j].path] \in Good(j, tasks[j])
      BY <1>7 DEF Inv, Valid, ValidTask
  <2>4. \A k \in Good(j, tasks[j]) : k > NoInet
      BY <2>1 DEF Good, Task, NoInet
  <2>2. site[tasks[j].site].file[tasks[j].path] > NoInet
      BY <2>3, <2>4
  <2> QED BY <1>2, <2>2 DEF Ready
<1>3. PathKnown(r) /\ ValidTask(i, r, site') /\ Fits(i, r)
    BY <1>2, <1>7 DEF PathKnown, ValidTask, Holds, Fits
<1>4. i \in DOMAIN tasks
    BY UnderWay
<1>5. \A q \in {r, Failed(i)} : PathKnown(q) /\ ValidTask(i, q, site') /\ Fits(i, q)
    BY <1>3, FailedValid
<1>6. TaskStep(i)
    BY <1>1, <1>4, <1>5, BecomesValid
<1> QED BY <1>1, <1>4, <1>6, StepKeepsInv

-----------------------------------------------------------------------------
(* What the steps do to the sites *)

\* Server s becomes y.
LEMMA OneSite ==
  ASSUME InstallerTypeOK, NEW s \in Sites, NEW y \in Site,
         site' = [site EXCEPT ![s] = y],
         \A p \in Paths : site[s].file[p] > NoInet => y.file[p] = site[s].file[p],
         kind[s].init # "none" /\ y.up =>
            \/ site[s].up /\ y.serves = site[s].serves
            \/ y.serves = y.file[UnitPath(s)]
  PROVE  SitesStep
<1>1. site \in [Sites -> Site]
    BY DEF InstallerTypeOK
<1>2. site' \in [Sites -> Site] /\ site'[s] = y
    BY <1>1
<1>3. \A t \in Sites \ {s} : site'[t] = site[t]
    BY <1>1
<1> QED BY <1>2, <1>3 DEF SitesStep

LEMMA SiteFields ==
  ASSUME InstallerTypeOK, NEW s \in Sites
  PROVE  /\ site[s] \in Site
         /\ site[s] = [installed |-> site[s].installed, up |-> site[s].up,
                       serves |-> site[s].serves, file |-> site[s].file]
         /\ site[s].installed \in BOOLEAN /\ site[s].up \in BOOLEAN
         /\ site[s].serves \in Passwords
         /\ site[s].file \in [Paths -> Passwords \cup {Absent}]
BY DEF InstallerTypeOK, Site

\* A file that becomes c.
LEMMA FileBecomes ==
  ASSUME InstallerTypeOK, NEW s \in Sites, NEW p \in Paths,
         NEW c \in Passwords \cup {Absent},
         site' = [site EXCEPT ![s].file[p] = c],
         site[s].file[p] > NoInet => c = site[s].file[p]
  PROVE  SitesStep /\ site'[s].file[p] = c
<1> DEFINE f == [site[s].file EXCEPT ![p] = c]
           y == [site[s] EXCEPT !.file = f]
<1>1. f \in [Paths -> Passwords \cup {Absent}] /\ f[p] = c
    BY SiteFields
<1>2. \A q \in Paths : q # p => f[q] = site[s].file[q]
    BY SiteFields
<1>3. /\ y \in Site /\ y.file = f /\ y.up = site[s].up
      /\ y.serves = site[s].serves
    BY <1>1, SiteFields DEF Site
<1>4. site' = [site EXCEPT ![s] = y]
    OBVIOUS
<1>5. site'[s] = y
    BY <1>4 DEF InstallerTypeOK
<1> HIDE DEF f, y
<1>7. \A q \in Paths : site[s].file[q] > NoInet => y.file[q] = site[s].file[q]
    BY <1>1, <1>2, <1>3
<1>8. y.up => site[s].up /\ y.serves = site[s].serves
    BY <1>3
<1>6. SitesStep
    BY <1>3, <1>4, <1>7, <1>8, OneSite
<1> QED BY <1>1, <1>3, <1>5, <1>6

LEMMA StartedSites ==
  ASSUME InstallerTypeOK, NEW s \in Sites, NEW p \in Paths,
         site[s].file[p] # Absent, site' = Started(s, p),
         kind[s].init # "none" => p = UnitPath(s)
  PROVE  SitesStep /\ site'[s].serves = site'[s].file[p]
<1> DEFINE y == [site[s] EXCEPT !.up = TRUE, !.serves = site[s].file[p]]
<1>1. site[s].file[p] \in Passwords
    BY SiteFields
<1>2. y \in Site /\ y.file = site[s].file /\ y.serves = site[s].file[p]
    BY <1>1, SiteFields DEF Site
<1>3. site' = [site EXCEPT ![s] = y]
    BY DEF Started
<1>4. site'[s] = y
    BY <1>3 DEF InstallerTypeOK
<1> HIDE DEF y
<1>5. SitesStep
    BY <1>2, <1>3, OneSite
<1> QED BY <1>2, <1>4, <1>5

LEMMA EndsSites ==
  ASSUME InstallerTypeOK, NEW s \in Sites,
         site' = [site EXCEPT ![s].up = FALSE]
  PROVE  SitesStep
<1> DEFINE y == [site[s] EXCEPT !.up = FALSE]
<1>1. y \in Site /\ y.file = site[s].file /\ y.up = FALSE
    BY SiteFields DEF Site
<1>2. site' = [site EXCEPT ![s] = y]
    OBVIOUS
<1> HIDE DEF y
<1> QED BY <1>1, <1>2, OneSite

-----------------------------------------------------------------------------
(* One lemma for every step of an install *)

LEMMA GatherKeepsInv ==
  ASSUME Inv, NEW i \in Running, gather_facts(i),
         UNCHANGED <<kind, asking, mishaps>>
  PROVE  Inv'
<1>1. SitesStep
    BY UnderWay, SitesAlone DEF gather_facts
<1>2. CASE Fail(i)
    BY <1>1, <1>2, FailKeepsInv
<1>3. CASE ~ Fail(i)
  <2> DEFINE s == tasks[i].site
             step == IF site[s].installed THEN AfterPackage(i) ELSE "package"
             r == [tasks[i] EXCEPT !.path = conf_path(s), !.step = step]
  <2>1. tasks' = [tasks EXCEPT ![i] = r] /\ UNCHANGED shown
      BY <1>3 DEF gather_facts
  <2>2. step \in {"package", "configure", "service"} /\ (step = "service" => ~ tasks[i].http)
      BY UnderWay DEF AfterPackage, Task
  <2>3. /\ r \in Task /\ r.step = step /\ r.path \in Paths
        /\ r.http = tasks[i].http /\ r.ok = FALSE
      BY <2>2, UnderWay, PathTypes DEF Task
  <2> HIDE DEF r, step
  <2>4. Becomes(i, {r})
      BY <2>1, <2>3, UnderWay, BecomesBy
  <2>5. \A q \in {r} : PathKnown(q) /\ ValidTask(i, q, site') /\ Fits(i, q)
      BY <2>2, <2>3 DEF PathKnown, ValidTask, Holds, Fits, Ready
  <2>6. i \in DOMAIN tasks
      BY UnderWay
  <2>7. TaskStep(i)
      BY <2>4, <2>5, <2>6, BecomesValid
  <2>8. ShownTyped'
      BY <2>1, UnderWay DEF shown, ShownTyped
  <2> QED BY <1>1, <2>6, <2>7, <2>8, StepKeepsInv
<1> QED BY <1>2, <1>3

LEMMA PackageKeepsInv ==
  ASSUME Inv, NEW i \in Running, Package(i),
         UNCHANGED <<kind, asking, mishaps>>
  PROVE  Inv'
<1> DEFINE s == tasks[i].site
<1> DEFINE u == UnitPath(s)
<1>1. PICK brings \in BOOLEAN, starts \in BOOLEAN :
       LET there == IF site[s].file[u] = Absent /\ brings
                    THEN NoInet ELSE site[s].file[u]
           up == starts /\ there # Absent /\ HasUnit(s) /\ ~ site[s].up
       IN  site' = [site EXCEPT ![s] =
                     [installed |-> TRUE, up |-> @.up \/ up,
                      serves |-> IF up THEN there ELSE @.serves,
                      file |-> [@.file EXCEPT ![u] = there]]]
    BY DEF Package
<1> DEFINE there == IF site[s].file[u] = Absent /\ brings
                    THEN NoInet ELSE site[s].file[u]
           up == starts /\ there # Absent /\ HasUnit(s) /\ ~ site[s].up
           f == [site[s].file EXCEPT ![u] = there]
           y == [installed |-> TRUE, up |-> site[s].up \/ up,
                 serves |-> IF up THEN there ELSE site[s].serves, file |-> f]
<1>2. s \in Sites /\ u \in Paths /\ InstallerTypeOK
    BY UnderWay, PathTypes
<1>3. site' = [site EXCEPT ![s] = y]
    BY <1>1
<1>4. there \in Passwords \cup {Absent} /\ (site[s].file[u] > NoInet => there = site[s].file[u])
  <2>1. site[s].file[u] \in Passwords \cup {Absent}
      BY <1>2, SiteFields
  <2>2. NoInet \in Passwords /\ ~ Absent > NoInet
      BY InstallerAssumption DEF InstallerAssumption, Passwords, NoInet, Theirs, Absent
  <2> QED BY <2>1, <2>2
<1>5. f \in [Paths -> Passwords \cup {Absent}] /\ f[u] = there
    BY <1>2, <1>4, SiteFields
<1>6. \A p \in Paths : p # u => f[p] = site[s].file[p]
    BY <1>2, SiteFields
<1>7. up \in BOOLEAN /\ (up => there \in Passwords)
    BY <1>4
<1>8. y \in Site
    BY <1>2, <1>5, <1>7, SiteFields DEF Site
<1>9. y.file = f /\ (y.up => site[s].up \/ up) /\ (up => y.serves = there)
      /\ (~ up => y.serves = site[s].serves)
    OBVIOUS
<1> HIDE DEF y, up, there, f
<1>10. SitesStep
    BY <1>2, <1>3, <1>4, <1>5, <1>6, <1>8, <1>9, OneSite
<1>11. AfterPackage(i) = "configure" \/ (AfterPackage(i) = "service" /\ ~ tasks[i].http)
    BY DEF AfterPackage
<1>12. tasks[i].path \in Paths
    BY UnderWay DEF Package, PathKnown
<1>13. Afterwards(i, AfterPackage(i), {})
    BY DEF Package
<1>14. {} \in SUBSET Troubles
    OBVIOUS
<1> QED BY <1>10, <1>11, <1>12, <1>13, <1>14, AfterwardsKeepsInv

LEMMA LooksKeepsInv ==
  ASSUME Inv, NEW i \in Running, Looks(i),
         UNCHANGED <<kind, asking, mishaps>>
  PROVE  Inv'
<1> DEFINE s == tasks[i].site
           p == tasks[i].path
           was == site[s].file[p]
           c == IF was = Absent THEN NoInet ELSE was
<1>1. s \in Sites /\ p \in Paths /\ InstallerTypeOK
    BY UnderWay DEF Looks, PathKnown
<1>2. was \in Passwords \cup {Absent}
    BY <1>1, SiteFields
<1>3. c \in Passwords \cup {Absent} /\ (was > NoInet => c = was)
    BY <1>2, InstallerAssumption
       DEF InstallerAssumption, Passwords, NoInet, Absent, Theirs
<1>4. site' = [site EXCEPT ![s].file[p] = c]
    BY DEF Looks
<1>5. SitesStep
  <2>1. ASSUME NEW d \in Passwords \cup {Absent},
               site' = [site EXCEPT ![s].file[p] = d],
               site[s].file[p] > NoInet => d = site[s].file[p]
        PROVE  SitesStep
    <3> HIDE DEF s, p, was, c
    <3> QED BY <1>1, <2>1, FileBecomes
  <2> HIDE DEF c
  <2> QED BY <1>3, <1>4, <2>1
<1> HIDE DEF c
<1>6. CASE Finds(was)
  <2>1. Afterwards(i, "service", {"kept"}) /\ {"kept"} \in SUBSET Troubles
      BY <1>6 DEF Looks, Troubles
  <2>2. {"kept"} # {}
      OBVIOUS
  <2> QED BY <1>1, <1>5, <2>1, <2>2, AfterwardsKeepsInv
<1>7. CASE ~ Finds(was)
  <2>1. Afterwards(i, "append", {}) /\ {} \in SUBSET Troubles
      BY <1>7 DEF Looks
  <2>2. ~ was > NoInet
      BY <1>2, <1>7 DEF Finds, NoInet, Absent
  <2> QED BY <1>1, <1>5, <2>1, <2>2, AfterwardsKeepsInv
<1> QED BY <1>6, <1>7

Appended(i) == [tasks[i] EXCEPT !.step = "service", !.rivals = AboutToAppend(i)]

LEMMA AppendedTyped ==
  ASSUME Inv, NEW i \in Running
  PROVE  /\ Appended(i) \in Task /\ Appended(i).step = "service"
         /\ Appended(i).site = tasks[i].site /\ Appended(i).path = tasks[i].path
         /\ Appended(i).ok = FALSE /\ Appended(i).rivals = AboutToAppend(i)
<1>1. AboutToAppend(i) \in SUBSET (1 .. MaxRuns)
    BY UnderWay DEF AboutToAppend
<1> QED BY <1>1, UnderWay DEF Appended, Task

\* An install that appends makes its own password the one of the file, whose
\* owner has this install for a rival.
LEMMA AppendsKeepsInv ==
  ASSUME Inv, NEW i \in Running, Appends(i),
         UNCHANGED <<kind, asking, mishaps>>
  PROVE  Inv'
<1> DEFINE s == tasks[i].site
           p == tasks[i].path
           f == [site[s].file EXCEPT ![p] = i]
           y == [site[s] EXCEPT !.file = f]
<1>1. /\ s \in Sites /\ p \in Paths /\ InstallerTypeOK /\ i \in DOMAIN tasks
      /\ i \in Passwords /\ Ready(tasks[i], s, p)
  <2>1. i \in 1 .. MaxRuns /\ MaxRuns \in Nat
      BY UnderWay, InstallerAssumption DEF InstallerAssumption
  <2>2. i \in Passwords
      BY <2>1 DEF Passwords, NoInet, Theirs
  <2>3. tasks[i].step = "append"
      BY DEF Appends
  <2>4. p \in Paths
      BY <2>3, UnderWay DEF PathKnown
  <2> QED BY <2>2, <2>3, <2>4, UnderWay DEF Ready
<1>2. f \in [Paths -> Passwords \cup {Absent}] /\ f[p] = i
      /\ \A q \in Paths : q # p => f[q] = site[s].file[q]
    BY <1>1, SiteFields
<1>3. y \in Site /\ y.file = f /\ y.up = site[s].up /\ y.serves = site[s].serves
  <2>1. site[s] \in Site
      BY <1>1 DEF InstallerTypeOK
  <2> HIDE DEF f
  <2> QED BY <1>2, <2>1 DEF Site
<1>4. site' = [site EXCEPT ![s] = y]
    BY DEF Appends
<1> HIDE DEF f, y
<1>5. site'[s] = y /\ \A t \in Sites \ {s} : site'[t] = site[t]
    BY <1>1, <1>4 DEF InstallerTypeOK
<1>6. SitesStep
  <2>1. site' \in [Sites -> Site]
      BY <1>1, <1>3, <1>4 DEF InstallerTypeOK
  <2>2. ASSUME NEW t \in Sites, NEW q \in Paths
        PROVE  \/ site'[t].file[q] = site[t].file[q]
               \/ \E k \in DOMAIN tasks : Ready(tasks[k], t, q) /\ site'[t].file[q] = k
    <3>1. CASE t = s /\ q = p
        BY <1>1, <1>2, <1>3, <1>5, <3>1
    <3>2. CASE ~ (t = s /\ q = p)
        BY <1>2, <1>3, <1>5, <3>2
    <3> QED BY <3>1, <3>2
  <2>3. \A t \in Sites : site'[t].up = site[t].up /\ site'[t].serves = site[t].serves
      BY <1>3, <1>5
  <2> QED BY <2>1, <2>2, <2>3 DEF SitesStep
<1>7. CASE Fail(i)
    BY <1>6, <1>7, FailKeepsInv
<1>8. CASE ~ Fail(i)
  <2> DEFINE r == Appended(i)
  <2>1. tasks' = [tasks EXCEPT ![i] = r] /\ UNCHANGED shown
      BY <1>8 DEF Appends, Appended
  <2>2. /\ r \in Task /\ r.step = "service" /\ r.site = s /\ r.path = p
        /\ r.ok = FALSE /\ r.rivals = AboutToAppend(i)
      BY AppendedTyped
  <2> HIDE DEF r, s, p
  <2>3. Becomes(i, {r})
      BY <2>1, <2>2, UnderWay, BecomesBy
  <2>4. ValidTask(i, r, site') /\ PathKnown(r)
      BY <1>1, <1>2, <1>3, <1>5, <2>2 DEF ValidTask, PathKnown, Good
  <2>5. Fits(i, r)
    <3>1. ASSUME NEW j \in DOMAIN tasks, j # i, Ready(tasks[j], s, p)
          PROVE  j \in AboutToAppend(i)
        BY <3>1 DEF AboutToAppend, Ready, Running, s, p
    <3> QED BY <2>2, <3>1 DEF Fits, Ready
  <2>6. \A q \in {r} : PathKnown(q) /\ ValidTask(i, q, site') /\ Fits(i, q)
      BY <2>4, <2>5
  <2>7. TaskStep(i)
      BY <1>1, <2>3, <2>6, BecomesValid
  <2>8. ShownTyped'
      BY <2>1, UnderWay DEF shown, ShownTyped
  <2> QED BY <1>1, <1>6, <2>7, <2>8, StepKeepsInv
<1> QED BY <1>7, <1>8

LEMMA AppendFailsKeepsInv ==
  ASSUME Inv, NEW i \in Running, AppendFails(i),
         UNCHANGED <<kind, asking, mishaps>>
  PROVE  Inv'
<1>1. tasks[i].path \in Paths /\ SitesStep
    BY UnderWay, SitesAlone DEF AppendFails, PathKnown
<1>2. {"full"} \in SUBSET Troubles /\ Afterwards(i, "service", {"full"})
    BY DEF Troubles, AppendFails
<1>3. {"full"} # {}
    OBVIOUS
<1> QED BY <1>1, <1>2, <1>3, AfterwardsKeepsInv

LEMMA RestartKeepsInv ==
  ASSUME Inv, NEW i \in Running, RestartUnit(i),
         UNCHANGED <<kind, asking, mishaps>>
  PROVE  Inv'
<1> DEFINE s == tasks[i].site
<1>1. s \in Sites /\ UnitPath(s) \in Paths /\ InstallerTypeOK
    BY UnderWay, PathTypes
<1>2. SitesStep /\ site'[s].serves = site'[s].file[UnitPath(s)]
    BY <1>1, StartedSites DEF RestartUnit
<1>3. CASE Fail(i)
    BY <1>2, <1>3, FailKeepsInv
<1>4. CASE tasks[i].path = UnitPath(s) /\ Succeed(i, {})
    BY <1>2, <1>4, SuccessKeepsInv DEF RestartUnit
<1>5. CASE Succeed(i, {"elsewhere"})
  <2>1. "elsewhere" \in Troubles
      BY DEF Troubles
  <2> QED BY <1>2, <1>5, <2>1, TroubledKeepsInv
<1> QED BY <1>3, <1>4, <1>5 DEF RestartUnit

LEMMA RestartFailsKeepsInv ==
  ASSUME Inv, NEW i \in Running, RestartFails(i),
         UNCHANGED <<kind, asking, mishaps>>
  PROVE  Inv'
<1> DEFINE s == tasks[i].site
<1>1. s \in Sites /\ InstallerTypeOK
    BY UnderWay
<1>2. UNCHANGED site \/ site' = [site EXCEPT ![s].up = FALSE]
    BY DEF RestartFails
<1>3. SitesStep
    BY <1>1, <1>2, SitesAlone, EndsSites
<1>4. "quiet" \in Troubles /\ Succeed(i, {"quiet"})
    BY DEF Troubles, RestartFails
<1> QED BY <1>3, <1>4, TroubledKeepsInv

LEMMA StartKeepsInv ==
  ASSUME Inv, NEW i \in Running, Start(i),
         UNCHANGED <<kind, asking, mishaps>>
  PROVE  Inv'
<1> DEFINE s == tasks[i].site
<1>1. s \in Sites /\ InstallerTypeOK /\ tasks[i].path \in Paths
    BY UnderWay DEF Start, PathKnown
<1>2. kind[s].init = "none" /\ tasks[i].step = "service"
    BY DEF Start
<1>3. SitesStep
    BY <1>1, <1>2, StartedSites DEF Start
<1>4. CASE Fail(i)
    BY <1>3, <1>4, FailKeepsInv
<1>5. CASE Succeed(i, {})
    BY <1>2, <1>3, <1>5, SuccessKeepsInv
<1> QED BY <1>4, <1>5 DEF Start

LEMMA StepInv ==
  ASSUME Inv, NEW i \in 1 .. MaxRuns, Step(i)
  PROVE  Inv'
<1>1. i \in Running /\ UNCHANGED <<kind, asking, mishaps>> /\ InstallerTypeOK
    BY DEF Step, Inv
<1>2. CASE NoConnection(i) \/ CommandFails(i)
  <2>1. SitesStep /\ Fail(i)
      BY <1>1, <1>2, SitesAlone DEF NoConnection, CommandFails
  <2> QED BY <1>1, <2>1, FailKeepsInv
<1>3. CASE gather_facts(i)
    BY <1>1, <1>3, GatherKeepsInv
<1>4. CASE Package(i)
    BY <1>1, <1>4, PackageKeepsInv
<1>5. CASE Looks(i)
    BY <1>1, <1>5, LooksKeepsInv
<1>6. CASE AppendFails(i)
    BY <1>1, <1>6, AppendFailsKeepsInv
<1>11. CASE Appends(i)
    BY <1>1, <1>11, AppendsKeepsInv
<1>7. CASE RestartUnit(i)
    BY <1>1, <1>7, RestartKeepsInv
<1>8. CASE RestartFails(i)
    BY <1>1, <1>8, RestartFailsKeepsInv
<1>9. CASE Start(i)
    BY <1>1, <1>9, StartKeepsInv
<1>10. CASE LeftAlone(i)
  <2>1. SitesStep /\ Succeed(i, {"left"}) /\ "left" \in Troubles
      BY <1>1, <1>10, SitesAlone DEF LeftAlone, Troubles
  <2> QED BY <1>1, <2>1, TroubledKeepsInv
<1> QED BY <1>2, <1>3, <1>4, <1>5, <1>6, <1>7, <1>8, <1>9, <1>10, <1>11 DEF Step
-----------------------------------------------------------------------------
(* The panel *)

\* A step that leaves the tasks alone.
LEMMA PanelKeepsInv ==
  ASSUME Inv, SitesStep, UNCHANGED <<kind, tasks>>, ShownTyped',
         asking' \in [Sites -> 0 .. MaxAsks], mishaps' \subseteq Faults
  PROVE  Inv'
<1>1. \A j \in DOMAIN tasks : ValidTask(j, tasks[j], site')
    BY StaysValid DEF Inv, Valid
<1>2. Valid' /\ Rivals'
    BY <1>1, UnitFrame DEF Inv, Valid, ValidTask, Good, Rivals, Fits, Holds, Ready
<1>3. InstallerTypeOK'
    BY DEF Inv, InstallerTypeOK, ShownTyped, SitesStep, Running
<1> QED BY <1>2, <1>3 DEF Inv

LEMMA AskTyped ==
  ASSUME asking \in [Sites -> 0 .. MaxAsks], NEW s, diagnose(s)
  PROVE  asking' \in [Sites -> 0 .. MaxAsks]
<1>1. CASE s \in Sites
    BY <1>1, InstallerAssumption DEF diagnose, InstallerAssumption
<1>2. CASE s \notin Sites
    BY <1>2 DEF diagnose
<1> QED BY <1>1, <1>2

LEMMA OpenKeepsInv ==
  ASSUME Inv, NEW s \in Sites, Open(s)
  PROVE  Inv'
<1>1. SitesStep
    BY SitesAlone DEF Inv, Open
<1>2. asking' \in [Sites -> 0 .. MaxAsks] /\ mishaps' \subseteq Faults
    BY AskTyped DEF Inv, InstallerTypeOK, Open
<1>3. ShownTyped'
    BY DEF Inv, InstallerTypeOK, ShownTyped, Open
<1> QED BY <1>1, <1>2, <1>3, PanelKeepsInv DEF Open

LEMMA EndsKeepsInv ==
  ASSUME Inv, NEW s \in Sites, Ends(s)
  PROVE  Inv'
<1>1. SitesStep
    BY EndsSites DEF Inv, Ends
<1>2. asking' \in [Sites -> 0 .. MaxAsks] /\ mishaps' \subseteq Faults /\ ShownTyped'
    BY DEF Inv, InstallerTypeOK, ShownTyped, Ends, panelVars
<1> QED BY <1>1, <1>2, PanelKeepsInv DEF Ends

LEMMA AsksKeepsInv ==
  ASSUME Inv, Rediagnose \/ TimerFires
  PROVE  Inv'
<1>1. SitesStep /\ mishaps' \subseteq Faults /\ UNCHANGED <<kind, tasks>>
    BY SitesAlone DEF Inv, InstallerTypeOK, Rediagnose, TimerFires
<1>2. asking' \in [Sites -> 0 .. MaxAsks]
    BY AskTyped DEF Inv, InstallerTypeOK, Rediagnose, TimerFires
<1>3. ShownTyped'
  <2>1. panel' = [panel EXCEPT !.loading = TRUE]
      BY DEF Rediagnose, TimerFires
  <2>2. timers' \in Nat
      BY DEF Inv, InstallerTypeOK, Rediagnose, TimerFires
  <2> QED BY <2>1, <2>2 DEF Inv, InstallerTypeOK, ShownTyped
<1> QED BY <1>1, <1>2, <1>3, PanelKeepsInv

LEMMA LeaveKeepsInv ==
  ASSUME Inv, LeavePage
  PROVE  Inv'
<1>1. SitesStep /\ mishaps' \subseteq Faults /\ UNCHANGED <<kind, tasks>>
    BY SitesAlone DEF Inv, InstallerTypeOK, LeavePage
<1>2. asking' \in [Sites -> 0 .. MaxAsks]
    BY InstallerAssumption DEF InstallerAssumption, LeavePage
<1>3. ShownTyped'
    BY DEF ShownTyped, LeavePage, Unmounted, NoDiag, None
<1> QED BY <1>1, <1>2, <1>3, PanelKeepsInv

LEMMA AnswerKeepsInv ==
  ASSUME Inv, NEW s \in Sites, Diagnosed(s) \/ DiagnoseFails(s)
  PROVE  Inv'
<1>1. SitesStep /\ mishaps' \subseteq Faults /\ UNCHANGED <<kind, tasks>>
    BY SitesAlone DEF Inv, InstallerTypeOK, Diagnosed, DiagnoseFails
<1>2. asking' \in [Sites -> 0 .. MaxAsks]
  <2>1. asking \in [Sites -> 0 .. MaxAsks] /\ asking[s] > 0
      BY DEF Inv, InstallerTypeOK, Diagnosed, DiagnoseFails
  <2>2. asking[s] - 1 \in 0 .. MaxAsks
      BY <2>1, InstallerAssumption DEF InstallerAssumption
  <2>3. asking' = [asking EXCEPT ![s] = asking[s] - 1]
      BY DEF Diagnosed, DiagnoseFails
  <2> QED BY <2>1, <2>2, <2>3
<1>3. ShownTyped'
  <2>1. CASE Diagnosed(s)
    <3>1. PICK status \in Status(s) :
            panel' = [panel EXCEPT !.loading = FALSE,
                                   !.diag = [site |-> s, status |-> status]]
        BY <2>1 DEF Diagnosed
    <3>2. status \in {"ready", "no-shell", "configure", "install", "no-pm"}
        BY DEF Status
    <3>3. timers' = timers
        BY <2>1 DEF Diagnosed
    <3> QED BY <3>1, <3>2, <3>3 DEF Inv, InstallerTypeOK, ShownTyped
  <2>2. CASE DiagnoseFails(s)
      BY <2>2 DEF DiagnoseFails, NoDiag, None, Inv, InstallerTypeOK, ShownTyped
  <2> QED BY <2>1, <2>2
<1> QED BY <1>1, <1>2, <1>3, PanelKeepsInv

\* A new task has done nothing yet.
LEMMA StartInstallKeepsInv ==
  ASSUME Inv, NEW http \in BOOLEAN, NEW given \in BOOLEAN, startInstall(http, given)
  PROVE  Inv'
<1> DEFINE r == [site |-> panel.site, http |-> http, given |-> given,
                 step |-> "facts", path |-> None, ok |-> FALSE, trouble |-> {},
                 rivals |-> {}]
           n == Len(tasks) + 1
<1>1. tasks \in Seq(Task) /\ Len(tasks) < MaxRuns /\ panel.site \in Sites
    BY DEF Inv, InstallerTypeOK, startInstall
<1>2. r \in Task
    BY <1>1 DEF Task
<1>3. /\ tasks' = Append(tasks, r)
      /\ UNCHANGED <<kind, site, asking, timers, mishaps>>
      /\ panel' = [panel EXCEPT !.installing = TRUE]
    BY DEF startInstall
<1>4. r.step = "facts" /\ r.ok = FALSE
    OBVIOUS
<1> HIDE DEF r
<1>5. /\ tasks' \in Seq(Task) /\ Len(tasks') = n /\ tasks'[n] = r
      /\ DOMAIN tasks' = DOMAIN tasks \cup {n}
      /\ \A j \in DOMAIN tasks : tasks'[j] = tasks[j]
      /\ n <= MaxRuns
    BY <1>1, <1>2, <1>3, InstallerAssumption DEF InstallerAssumption
<1>6. \A j \in DOMAIN tasks' : ValidTask(j, tasks'[j], site)
    BY <1>4, <1>5 DEF Inv, Valid, ValidTask, Holds
<1>7. Valid'
    BY <1>3, <1>6, UnitFrame DEF Valid, ValidTask
<1>11. ASSUME NEW j \in DOMAIN tasks' PROVE Fits(j, tasks[j])'
  <2>1. ~ Holds(r) /\ \A s, p : ~ Ready(r, s, p)
      BY <1>4 DEF Holds, Ready
  <2>2. ASSUME NEW m \in DOMAIN tasks', m # j
        PROVE  /\ Holds(tasks'[j]) /\ Ready(tasks'[m], tasks'[j].site, tasks'[j].path)
                    => m \in tasks'[j].rivals
               /\ Holds(tasks'[m]) /\ Ready(tasks'[j], tasks'[m].site, tasks'[m].path)
                    => j \in tasks'[m].rivals
      BY <1>5, <2>1, <2>2 DEF Inv, Rivals, Fits
  <2> QED BY <2>2 DEF Fits, Holds, Ready
<1>8. \A j \in DOMAIN tasks' : PathKnown(tasks'[j])
    BY <1>4, <1>5 DEF Inv, InstallerTypeOK, PathKnown, Running
<1>9. panel' \in [site : Sites \cup {NoSite}, loading : BOOLEAN,
                  installing : BOOLEAN,
                  diag : [site : Sites \cup {NoSite},
                          status : {None, "ready", "no-shell", "configure",
                                    "install", "no-pm"}]]
    BY <1>3 DEF Inv, InstallerTypeOK
<1>10. InstallerTypeOK'
    BY <1>3, <1>5, <1>8, <1>9 DEF Inv, InstallerTypeOK, PathKnown, Running
<1> QED BY <1>7, <1>10, <1>11 DEF Inv, Rivals

-----------------------------------------------------------------------------
(* The theorems *)

LEMMA InitInv ==
  InstallerInit => Inv
<1> SUFFICES ASSUME InstallerInit PROVE Inv
    OBVIOUS
<1>1. kind \in [Sites -> Kind]
    BY InstallerAssumption DEF InstallerInit, InstallerAssumption
<1>2. site \in [Sites -> Site]
  <2>1. Found \subseteq [Paths -> Passwords \cup {Absent}]
      BY InstallerAssumption
         DEF InstallerAssumption, Passwords, Absent, NoInet, Theirs
  <2>2. {NoInet, Theirs} \subseteq Passwords
      BY InstallerAssumption DEF InstallerAssumption, Passwords, NoInet, Theirs
  <2>3. site \in [Sites -> [installed : BOOLEAN, up : BOOLEAN,
                            serves : {NoInet, Theirs}, file : Found]]
      BY DEF InstallerInit
  <2> QED BY <2>1, <2>2, <2>3 DEF Site
<1>3. tasks = <<>> /\ timers = 0 /\ mishaps = {} /\ panel = Unmounted
      /\ asking = [s \in Sites |-> 0]
    BY DEF InstallerInit
<1>4. tasks \in Seq(Task) /\ Len(tasks) = 0 /\ DOMAIN tasks = {}
    BY <1>3
<1>5. Valid /\ Rivals /\ \A i \in Running : tasks[i].step # "facts" => tasks[i].path \in Paths
    BY <1>4 DEF Valid, Rivals, Running
<1>6. asking \in [Sites -> 0 .. MaxAsks] /\ Len(tasks) <= MaxRuns
    BY <1>3, <1>4, InstallerAssumption DEF InstallerAssumption
<1>7. panel \in [site : Sites \cup {NoSite}, loading : BOOLEAN,
                 installing : BOOLEAN,
                 diag : [site : Sites \cup {NoSite},
                         status : {None, "ready", "no-shell", "configure",
                                   "install", "no-pm"}]]
    BY <1>3 DEF Unmounted, NoDiag, None
<1> QED BY <1>1, <1>2, <1>3, <1>4, <1>5, <1>6, <1>7 DEF Inv, InstallerTypeOK

LEMMA NextInv ==
  Inv /\ [InstallerNext]_vars => Inv'
<1> SUFFICES ASSUME Inv, [InstallerNext]_vars PROVE Inv'
    OBVIOUS
<1>1. CASE \E s \in Sites : Open(s) \/ Ends(s)
    BY <1>1, OpenKeepsInv, EndsKeepsInv
<1>2. CASE Rediagnose \/ TimerFires
    BY <1>2, AsksKeepsInv
<1>3. CASE LeavePage
    BY <1>3, LeaveKeepsInv
<1>4. CASE \E http, given \in BOOLEAN : startInstall(http, given)
    BY <1>4, StartInstallKeepsInv
<1>5. CASE Answer
    BY <1>5, AnswerKeepsInv DEF Answer
<1>6. CASE \E i \in 1 .. MaxRuns : Step(i)
    BY <1>6, StepInv
<1>7. CASE UNCHANGED vars
    BY <1>7 DEF vars, Inv, InstallerTypeOK, Valid, ValidTask, Good, Rivals, Fits, Holds, Ready,
                Running, UnitPath, package_manager
<1> QED BY <1>1, <1>2, <1>3, <1>4, <1>5, <1>6, <1>7 DEF InstallerNext, User

\* Servers, installs, the panel and its diagnoses keep their types whatever
\* fails, and an install past its facts knows its file (installer.rs, install).
THEOREM InstallerTypeCorrect == InstallerSpec => []InstallerTypeOK
<1>1. Inv => InstallerTypeOK
    BY DEF Inv
<1> QED BY <1>1, InitInv, NextInv, PTL DEF InstallerSpec

\* The password a successful install reports stays the one in its file and the
\* one supervisord asks for, for any number of overlapping installs of any
\* servers and whatever command fails, unless an install that had looked into the
\* file before appended its own after (installer.rs, configure_script, install).
THEOREM ReportedStays == InstallerSpec => []ReportedStaysValid
<1>1. Inv => ReportedStaysValid
    BY DEF Inv, Valid, ValidTask, Good, Holds, ReportedStaysValid, Reported
<1> QED BY <1>1, InitInv, NextInv, PTL DEF InstallerSpec

-----------------------------------------------------------------------------
(* What the panel offers *)

\* Without haste only the site the panel is for is asked, and what the panel
\* shows when it waits for nothing is the answer of that site.
AsksForItself ==
  "hasty" \notin mishaps =>
    /\ \A t \in Sites : asking[t] > 0 => t = panel.site
    /\ panel.site # NoSite /\ ~ panel.loading => panel.diag.site \in {panel.site, NoSite}

\* A step that leaves the diagnoses and what the panel shows of them alone.
LEMMA AsksFrame ==
  ASSUME AsksForItself, UNCHANGED <<asking, mishaps>>, panel'.site = panel.site,
         panel'.loading = panel.loading, panel'.diag = panel.diag
  PROVE  AsksForItself'
BY DEF AsksForItself

LEMMA ResultShown ==
  ASSUME InstallerTypeOK, NEW s, NEW ok, onInstallResult(s, ok) \/ UNCHANGED shown
  PROVE  /\ panel'.site = panel.site /\ panel'.loading = panel.loading
         /\ panel'.diag = panel.diag
BY DEF onInstallResult, shown, InstallerTypeOK

LEMMA AsksStep ==
  Inv /\ AsksForItself /\ [InstallerNext]_vars => AsksForItself'
<1> SUFFICES ASSUME Inv, AsksForItself, [InstallerNext]_vars PROVE AsksForItself'
    OBVIOUS
<1>0. /\ InstallerTypeOK /\ asking \in [Sites -> 0 .. MaxAsks]
      /\ panel.site \in Sites \cup {NoSite} /\ NoSite \notin Sites
    BY InstallerAssumption DEF Inv, InstallerTypeOK, InstallerAssumption
<1>1. ASSUME NEW s \in Sites, Open(s) PROVE AsksForItself'
  <2>1. panel'.site = s /\ panel'.loading /\ asking' = [asking EXCEPT ![s] = asking[s] + 1]
      BY <1>0, <1>1 DEF Open, diagnose, InstallerTypeOK
  <2>2. "hasty" \notin mishaps' => \A t \in Sites \ {s} : ~ asking[t] > 0
      BY <1>1 DEF Open
  <2>3. \A t \in Sites \ {s} : asking'[t] = asking[t]
      BY <1>0, <2>1
  <2> QED BY <2>1, <2>2, <2>3 DEF AsksForItself
<1>2. ASSUME NEW s \in Sites, Ends(s) PROVE AsksForItself'
    BY <1>2, AsksFrame DEF Ends, panelVars
<1>3. CASE Rediagnose \/ TimerFires
  <2>1. /\ panel' = [panel EXCEPT !.loading = TRUE] /\ UNCHANGED mishaps
        /\ asking' = [asking EXCEPT ![panel.site] = asking[panel.site] + 1]
      BY <1>3 DEF Rediagnose, TimerFires, diagnose
  <2>2. panel'.loading /\ panel'.site = panel.site
      BY <1>0, <2>1 DEF InstallerTypeOK
  <2>3. \A t \in Sites : t # panel.site => asking'[t] = asking[t]
      BY <1>0, <2>1
  <2> QED BY <2>1, <2>2, <2>3 DEF AsksForItself
<1>4. CASE LeavePage
    BY <1>4 DEF LeavePage, Unmounted, AsksForItself
<1>5. ASSUME NEW http \in BOOLEAN, NEW given \in BOOLEAN, startInstall(http, given)
      PROVE  AsksForItself'
  <2>1. /\ panel'.site = panel.site /\ panel'.loading = panel.loading
        /\ panel'.diag = panel.diag /\ UNCHANGED <<asking, mishaps>>
      BY <1>0, <1>5 DEF startInstall, InstallerTypeOK
  <2> QED BY <2>1, AsksFrame
<1>6. ASSUME NEW s \in Sites, Diagnosed(s) \/ DiagnoseFails(s) PROVE AsksForItself'
  <2>1. /\ asking[s] > 0 /\ UNCHANGED mishaps
        /\ asking' = [asking EXCEPT ![s] = asking[s] - 1]
      BY <1>6 DEF Diagnosed, DiagnoseFails
  <2>2. panel'.site = panel.site /\ panel'.diag.site \in {s, NoSite}
    <3>1. \A d : LET shows == [panel EXCEPT !.loading = FALSE, !.diag = d]
                 IN  shows.site = panel.site /\ shows.diag = d
        BY <1>0 DEF InstallerTypeOK
    <3>2. CASE Diagnosed(s)
      <4>1. PICK status \in Status(s) :
                panel' = [panel EXCEPT !.loading = FALSE,
                                       !.diag = [site |-> s, status |-> status]]
          BY <3>2 DEF Diagnosed
      <4> QED BY <3>1, <4>1
    <3>3. CASE DiagnoseFails(s)
      <4>1. panel' = [panel EXCEPT !.loading = FALSE, !.diag = NoDiag]
          BY <3>3 DEF DiagnoseFails
      <4> QED BY <3>1, <4>1 DEF NoDiag
    <3> QED BY <1>6, <3>2, <3>3
  <2>3. \A t \in Sites : asking'[t] > 0 => asking[t] > 0
    <3>1. \A t \in Sites : asking[t] \in Nat
        BY <1>0, InstallerAssumption DEF InstallerAssumption
    <3>2. \A t \in Sites \ {s} : asking'[t] = asking[t]
        BY <1>0, <2>1
    <3> QED BY <2>1, <3>2
  <2> QED BY <2>1, <2>2, <2>3 DEF AsksForItself
<1>7. ASSUME NEW i \in 1 .. MaxRuns, Step(i) PROVE AsksForItself'
  <2>1. \E s, ok : onInstallResult(s, ok) \/ UNCHANGED shown
      BY <1>7 DEF Step, NoConnection, gather_facts, CommandFails, Package, Looks,
                  Appends, AppendFails, RestartUnit, RestartFails, Start, LeftAlone,
                  Afterwards, Fail, Succeed
  <2>2. /\ panel'.site = panel.site /\ panel'.loading = panel.loading
        /\ panel'.diag = panel.diag
      BY <1>0, <2>1, ResultShown
  <2> QED BY <1>7, <2>2, AsksFrame DEF Step
<1>8. CASE UNCHANGED vars
    BY <1>8, AsksFrame DEF vars
<1> QED BY <1>1, <1>2, <1>3, <1>4, <1>5, <1>6, <1>7, <1>8
        DEF InstallerNext, User, Answer

\* What the panel offers for a server is what the diagnosis of this server found,
\* unless the panel was turned to it during another diagnosis, however the
\* diagnoses, timers and installs interleave (SupervisorInstallPanel.vue).
THEOREM PanelOffersItsOwn == InstallerSpec => []OffersWhatWasFound
<1>1. InstallerInit => AsksForItself
    BY DEF InstallerInit, AsksForItself, Unmounted
<1>2. AsksForItself => OffersWhatWasFound
    BY DEF AsksForItself, OffersWhatWasFound
<1> QED BY <1>1, <1>2, AsksStep, InitInv, NextInv, PTL DEF InstallerSpec

-----------------------------------------------------------------------------
(* The panel is freed.  While it waits, and is not turned to another server, it *)
(* waits for the last install that was asked for, and each step of this install *)
(* is a later one.                                                              *)

\* The steps that may follow.
Later == [facts |-> {"package", "configure", "append", "service"},
          package |-> {"configure", "append", "service"},
          configure |-> {"append", "service"},
          append |-> {"service"},
          service |-> {}]

\* Task i goes on to a later step, or ends and reports.
Moves(i) ==
  /\ Len(tasks') = Len(tasks)
  /\ \A j \in DOMAIN tasks : j # i => tasks'[j] = tasks[j]
  /\ tasks'[i].site = tasks[i].site
  /\ \/ tasks'[i].step \in Later[tasks[i].step] /\ UNCHANGED shown
     \/ tasks'[i].step = "over" /\ \E ok \in BOOLEAN : onInstallResult(tasks[i].site, ok)

LEMMA FailMoves ==
  ASSUME Inv, NEW i \in Running, Fail(i)
  PROVE  Moves(i)
<1>1. Becomes(i, {Failed(i)})
    BY UnderWay, FailTyped
<1>2. Failed(i).step = "over" /\ Failed(i).site = tasks[i].site
    BY UnderWay DEF Failed, Task
<1>3. \E ok \in BOOLEAN : onInstallResult(tasks[i].site, ok)
    BY DEF Fail
<1> QED BY <1>1, <1>2, <1>3 DEF Becomes, Moves

LEMMA SucceedMoves ==
  ASSUME Inv, NEW i \in Running, NEW trouble \in SUBSET Troubles, Succeed(i, trouble)
  PROVE  Moves(i)
<1>1. Becomes(i, {Succeeded(i, trouble)})
    BY UnderWay, SucceedTyped DEF Troubles
<1>2. Succeeded(i, trouble).step = "over" /\ Succeeded(i, trouble).site = tasks[i].site
    BY UnderWay DEF Succeeded, Task
<1>3. \E ok \in BOOLEAN : onInstallResult(tasks[i].site, ok)
    BY DEF Succeed
<1> QED BY <1>1, <1>2, <1>3 DEF Becomes, Moves

LEMMA AfterwardsMoves ==
  ASSUME Inv, NEW i \in Running, NEW trouble \in SUBSET Troubles,
         NEW step \in {"configure", "append", "service"}, step \in Later[tasks[i].step],
         Afterwards(i, step, trouble)
  PROVE  Moves(i)
<1>1. CASE Fail(i)
    BY <1>1, FailMoves
<1>2. CASE /\ tasks' = [tasks EXCEPT ![i].step = step, ![i].trouble = @ \cup trouble]
           /\ UNCHANGED shown
  <2> DEFINE r == Proceeded(i, step, trouble)
  <2>1. tasks' = [tasks EXCEPT ![i] = r]
      BY <1>2 DEF Proceeded
  <2>2. r \in Task /\ r.step = step /\ r.site = tasks[i].site
      BY UnderWay DEF Proceeded, Task, Troubles
  <2> HIDE DEF r
  <2>3. Becomes(i, {r})
      BY <2>1, <2>2, UnderWay, BecomesBy
  <2> QED BY <1>2, <2>2, <2>3 DEF Becomes, Moves
<1> QED BY <1>1, <1>2 DEF Afterwards

LEMMA GatherMoves ==
  ASSUME Inv, NEW i \in Running, gather_facts(i)
  PROVE  Moves(i)
<1>1. CASE Fail(i)
    BY <1>1, FailMoves
<1>2. CASE ~ Fail(i)
  <2> DEFINE s == tasks[i].site
             step == IF site[s].installed THEN AfterPackage(i) ELSE "package"
             r == [tasks[i] EXCEPT !.path = conf_path(s), !.step = step]
  <2>1. tasks' = [tasks EXCEPT ![i] = r] /\ UNCHANGED shown /\ tasks[i].step = "facts"
      BY <1>2 DEF gather_facts
  <2>2. step \in {"package", "configure", "service"}
      BY DEF AfterPackage
  <2>3. r \in Task /\ r.step = step /\ r.site = s
      BY <2>2, UnderWay, PathTypes DEF Task
  <2> HIDE DEF r, step
  <2>4. Becomes(i, {r})
      BY <2>1, <2>3, UnderWay, BecomesBy
  <2> QED BY <2>1, <2>2, <2>3, <2>4 DEF Becomes, Moves, Later
<1> QED BY <1>1, <1>2

\* Every command of an install leads to a later one or to its report.
LEMMA StepMoves ==
  ASSUME Inv, NEW i \in 1 .. MaxRuns, Step(i)
  PROVE  Moves(i)
<1>1. i \in Running
    BY DEF Step
<1>2. CASE NoConnection(i) \/ CommandFails(i)
    BY <1>1, <1>2, FailMoves DEF NoConnection, CommandFails
<1>3. CASE gather_facts(i)
    BY <1>1, <1>3, GatherMoves
<1>4. CASE Package(i)
  <2>1. Afterwards(i, AfterPackage(i), {}) /\ tasks[i].step = "package"
      BY <1>4 DEF Package
  <2>2. AfterPackage(i) \in {"configure", "service"} /\ {} \in SUBSET Troubles
      BY DEF AfterPackage
  <2>3. AfterPackage(i) \in Later[tasks[i].step]
      BY <2>1, <2>2 DEF Later
  <2> QED BY <1>1, <2>1, <2>2, <2>3, AfterwardsMoves
<1>5. CASE Looks(i) \/ AppendFails(i)
  <2>1. PICK trouble \in SUBSET Troubles, step \in {"append", "service"} :
          Afterwards(i, step, trouble) /\ step \in Later[tasks[i].step]
      BY <1>5 DEF Looks, AppendFails, Troubles, Later
  <2> QED BY <1>1, <2>1, AfterwardsMoves
<1>7. CASE Appends(i)
  <2>1. CASE Fail(i)
      BY <1>1, <2>1, FailMoves
  <2>2. CASE ~ Fail(i)
    <3>1. tasks' = [tasks EXCEPT ![i] = Appended(i)] /\ UNCHANGED shown
        BY <1>7, <2>2 DEF Appends, Appended
    <3>2. Becomes(i, {Appended(i)})
        BY <1>1, <3>1, AppendedTyped, UnderWay, BecomesBy
    <3>3. tasks[i].step = "append"
        BY <1>7 DEF Appends
    <3>4. Appended(i).step = "service" /\ Appended(i).site = tasks[i].site
        BY <1>1, AppendedTyped
    <3>5. "service" \in Later["append"]
        BY DEF Later
    <3> HIDE DEF Appended
    <3>6. tasks'[i] = Appended(i)
        BY <3>2 DEF Becomes
    <3> QED BY <3>1, <3>2, <3>3, <3>4, <3>5, <3>6 DEF Becomes, Moves
  <2> QED BY <2>1, <2>2
<1>6. CASE RestartUnit(i) \/ RestartFails(i) \/ Start(i) \/ LeftAlone(i)
  <2>1. Fail(i) \/ \E trouble \in SUBSET Troubles : Succeed(i, trouble)
      BY <1>6 DEF RestartUnit, RestartFails, Start, LeftAlone, Troubles
  <2> QED BY <1>1, <2>1, FailMoves, SucceedMoves
<1> QED BY <1>2, <1>3, <1>4, <1>5, <1>6, <1>7 DEF Step

\* The panel waits for an install and was not turned to another server meanwhile.
Waits == panel.installing /\ "switch" \notin mishaps

\* What it waits for is the last install, which is under way.
WaitsForLast ==
  Waits => /\ Len(tasks) \in Running
           /\ tasks[Len(tasks)].site = panel.site

LEMMA WaitsFrame ==
  ASSUME WaitsForLast, UNCHANGED <<tasks, mishaps>>,
         panel'.installing = panel.installing, panel'.site = panel.site
  PROVE  WaitsForLast'
BY DEF WaitsForLast, Waits, Running

\* A step of an install leaves what the panel waits for, or frees the panel.
LEMMA InstallWaits ==
  ASSUME Inv, WaitsForLast, NEW i \in 1 .. MaxRuns, Step(i), Waits'
  PROVE  /\ Waits /\ Len(tasks') = Len(tasks) /\ panel'.site = panel.site
         /\ i # Len(tasks) => tasks'[Len(tasks)] = tasks[Len(tasks)]
         /\ i = Len(tasks) => /\ tasks'[i].site = tasks[i].site
                              /\ tasks'[i].step \in Later[tasks[i].step]
<1>1. Moves(i) /\ mishaps' = mishaps /\ tasks \in Seq(Task) /\ ShownTyped
      /\ i \in DOMAIN tasks
    BY StepMoves, UnderWay DEF Step
<1>2. ASSUME NEW ok \in BOOLEAN, onInstallResult(tasks[i].site, ok)
      PROVE  tasks[i].site # panel.site /\ UNCHANGED panel
  <2>1. CASE tasks[i].site = panel.site
    <3>1. panel' = [panel EXCEPT !.installing = FALSE]
        BY <1>2, <2>1 DEF onInstallResult
    <3>2. ~ panel'.installing
        BY <1>1, <3>1 DEF ShownTyped
    <3> QED BY <3>2 DEF Waits
  <2>2. CASE tasks[i].site # panel.site
      BY <1>2, <2>2 DEF onInstallResult, shown
  <2> QED BY <2>1, <2>2
<1>3. UNCHANGED panel
    BY <1>1, <1>2 DEF Moves, shown
<1>4. Waits
    BY <1>1, <1>3 DEF Waits
<1>5. Len(tasks) \in DOMAIN tasks /\ tasks[Len(tasks)].site = panel.site
    BY <1>4 DEF WaitsForLast, Running
<1>6. i = Len(tasks) => tasks'[i].step \in Later[tasks[i].step]
    BY <1>1, <1>2, <1>5 DEF Moves
<1> QED BY <1>1, <1>3, <1>4, <1>5, <1>6 DEF Moves

LEMMA WaitsStep ==
  Inv /\ WaitsForLast /\ [InstallerNext]_vars => WaitsForLast'
<1> SUFFICES ASSUME Inv, WaitsForLast, [InstallerNext]_vars PROVE WaitsForLast'
    OBVIOUS
<1>0. ShownTyped /\ tasks \in Seq(Task)
    BY DEF Inv, InstallerTypeOK, ShownTyped
<1>1. ASSUME NEW s \in Sites, Open(s) PROVE WaitsForLast'
  <2>1. /\ UNCHANGED tasks /\ panel'.site = s /\ panel'.installing = panel.installing
        /\ mishaps \subseteq mishaps'
        /\ panel.installing /\ panel.site # s => "switch" \in mishaps'
      BY <1>0, <1>1 DEF Open, ShownTyped
  <2> QED BY <2>1 DEF WaitsForLast, Waits, Running
<1>2. ASSUME NEW s \in Sites, Ends(s) PROVE WaitsForLast'
    BY <1>2, WaitsFrame DEF Ends, panelVars
<1>3. CASE Rediagnose \/ TimerFires
  <2>1. panel' = [panel EXCEPT !.loading = TRUE] /\ UNCHANGED <<tasks, mishaps>>
      BY <1>3 DEF Rediagnose, TimerFires
  <2>2. panel'.installing = panel.installing /\ panel'.site = panel.site
      BY <1>0, <2>1 DEF ShownTyped
  <2> QED BY <2>1, <2>2, WaitsFrame
<1>4. CASE LeavePage
    BY <1>4 DEF LeavePage, Unmounted, WaitsForLast, Waits
<1>5. ASSUME NEW http \in BOOLEAN, NEW given \in BOOLEAN, startInstall(http, given)
      PROVE  WaitsForLast'
  <2> DEFINE r == [site |-> panel.site, http |-> http, given |-> given,
                   step |-> "facts", path |-> None, ok |-> FALSE, trouble |-> {},
                   rivals |-> {}]
             n == Len(tasks) + 1
  <2>1. tasks' = Append(tasks, r) /\ panel'.site = panel.site
      BY <1>0, <1>5 DEF startInstall, ShownTyped
  <2>2. Len(tasks') = n /\ n \in DOMAIN tasks' /\ tasks'[n] = r
      BY <1>0, <2>1
  <2> QED BY <2>1, <2>2 DEF WaitsForLast, Running
<1>6. ASSUME NEW s \in Sites, Diagnosed(s) \/ DiagnoseFails(s) PROVE WaitsForLast'
  <2>1. \A d : LET shows == [panel EXCEPT !.loading = FALSE, !.diag = d]
               IN  shows.site = panel.site /\ shows.installing = panel.installing
      BY <1>0 DEF ShownTyped
  <2>2. UNCHANGED <<tasks, mishaps>> /\ \E d : panel' = [panel EXCEPT !.loading = FALSE, !.diag = d]
      BY <1>6 DEF Diagnosed, DiagnoseFails
  <2> QED BY <2>1, <2>2, WaitsFrame
<1>7. ASSUME NEW i \in 1 .. MaxRuns, Step(i), Waits' PROVE WaitsForLast'
  <2>1. PICK n \in Running : n = Len(tasks) /\ tasks[n].site = panel.site
      BY <1>7, InstallWaits DEF WaitsForLast
  <2>2. Len(tasks') = n /\ panel'.site = panel.site /\ tasks'[n].site = tasks[n].site
      BY <1>7, <2>1, InstallWaits
  <2>3. tasks'[n].step # "over" /\ n \in DOMAIN tasks'
    <3>1. tasks[n].step # "over" /\ tasks[n] \in Task /\ n \in DOMAIN tasks
        BY <2>1, UnderWay
    <3>2. n \in DOMAIN tasks'
        BY <1>7, <3>1, StepMoves, UnderWay, NextInv, <1>0, <2>1, <2>2 DEF Inv, InstallerTypeOK
    <3>3. "over" \notin Later[tasks[n].step]
        BY <3>1 DEF Task, Later
    <3> QED BY <1>7, <2>1, <3>1, <3>2, <3>3, InstallWaits
  <2> QED BY <2>1, <2>2, <2>3 DEF WaitsForLast, Running
<1>8. CASE UNCHANGED vars
    BY <1>8, WaitsFrame DEF vars
<1> QED BY <1>1, <1>2, <1>3, <1>4, <1>5, <1>6, <1>7, <1>8
        DEF InstallerNext, User, Answer, WaitsForLast

\* As long as the panel waits, its install stays at its step or goes on to a later
\* one.
LEMMA WaitsOn ==
  ASSUME Inv, WaitsForLast, [InstallerNext]_vars, Waits, Waits'
  PROVE  /\ Len(tasks') = Len(tasks) /\ Len(tasks) \in Running'
         /\ \/ tasks'[Len(tasks)].step = tasks[Len(tasks)].step
            \/ tasks'[Len(tasks)].step \in Later[tasks[Len(tasks)].step]
<1>1. CASE UNCHANGED tasks
    BY <1>1, WaitsStep DEF WaitsForLast
<1>2. ASSUME NEW i \in 1 .. MaxRuns, Step(i)
      PROVE  /\ Len(tasks') = Len(tasks) /\ Len(tasks) \in Running'
             /\ \/ tasks'[Len(tasks)].step = tasks[Len(tasks)].step
                \/ tasks'[Len(tasks)].step \in Later[tasks[Len(tasks)].step]
    BY <1>2, InstallWaits, WaitsStep DEF WaitsForLast
<1>3. ASSUME NEW http \in BOOLEAN, NEW given \in BOOLEAN PROVE ~ startInstall(http, given)
    BY DEF Waits, startInstall
<1> QED BY <1>1, <1>2, <1>3
        DEF InstallerNext, User, Answer, vars, Open, Ends, Rediagnose, LeavePage,
            TimerFires, Diagnosed, DiagnoseFails

\* The panel waits for install n, which is at one of the steps S.
At(n, S) == Waits /\ Len(tasks) = n /\ n \in Running /\ tasks[n].step \in S

\* The install of the panel stays among S until it takes a step, which leaves it
\* among R or frees the panel.
LEMMA AtLeads ==
  ASSUME NEW n \in 1 .. MaxRuns, NEW S, NEW R, R \subseteq S,
         \A k \in S : Later[k] \subseteq R
  PROVE  /\ Inv /\ WaitsForLast /\ [InstallerNext]_vars /\ At(n, S)
              => ~ Waits' \/ At(n, S)'
         /\ Inv /\ WaitsForLast /\ At(n, S) /\ <<Step(n)>>_vars
              => ~ Waits' \/ At(n, R)'
<1>1. ASSUME Inv, WaitsForLast, [InstallerNext]_vars, At(n, S), Waits'
      PROVE  At(n, S)'
    BY <1>1, WaitsOn DEF At
<1>2. ASSUME Inv, WaitsForLast, At(n, S), Step(n), Waits'
      PROVE  At(n, R)'
  <2>1. [InstallerNext]_vars
      BY <1>2 DEF InstallerNext
  <2>2. tasks'[n].step \in Later[tasks[n].step]
      BY <1>2, InstallWaits DEF At
  <2>3. Len(tasks') = n /\ n \in Running' /\ tasks'[n].step \in R
      BY <1>2, <2>1, <2>2, WaitsOn DEF At
  <2> QED BY <1>2, <2>3 DEF At
<1> QED BY <1>1, <1>2

\* The panel is freed by the install i it waits for, stage by stage.
LEMMA InstallEnds ==
  ASSUME NEW i \in 1 .. MaxRuns
  PROVE  /\ []Inv /\ []WaitsForLast /\ [][InstallerNext]_vars
         /\ []<>(i \notin Running) \/ []<><<Step(i)>>_vars
         => []((Waits /\ Len(tasks) = i) => <>~ Waits)
<1> DEFINE S5 == {"facts", "package", "configure", "append", "service"}
           S4 == {"package", "configure", "append", "service"}
           S3 == {"configure", "append", "service"}
           S2 == {"append", "service"}
           S1 == {"service"}
           P5 == At(i, S5)
           P4 == At(i, S4)
           P3 == At(i, S3)
           P2 == At(i, S2)
           P1 == At(i, S1)
           Goes == /\ []Inv /\ []WaitsForLast /\ [][InstallerNext]_vars
                   /\ []<>(i \notin Running) \/ []<><<Step(i)>>_vars
<1>0. P5 \/ P4 \/ P3 \/ P2 \/ P1 => ~ (i \notin Running)
    BY DEF At
<1>6. Goes => [](P5 => <>(~ Waits \/ P4))
  <2>1. S4 \subseteq S5 /\ \A k \in S5 : Later[k] \subseteq S4
      BY DEF Later
  <2> HIDE DEF S5, S4
  <2>2. /\ Inv /\ WaitsForLast /\ [InstallerNext]_vars /\ P5 => ~ Waits' \/ P5'
        /\ Inv /\ WaitsForLast /\ P5 /\ <<Step(i)>>_vars => ~ Waits' \/ P4'
      BY <2>1, AtLeads
  <2> HIDE DEF P5, P4
  <2> QED BY <1>0, <2>2, PTL
<1>1. Goes => [](P4 => <>(~ Waits \/ P3))
  <2>1. S3 \subseteq S4 /\ \A k \in S4 : Later[k] \subseteq S3
      BY DEF Later
  <2> HIDE DEF S4, S3
  <2>2. /\ Inv /\ WaitsForLast /\ [InstallerNext]_vars /\ P4 => ~ Waits' \/ P4'
        /\ Inv /\ WaitsForLast /\ P4 /\ <<Step(i)>>_vars => ~ Waits' \/ P3'
      BY <2>1, AtLeads
  <2> HIDE DEF P4, P3
  <2> QED BY <1>0, <2>2, PTL
<1>2. Goes => [](P3 => <>(~ Waits \/ P2))
  <2>1. S2 \subseteq S3 /\ \A k \in S3 : Later[k] \subseteq S2
      BY DEF Later
  <2> HIDE DEF S3, S2
  <2>2. /\ Inv /\ WaitsForLast /\ [InstallerNext]_vars /\ P3 => ~ Waits' \/ P3'
        /\ Inv /\ WaitsForLast /\ P3 /\ <<Step(i)>>_vars => ~ Waits' \/ P2'
      BY <2>1, AtLeads
  <2> HIDE DEF P3, P2
  <2> QED BY <1>0, <2>2, PTL
<1>3. Goes => [](P2 => <>(~ Waits \/ P1))
  <2>1. S1 \subseteq S2 /\ \A k \in S2 : Later[k] \subseteq S1
      BY DEF Later
  <2> HIDE DEF S2, S1
  <2>2. /\ Inv /\ WaitsForLast /\ [InstallerNext]_vars /\ P2 => ~ Waits' \/ P2'
        /\ Inv /\ WaitsForLast /\ P2 /\ <<Step(i)>>_vars => ~ Waits' \/ P1'
      BY <2>1, AtLeads
  <2> HIDE DEF P2, P1
  <2> QED BY <1>0, <2>2, PTL
<1>4. Goes => [](P1 => <>~ Waits)
  <2>1. {} \subseteq S1 /\ \A k \in S1 : Later[k] \subseteq {}
      BY DEF Later
  <2> HIDE DEF S1
  <2>2. /\ Inv /\ WaitsForLast /\ [InstallerNext]_vars /\ P1 => ~ Waits' \/ P1'
        /\ Inv /\ WaitsForLast /\ P1 /\ <<Step(i)>>_vars => ~ Waits' \/ At(i, {})'
      BY <2>1, AtLeads
  <2>3. ~ At(i, {})'
      BY DEF At
  <2>4. Inv /\ WaitsForLast /\ P1 /\ <<Step(i)>>_vars => ~ Waits'
      BY <2>2, <2>3
  <2> HIDE DEF P1
  <2> QED BY <1>0, <2>2, <2>4, PTL
<1>5. Inv /\ WaitsForLast /\ Waits /\ Len(tasks) = i => P5
  <2> SUFFICES ASSUME Inv, WaitsForLast, Waits, Len(tasks) = i PROVE At(i, S5)
      OBVIOUS
  <2>1. i \in Running
      BY DEF WaitsForLast
  <2>2. tasks[i].step \in S5
      BY <2>1, UnderWay DEF Task
  <2> QED BY <2>1, <2>2 DEF At
<1> HIDE DEF P5, P4, P3, P2, P1
<1> QED BY <1>1, <1>2, <1>3, <1>4, <1>5, <1>6, PTL

\* An install the panel waits for ends with a result for it, whichever of its
\* commands fails and whatever other installs of the same server do, unless the
\* panel was turned to another server; all this takes is that each command ends
\* (SupervisorInstallPanel.vue, onInstallResult; installer.rs, install).
THEOREM PanelComesFree ==
  InstallerInit /\ [][InstallerNext]_vars /\ CommandsEnd => PanelIsFreed
<1>1. InstallerInit => Inv /\ WaitsForLast
    BY InitInv DEF InstallerInit, WaitsForLast, Waits, Unmounted
<1>2. InstallerInit /\ [][InstallerNext]_vars => []Inv /\ []WaitsForLast
    BY <1>1, NextInv, WaitsStep, PTL
<1>3. /\ []Inv /\ []WaitsForLast /\ [][InstallerNext]_vars
      /\ [](\A i \in 1 .. MaxRuns : KeepsGoing(i))
      => []((\E i \in 1 .. MaxRuns : Waits /\ Len(tasks) = i) => <>~ Waits)
  <2> SUFFICES ASSUME []Inv, []WaitsForLast, [][InstallerNext]_vars,
                      [](\A i \in 1 .. MaxRuns : KeepsGoing(i))
               PROVE  []((\E i \in 1 .. MaxRuns : Waits /\ Len(tasks) = i) => <>~ Waits)
      OBVIOUS
  <2>1. \A i \in 1 .. MaxRuns : KeepsGoing(i)
      BY PTL
  <2>2. \A i \in 1 .. MaxRuns : Waits /\ Len(tasks) = i => <>~ Waits
    <3> TAKE i \in 1 .. MaxRuns
    <3>1. []<>(i \notin Running) \/ []<><<Step(i)>>_vars
        BY <2>1 DEF KeepsGoing
    <3>2. []((Waits /\ Len(tasks) = i) => <>~ Waits)
        BY <3>1, InstallEnds, PTL
    <3> QED BY <3>2, PTL
  <2>3. (\E i \in 1 .. MaxRuns : Waits /\ Len(tasks) = i) => <>~ Waits
      BY <2>2
  <2> QED BY <2>3, PTL
<1>4. Inv /\ WaitsForLast /\ Waits => \E i \in 1 .. MaxRuns : Waits /\ Len(tasks) = i
    BY UnderWay DEF WaitsForLast
<1>5. ~ Waits <=> ~ panel.installing \/ "switch" \in mishaps
    BY DEF Waits
<1> QED BY <1>2, <1>3, <1>4, <1>5, PTL DEF PanelIsFreed, CommandsEnd
=============================================================================
