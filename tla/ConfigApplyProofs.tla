-------------------------- MODULE ConfigApplyProofs --------------------------
(***************************************************************************)
(* A reload that is not disturbed applies what it read, for every number   *)
(* of groups and commands, every history of edits, failures and overlaps   *)
(* before it, and every number of repeated batches.                        *)
(*                                                                         *)
(* The editor and the builder of Programs do to the files what they show.  *)
(* A read under way holds what the file holds (EditorInv), since a write   *)
(* that would make it stale is the mishap the property excludes; and while *)
(* the builder is not opened during a parse or a save, there is one parse  *)
(* or one save at a time, for the file the builder is open for             *)
(* (BuilderInv).                                                           *)
(***************************************************************************)
EXTENDS ConfigApply, Programs, SequenceTheorems, TLAPS

\* The groups of the removal batch are gone once their call is made, and every
\* group the reload does not touch, or only adds later, is as it should be.
Removing(c) ==
  /\ \A g \in Groups \ (c.remove \cup c.add) : active[g] = parsed[g]
  /\ \A g \in c.remove \ c.todo : active[g] = None
  /\ \A g \in c.add \ c.remove : active[g] = None
  /\ \A g \in c.remove \ c.add : parsed[g] = None

\* Every group outside the second batch is as it should be, and every group of
\* the batch is or is not active yet.
Adding(c) ==
  /\ \A g \in Groups \ c.add : active[g] = parsed[g]
  /\ \A g \in c.add : active[g] = None \/ active[g] = parsed[g]
  /\ \A g \in c.add \ c.todo : active[g] = parsed[g]

OnTrack(c) ==
  /\ c.at = "remove" => Removing(c)
  /\ c.at = "add" => Adding(c)
  /\ c.at = "done" => active = parsed

Undisturbed == \A k \in alone : OnTrack(cmd[k])

ConfigInv == ConfigTypeOK /\ Undisturbed

LEMMA VersionsEqual ==
  ASSUME NEW u \in Versions, NEW v \in Versions,
         \A g \in Groups : u[g] = v[g]
  PROVE  u = v
  BY DEF Versions

LEMMA InitInv == ConfigInit => ConfigInv
  BY DEF ConfigInit, ConfigInv, ConfigTypeOK, Undisturbed, Versions, Commands,
         Batch, Idle, None

LEMMA TypedStep == ConfigTypeOK /\ [ConfigNext]_configVars => ConfigTypeOK'
<1> SUFFICES ASSUME ConfigTypeOK, [ConfigNext]_configVars PROVE ConfigTypeOK'
  OBVIOUS
<1> USE DEF ConfigTypeOK, Versions, Commands, Batch, None
<1>1. CASE UNCHANGED configVars
  BY <1>1 DEF configVars
<1>2. ASSUME NEW k \in Clients, Begins(k) PROVE ConfigTypeOK'
  <2>1. CASE servers_daemon_reload(k)
    BY <2>1 DEF servers_daemon_reload, MayStart, Idle
  <2>2. ASSUME NEW g \in Groups, Save(k, g) PROVE ConfigTypeOK'
    BY <2>2 DEF Save, MayStart, Idle
  <2>3. ASSUME NEW g \in Groups, SaveFails(k, g) PROVE ConfigTypeOK'
    BY <2>3 DEF SaveFails
  <2>4. QED
    BY <1>2, <2>1, <2>2, <2>3 DEF Begins
<1>3. ASSUME NEW k \in Clients, Reloads(k) PROVE ConfigTypeOK'
  <2>1. CASE Reread(k)
    <3>1. /\ ToRemove(active, file) \subseteq Groups
          /\ ToAdd(active, file) \subseteq Groups
      BY DEF ToRemove, ToAdd, Gone, Changed, Added
    <3>2. QED
      BY <2>1, <3>1 DEF Reread, After, Idle
  <2>2. CASE RereadFails(k)
    BY <2>2 DEF RereadFails, Idle
  <2>3. ASSUME NEW g \in Groups, Remove(k, g) PROVE ConfigTypeOK'
    BY <2>3 DEF Remove, Called
  <2>4. ASSUME NEW g \in Groups, Add(k, g) PROVE ConfigTypeOK'
    BY <2>4 DEF Add, Called
  <2>5. ASSUME NEW g \in Groups, CallFails(k, g) PROVE ConfigTypeOK'
    BY <2>5 DEF CallFails, Called
  <2>6. CASE Repeat(k)
    <3>1. Batch(cmd[k]) \subseteq Groups /\ cmd[k].repeats + 1 \in Nat
      OBVIOUS
    <3>2. cmd' = [cmd EXCEPT ![k] = [@ EXCEPT !.repeats = cmd[k].repeats + 1,
                                              !.todo = Batch(cmd[k])]]
      BY <2>6 DEF Repeat
    <3>3. /\ cmd'[k].at = cmd[k].at /\ cmd'[k].todo = Batch(cmd[k])
          /\ cmd'[k].remove = cmd[k].remove /\ cmd'[k].add = cmd[k].add
          /\ \A j \in Clients \ {k} : cmd'[j] = cmd[j]
      BY ONLY <3>2, ConfigTypeOK DEF ConfigTypeOK, Commands
    <3>4. cmd' \in [Clients -> Commands]
      <4> HIDE DEF Batch
      <4>1. QED
        BY <3>1, <3>2
    <3>5. \A j \in Clients : cmd'[j].todo \subseteq Batch(cmd'[j])
      BY <3>3
    <3>6. QED
      BY <2>6, <3>4, <3>5 DEF Repeat
  <2>7. CASE NextBatch(k)
    BY <2>7 DEF NextBatch, After
  <2>8. CASE LastBatch(k)
    BY <2>8 DEF LastBatch
  <2>9. CASE Return(k)
    BY <2>9 DEF Return, Idle
  <2>10. QED
    BY <1>3, <2>1, <2>2, <2>3, <2>4, <2>5, <2>6, <2>7, <2>8, <2>9
       DEF Reloads, Calls
<1>4. QED
  BY <1>1, <1>2, <1>3 DEF ConfigNext

\* The reread itself puts its reload on track, whatever is active.
LEMMA RereadOnTrack ==
  ASSUME ConfigTypeOK, NEW k \in Clients, Reread(k)
  PROVE  Undisturbed'
<1> DEFINE remove == ToRemove(active, file)
           add == ToAdd(active, file)
<1>1. /\ parsed' = file /\ active' = active /\ alone' = {k}
      /\ cmd'[k].remove = remove /\ cmd'[k].add = add
      /\ cmd'[k].at = IF remove = {} THEN After(add) ELSE "remove"
      /\ cmd'[k].todo = IF cmd'[k].at = "remove" THEN remove ELSE add
  BY DEF Reread, ConfigTypeOK, Commands, Idle
<1>2. /\ \A g \in Groups \ (remove \cup add) : active[g] = file[g]
      /\ \A g \in add \ remove : active[g] = None
      /\ \A g \in remove \ add : file[g] = None
      /\ add \subseteq Groups
      /\ \A g \in add : g \in remove \/ active[g] = None
  BY DEF ToRemove, ToAdd, Gone, Changed, Added, ConfigTypeOK, Versions, None
<1>3. CASE remove # {}
  BY <1>1, <1>2, <1>3 DEF Undisturbed, OnTrack, Removing
<1>4. CASE remove = {} /\ add # {}
  BY <1>1, <1>2, <1>4 DEF Undisturbed, OnTrack, Adding, After
<1>5. CASE remove = {} /\ add = {}
  <2>1. active = file
    BY <1>2, <1>5, VersionsEqual DEF ConfigTypeOK
  <2>2. QED
    BY <1>1, <1>5, <2>1 DEF Undisturbed, OnTrack, After
<1>6. QED
  BY <1>3, <1>4, <1>5

LEMMA UndisturbedStep == ConfigInv /\ [ConfigNext]_configVars => Undisturbed'
<1> SUFFICES ASSUME ConfigInv, [ConfigNext]_configVars PROVE Undisturbed'
  OBVIOUS
<1> USE DEF ConfigInv, ConfigTypeOK, Commands
<1>1. CASE UNCHANGED configVars
  BY <1>1 DEF configVars, Undisturbed, OnTrack, Removing, Adding
<1>2. ASSUME NEW k \in Clients, Begins(k) PROVE Undisturbed'
  <2>1. /\ UNCHANGED <<parsed, active, alone>>
        /\ \A j \in Clients : cmd'[j] = cmd[j] \/ cmd'[j].at \in {"idle", "reread"}
    <3>1. CASE servers_daemon_reload(k)
      BY <3>1 DEF servers_daemon_reload
    <3>2. ASSUME NEW g \in Groups, Save(k, g) PROVE <2>1!1 /\ <2>1!2
      BY <3>2 DEF Save
    <3>3. ASSUME NEW g \in Groups, SaveFails(k, g) PROVE <2>1!1 /\ <2>1!2
      BY <3>3 DEF SaveFails
    <3>4. QED
      BY <1>2, <3>1, <3>2, <3>3 DEF Begins
  <2>2. QED
    BY <2>1 DEF Undisturbed, OnTrack, Removing, Adding
<1>3. ASSUME NEW k \in Clients, Reloads(k) PROVE Undisturbed'
  <2>1. CASE Reread(k)
    BY <2>1, RereadOnTrack
  <2>2. CASE RereadFails(k)
    BY <2>2 DEF RereadFails, Undisturbed
  <2>3. ASSUME NEW g \in Groups, Remove(k, g) PROVE Undisturbed'
    <3> SUFFICES ASSUME k \in alone PROVE OnTrack(cmd[k])'
      BY <2>3 DEF Remove, Undisturbed
    <3>1. Removing(cmd[k]) /\ cmd[k] \in Commands
      BY <2>3 DEF Remove, Undisturbed, OnTrack
    <3>2. /\ cmd'[k].at = "remove" /\ cmd'[k].todo = cmd[k].todo \ {g}
          /\ cmd'[k].remove = cmd[k].remove /\ cmd'[k].add = cmd[k].add
      BY <2>3 DEF Remove, Called
    <3>3. /\ parsed' = parsed
          /\ g \in cmd[k].todo
          /\ \A h \in Groups : active'[h] = IF h = g THEN None ELSE active[h]
      BY <2>3 DEF Remove, Versions
    <3>4. g \in cmd[k].remove
      BY <2>3 DEF Remove, Batch
    <3>5. QED
      BY <3>1, <3>2, <3>3, <3>4 DEF OnTrack, Removing
  <2>4. ASSUME NEW g \in Groups, Add(k, g) PROVE Undisturbed'
    BY <2>4 DEF Add, Called, Undisturbed, OnTrack, Adding, Versions
  <2>5. ASSUME NEW g \in Groups, CallFails(k, g) PROVE Undisturbed'
    BY <2>5 DEF CallFails, Called, Undisturbed, OnTrack, Removing, Adding
  <2>6. CASE Repeat(k)
    BY <2>6 DEF Repeat, Undisturbed, OnTrack, Removing, Adding
  <2>7. CASE NextBatch(k)
    <3> SUFFICES ASSUME NEW j \in alone PROVE OnTrack(cmd[j])'
      BY <2>7 DEF NextBatch, Undisturbed
    <3>1. CASE j # k
      BY <2>7, <3>1 DEF NextBatch, Undisturbed, OnTrack, Removing, Adding
    <3>2. CASE j = k
      <4>1. Removing(cmd[k]) /\ cmd[k].todo = {}
        BY <2>7, <3>2 DEF NextBatch, Undisturbed, OnTrack
      <4>2. \A g \in Groups \ cmd[k].add : active[g] = parsed[g]
        BY <4>1 DEF Removing
      <4>3. \A g \in cmd[k].add : active[g] = None
        BY <4>1 DEF Removing
      <4>4. CASE cmd[k].add # {}
        BY <2>7, <3>2, <4>2, <4>3, <4>4 DEF NextBatch, After, OnTrack, Adding
      <4>5. CASE cmd[k].add = {}
        <5>1. active = parsed
          BY <4>2, <4>5, VersionsEqual
        <5>2. QED
          BY <2>7, <3>2, <4>5, <5>1 DEF NextBatch, After, OnTrack
      <4>6. QED
        BY <4>4, <4>5
    <3>3. QED
      BY <3>1, <3>2
  <2>8. CASE LastBatch(k)
    <3> SUFFICES ASSUME NEW j \in alone PROVE OnTrack(cmd[j])'
      BY <2>8 DEF LastBatch, Undisturbed
    <3>1. CASE j # k
      BY <2>8, <3>1 DEF LastBatch, Undisturbed, OnTrack, Removing, Adding
    <3>2. CASE j = k
      <4>1. Adding(cmd[k]) /\ cmd[k].todo = {}
        BY <2>8, <3>2 DEF LastBatch, Undisturbed, OnTrack
      <4>2. active = parsed
        BY <4>1, VersionsEqual DEF Adding
      <4>3. QED
        BY <2>8, <3>2, <4>2 DEF LastBatch, OnTrack
    <3>3. QED
      BY <3>1, <3>2
  <2>9. CASE Return(k)
    BY <2>9 DEF Return, Idle, Undisturbed, OnTrack, Removing, Adding
  <2>10. QED
    BY <1>3, <2>1, <2>2, <2>3, <2>4, <2>5, <2>6, <2>7, <2>8, <2>9
       DEF Reloads, Calls
<1>4. QED
  BY <1>1, <1>2, <1>3 DEF ConfigNext

LEMMA ConfigInvariant == ConfigSpec => []ConfigInv
<1>1. ConfigInv /\ [ConfigNext]_configVars => ConfigInv'
  BY TypedStep, UndisturbedStep DEF ConfigInv
<1>2. QED
  BY InitInv, <1>1, PTL DEF ConfigSpec

\* Versions and commands have their types, and a batch under way makes calls
\* for its own groups only.
THEOREM ConfigTypeCorrect == ConfigSpec => []ConfigTypeOK
  BY ConfigInvariant, PTL DEF ConfigInv

\* service.rs, reload_config: however broken or interleaved what came before,
\* a reload that met no failing call and no other command leaves supervisord
\* running what its reread found in the files.
THEOREM ReloadApplies == ConfigSpec => []CleanReloadApplies
<1>1. ConfigInv => CleanReloadApplies
  BY DEF ConfigInv, Undisturbed, OnTrack, CleanReloadApplies
<1>2. QED
  BY ConfigInvariant, <1>1, PTL

-----------------------------------------------------------------------------
(* Programs: files and forms *)

LEMMA FileBegins ==
  ASSUME NEW f \in File, f # <<>>
  PROVE  /\ f[1] \in Program /\ Tail(f) \in File
         /\ \A t \in Texts : [f EXCEPT ![1].text = t] \in File
<1>1. f \in Seq(Program) /\ Len(f) \in 1 .. 2
  <2>1. f \in Seq(Program) /\ Len(f) <= 2
    BY DEF File
  <2>2. PICK n : n = Len(f)
    OBVIOUS
  <2>3. n \in Nat \ {0} /\ n <= 2
    BY <2>1, <2>2, EmptySeq
  <2>4. n \in 1 .. 2
    BY <2>3
  <2>. QED
    BY <2>1, <2>2, <2>4
<1>2. f[1] \in Program
  BY <1>1
<1>3. Tail(f) \in Seq(Program) /\ Len(Tail(f)) <= 2
  <2>1. Tail(f) \in Seq(Program) /\ Len(Tail(f)) = Len(f) - 1
    BY <1>1, HeadTailProperties
  <2>. QED
    BY <1>1, <2>1
<1>4. ASSUME NEW t \in Texts
      PROVE  [f EXCEPT ![1].text = t] \in Seq(Program) /\ Len([f EXCEPT ![1].text = t]) <= 2
  <2>1. [f[1] EXCEPT !.text = t] \in Program
    BY <1>2 DEF Program
  <2>2. [f EXCEPT ![1].text = t] = [f EXCEPT ![1] = [f[1] EXCEPT !.text = t]]
    OBVIOUS
  <2>3. PICK p \in Program : p = [f[1] EXCEPT !.text = t]
    BY <2>1
  <2>4. 1 \in 1 .. Len(f) /\ Len(f) <= 2
    <3>1. PICK n \in 1 .. 2 : n = Len(f)
      BY <1>1
    <3>2. 1 \in 1 .. n /\ n <= 2
      BY <3>1
    <3>. QED
      BY <3>1, <3>2
  <2>5. /\ [f EXCEPT ![1] = p] \in Seq(Program)
        /\ Len([f EXCEPT ![1] = p]) = Len(f)
    BY <1>1, <2>4, ExceptSeq
  <2>. QED
    BY <2>2, <2>3, <2>4, <2>5
<1>. QED
  BY <1>2, <1>3, <1>4 DEF File

LEMMA ShortFiles == <<>> \in File /\ \A p \in Program : <<p>> \in File
BY DEF File

\* A form that is parsed has a name, and a form that can be saved is a program.
LEMMA FormsFit ==
  /\ blank \in Form /\ blank.name = NoName
  /\ \A f \in File \ {<<>>} :
       parse_program_block(f) \in Form /\ parse_program_block(f).name # NoName
  /\ \A form \in Form :
       form.name # NoName /\ form.text # Unset => build_program_block(form) \in Program
<1>1. blank \in Form /\ blank.name = NoName
  BY DEF blank, Form, Counts, Priorities
<1>2. ASSUME NEW f \in File \ {<<>>}
      PROVE  parse_program_block(f) \in Form /\ parse_program_block(f).name # NoName
  <2>1. f[1] \in Program
    BY FileBegins
  <2>. QED
    BY <2>1, ProgramsAssumption DEF parse_program_block, Form, Program
<1>3. ASSUME NEW form \in Form, form.name # NoName, form.text # Unset
      PROVE  build_program_block(form) \in Program
  BY <1>3 DEF build_program_block, Form, Program, Counts, Priorities, Logs
<1>. QED
  BY <1>1, <1>2, <1>3

-----------------------------------------------------------------------------
(* Programs: types *)

Tabs == [state : {"unread", "blank", "read"}, text : File, dirty : BOOLEAN]
Texted == [path : Paths, text : File]
Settings == {"name", "text", "count", "priority", "autostart", "log"}
Builders == [open : BOOLEAN, path : Paths \cup {NoPath}, form : Form,
             touched : SUBSET Settings, of : Paths \cup {NoPath}, base : File]
Saves == [at : {"add", "preview", "write", "reload"}, form : Form,
          touched : SUBSET Settings, of : Paths \cup {NoPath}, base : File,
          path : Paths \cup {NoPath}, isEdit : BOOLEAN]

\* ProgramsTypeOK and the types of what the builder parsed and saves.
ProgramTypes ==
  /\ disk \in [Paths -> File]
  /\ files \subseteq Paths /\ selected \in files \cup {NoPath}
  /\ contents \in [Paths -> Tabs]
  /\ reading \subseteq Texted /\ parsing \subseteq Texted /\ saving \subseteq Texted
  /\ builder \in Builders
  /\ builder.path # NoPath /\ builder.form.name # NoName => builder.of # NoPath
  /\ creating \subseteq Saves
  /\ \A c \in creating : /\ c.form.name # NoName /\ c.form.text # Unset
                         /\ c.at \in {"write", "reload"} => c.path \in Paths
  /\ changes \in 0 .. MaxChanges /\ mishaps \subseteq Faults

LEMMA ProgramTypesInit == ProgramsInit => ProgramTypes
<1>. SUFFICES ASSUME ProgramsInit PROVE ProgramTypes
  OBVIOUS
<1>1. Unread \in Tabs
  BY ShortFiles DEF Unread, Tabs
<1>2. builder \in Builders /\ builder.path = NoPath
  BY FormsFit, ShortFiles DEF ProgramsInit, Fresh, Builders
<1>. QED
  BY <1>1, <1>2, ProgramsAssumption DEF ProgramsInit, ProgramTypes

\* What ensureContent does to tabs that have their type.
LEMMA TabsRead ==
  ASSUME ProgramTypes, NEW c \in [Paths -> Tabs], NEW p \in Paths \cup {NoPath},
         ensureContent(c, p)
  PROVE  contents' \in [Paths -> Tabs] /\ reading' \subseteq Texted
<1>1. Blank \in Tabs
  BY ShortFiles DEF Blank, Unread, Tabs
<1>2. CASE p # NoPath /\ c[p].state = "unread"
  <2>1. [path |-> p, text |-> disk[p]] \in Texted
    BY <1>2 DEF ProgramTypes, Texted
  <2>. HIDE DEF Tabs, Texted
  <2>. QED
    BY <1>1, <1>2, <2>1 DEF ensureContent, ProgramTypes
<1>3. CASE ~(p # NoPath /\ c[p].state = "unread")
  BY <1>3 DEF ensureContent, ProgramTypes
<1>. QED
  BY <1>2, <1>3

\* All tabs are read anew, and one that there is, or none, is shown.
LEMMA ListRead ==
  ASSUME ProgramTypes, loadList
  PROVE  /\ contents' \in [Paths -> Tabs] /\ reading' \subseteq Texted
         /\ files' \subseteq Paths /\ selected' \in files' \cup {NoPath}
<1>1. files' \subseteq Paths /\ selected' \in files' \cup {NoPath}
  BY DEF loadList, list_config_files
<1>2. PICK c : c = [p \in Paths |-> Unread]
  OBVIOUS
<1>3. PICK p : p = selected'
  OBVIOUS
<1>4. c \in [Paths -> Tabs] /\ p \in Paths \cup {NoPath}
  <2>1. Unread \in Tabs
    BY ShortFiles DEF Unread, Tabs
  <2>. HIDE DEF Tabs
  <2>. QED
    BY <1>1, <1>2, <1>3, <2>1
<1>5. ensureContent(c, p)
  BY <1>2, <1>3 DEF loadList, ensureContent
<1>6. contents' \in [Paths -> Tabs] /\ reading' \subseteq Texted
  BY <1>4, <1>5, TabsRead
<1>. QED
  BY <1>1, <1>6

LEMMA EditorTyped ==
  ASSUME ProgramTypes,
         \/ OpenPanel \/ Edit \/ save \/ write_config_file \/ WriteFails
         \/ \E p \in Paths : SelectTab(p)
         \/ \E r \in reading : ReadAnswers(r) \/ ReadFails(r)
  PROVE  ProgramTypes'
<1>. USE DEF ProgramTypes
<1>. HIDE DEF Tabs, Texted, Builders, Saves
<1>1. CASE OpenPanel
  BY <1>1, ListRead DEF OpenPanel, builderVars
<1>2. CASE Edit
  <2>. DEFINE text == contents[selected].text
  <2>1. selected \in Paths /\ contents[selected] \in Tabs /\ text \in File /\ text # <<>>
    BY <1>2 DEF Edit, Tabs
  <2>2. PICK new \in {Tail(text)} \cup {[text EXCEPT ![1].text = t] : t \in Texts} :
          contents' = [contents EXCEPT ![selected] =
                         [contents[selected] EXCEPT !.text = new, !.dirty = TRUE]]
    BY <1>2 DEF Edit
  <2>3. new \in File
    BY <2>1, <2>2, FileBegins
  <2>4. [contents[selected] EXCEPT !.text = new, !.dirty = TRUE] \in Tabs
    BY <2>1, <2>3 DEF Tabs
  <2>5. contents' \in [Paths -> Tabs]
    BY <2>1, <2>2, <2>4
  <2>6. changes' \in 0 .. MaxChanges
    <3>1. changes < MaxChanges /\ changes' = changes + 1
      BY <1>2 DEF Edit
    <3>. QED
      BY <3>1, ProgramsAssumption
  <2>. QED
    BY <1>2, <2>5, <2>6 DEF Edit, builderVars
<1>3. CASE save
  <2>1. selected \in Paths /\ contents[selected].text \in File
    BY <1>3 DEF save, Tabs
  <2>2. saving' \subseteq Texted
    BY <1>3, <2>1 DEF save, Texted
  <2>3. changes' \in 0 .. MaxChanges
    BY <1>3, ProgramsAssumption DEF save
  <2>. QED
    BY <1>3, <2>2, <2>3 DEF save, builderVars
<1>4. CASE write_config_file
  <2>1. PICK s \in saving :
          /\ disk' = [disk EXCEPT ![s.path] = s.text]
          /\ saving' = {}
          /\ contents' = [contents EXCEPT ![s.path].dirty = @ /\ contents[s.path].text # s.text]
    BY <1>4 DEF write_config_file
  <2>2. s.path \in Paths /\ s.text \in File
    BY DEF Texted
  <2>3. disk' \in [Paths -> File]
    BY <2>1, <2>2
  <2>4. contents' \in [Paths -> Tabs]
    BY <2>1, <2>2 DEF Tabs
  <2>. QED
    BY <1>4, <2>1, <2>3, <2>4 DEF write_config_file, builderVars
<1>5. CASE WriteFails
  <2>1. PICK s \in saving : disk' = disk \/ disk' = [disk EXCEPT ![s.path] = <<>>]
    BY <1>5 DEF WriteFails
  <2>2. disk' \in [Paths -> File]
    BY <2>1, ShortFiles DEF Texted
  <2>. QED
    BY <1>5, <2>2 DEF WriteFails, builderVars
<1>6. ASSUME NEW p \in Paths, SelectTab(p) PROVE ProgramTypes'
  <2>1. PICK c : c = contents
    OBVIOUS
  <2>2. ensureContent(c, p)
    BY <1>6, <2>1 DEF SelectTab, ensureContent
  <2>3. contents' \in [Paths -> Tabs] /\ reading' \subseteq Texted
    BY <2>1, <2>2, TabsRead
  <2>. QED
    BY <1>6, <2>3 DEF SelectTab, builderVars
<1>7. ASSUME NEW r \in reading, ReadAnswers(r) PROVE ProgramTypes'
  <2>1. PICK text \in {r.text, disk[r.path]} \ {<<>>} :
          contents' = [contents EXCEPT ![r.path] =
                         [state |-> "read", text |-> text, dirty |-> FALSE]]
    BY <1>7 DEF ReadAnswers
  <2>2. r.path \in Paths /\ text \in File
    BY <2>1 DEF Texted
  <2>3. [state |-> "read", text |-> text, dirty |-> FALSE] \in Tabs
    BY <2>2 DEF Tabs
  <2>4. contents' \in [Paths -> Tabs]
    BY <2>1, <2>2, <2>3
  <2>. QED
    BY <1>7, <2>4 DEF ReadAnswers, builderVars
<1>8. ASSUME NEW r \in reading, ReadFails(r) PROVE ProgramTypes'
  BY <1>8 DEF ReadFails, builderVars
<1>. QED
  BY <1>1, <1>2, <1>3, <1>4, <1>5, <1>6, <1>7, <1>8

LEMMA BuilderTyped ==
  ASSUME ProgramTypes,
         \/ openCreate \/ openEditAsProgram \/ Cancel
         \/ \E q \in parsing : ParseAnswers(q) \/ ParseFails(q)
         \/ \E n \in Names : SetField("name", n)
         \/ \E t \in Texts : SetField("text", t)
         \/ \E n \in Counts : SetField("count", n)
         \/ create \/ Previewed \/ Rewrite \/ add_program
         \/ RewriteFails \/ AddFails \/ CreateFails \/ Saved
  PROVE  ProgramTypes'
<1>. USE DEF ProgramTypes
<1>. HIDE DEF Tabs, Texted, Builders, Saves
<1>1. \A p \in Paths \cup {NoPath} : Fresh(p) \in Builders /\ Fresh(p).form.name = NoName
  BY FormsFit, ShortFiles DEF Fresh, Builders
<1>2. CASE openCreate
  BY <1>1, <1>2 DEF openCreate, editorVars
<1>3. CASE openEditAsProgram
  <2>1. selected \in Paths /\ [path |-> selected, text |-> disk[selected]] \in Texted
    BY <1>3 DEF openEditAsProgram, Texted
  <2>2. builder' \in Builders /\ builder'.form.name = NoName
    BY <1>1, <1>3, <2>1 DEF openEditAsProgram
  <2>. QED
    BY <1>3, <2>1, <2>2 DEF openEditAsProgram, editorVars
<1>4. CASE Cancel
  <2>1. /\ builder' \in Builders /\ builder'.path = builder.path
        /\ builder'.form = builder.form /\ builder'.of = builder.of
    BY <1>4 DEF Cancel, Builders
  <2>. QED
    BY <1>4, <2>1 DEF Cancel, editorVars
<1>5. ASSUME NEW q \in parsing, ParseAnswers(q) PROVE ProgramTypes'
  <2>1. PICK text \in {q.text, disk[q.path]} \ {<<>>} :
          builder' = [builder EXCEPT !.form = parse_program_block(text),
                        !.touched = {}, !.of = q.path, !.base = text]
    BY <1>5 DEF ParseAnswers
  <2>2. q.path \in Paths /\ text \in File /\ text # <<>>
    BY <2>1 DEF Texted
  <2>3. parse_program_block(text) \in Form
    BY <2>2, FormsFit
  <2>4. builder' \in Builders /\ builder'.of = q.path
    BY <2>1, <2>2, <2>3 DEF Builders
  <2>. QED
    BY <1>5, <2>2, <2>4, ProgramsAssumption DEF ParseAnswers, editorVars
<1>6. ASSUME NEW q \in parsing, ParseFails(q) PROVE ProgramTypes'
  BY <1>6 DEF ParseFails, editorVars
<1>7. ASSUME NEW x \in {"name", "text", "count"}, NEW value, SetField(x, value),
             [builder.form EXCEPT ![x] = value] \in Form
      PROVE  ProgramTypes'
  <2>1. /\ builder' = [builder EXCEPT !.form[x] = value, !.touched = @ \cup {x}]
        /\ x = "name" => builder.path = NoPath
    BY <1>7 DEF SetField
  <2>2. /\ builder' \in Builders /\ builder'.form = [builder.form EXCEPT ![x] = value]
        /\ builder'.path = builder.path /\ builder'.of = builder.of
    BY <1>7, <2>1 DEF Builders, Settings
  <2>3. builder'.path # NoPath /\ builder'.form.name # NoName => builder'.of # NoPath
    <3>1. builder.form \in Form
      BY DEF Builders
    <3>2. x # "name" => builder'.form.name = builder.form.name
      BY <2>2, <3>1 DEF Form
    <3>. QED
      BY <2>1, <2>2, <3>2
  <2>4. changes' \in 0 .. MaxChanges
    <3>1. changes < MaxChanges /\ changes' = changes + 1
      BY <1>7 DEF SetField
    <3>. QED
      BY <3>1, ProgramsAssumption
  <2>. QED
    BY <1>7, <2>2, <2>3, <2>4 DEF SetField, editorVars
<1>8. ASSUME \/ \E n \in Names : SetField("name", n)
             \/ \E t \in Texts : SetField("text", t)
             \/ \E n \in Counts : SetField("count", n)
      PROVE  ProgramTypes'
  <2>1. builder.form \in Form
    BY DEF Builders
  <2>2. /\ \A n \in Names : [builder.form EXCEPT !["name"] = n] \in Form
        /\ \A t \in Texts : [builder.form EXCEPT !["text"] = t] \in Form
        /\ \A n \in Counts : [builder.form EXCEPT !["count"] = n] \in Form
    BY <2>1 DEF Form
  <2>3. CASE \E n \in Names : SetField("name", n)
    BY <1>7, <2>2, <2>3
  <2>4. CASE \E t \in Texts : SetField("text", t)
    BY <1>7, <2>2, <2>4
  <2>5. CASE \E n \in Counts : SetField("count", n)
    BY <1>7, <2>2, <2>5
  <2>. QED
    BY <1>8, <2>3, <2>4, <2>5
<1>9. CASE create
  <2>1. /\ builder \in Builders /\ builder.form.name # NoName /\ builder.form.text # Unset
        /\ creating' = {[at |-> IF builder.path = NoPath THEN "add" ELSE "preview",
                         form |-> builder.form, touched |-> builder.touched,
                         of |-> builder.of, base |-> builder.base, path |-> NoPath,
                         isEdit |-> builder.path # NoPath]}
    BY <1>9 DEF create, canCreate
  <2>2. creating' \subseteq Saves
    BY <2>1 DEF Saves, Builders
  <2>3. \A c \in creating' : /\ c.form.name # NoName /\ c.form.text # Unset
                             /\ c.at \notin {"write", "reload"}
    BY <2>1
  <2>4. changes' \in 0 .. MaxChanges
    <3>1. changes < MaxChanges /\ changes' = changes + 1
      BY <1>9 DEF create
    <3>. QED
      BY <3>1, ProgramsAssumption
  <2>. QED
    BY <1>9, <2>2, <2>3, <2>4 DEF create, editorVars
<1>10. CASE Previewed
  <2>1. PICK c \in creating :
          creating' = IF builder.path = NoPath THEN {}
                      ELSE {[c EXCEPT !.at = "write", !.path = builder.path]}
    BY <1>10 DEF Previewed
  <2>2. builder.path \in Paths \cup {NoPath} /\ c \in Saves
    BY DEF Builders
  <2>3. creating' \subseteq Saves
    BY <2>1, <2>2 DEF Saves
  <2>4. \A d \in creating' : /\ d.form.name # NoName /\ d.form.text # Unset
                             /\ d.path \in Paths
    BY <2>1, <2>2 DEF Saves
  <2>. QED
    BY <1>10, <2>3, <2>4 DEF Previewed, editorVars
<1>11. ASSUME NEW c \in creating, NEW p \in Paths, WriteBlock(c, p) PROVE ProgramTypes'
  <2>1. c \in Saves /\ c.form \in Form /\ c.form.name # NoName /\ c.form.text # Unset
    BY <1>11 DEF Saves
  <2>2. <<build_program_block(c.form)>> \in File
    BY <2>1, FormsFit, ShortFiles
  <2>3. disk' \in [Paths -> File]
    BY <1>11, <2>2 DEF WriteBlock
  <2>4. creating' = {[c EXCEPT !.at = "reload", !.path = p]}
    BY <1>11 DEF WriteBlock
  <2>5. creating' \subseteq Saves
    BY <2>1, <2>4 DEF Saves
  <2>6. \A d \in creating' : /\ d.form.name # NoName /\ d.form.text # Unset
                             /\ d.path \in Paths
    BY <2>1, <2>4 DEF Saves
  <2>. QED
    BY <1>11, <2>3, <2>5, <2>6 DEF WriteBlock, editorVars
<1>12. CASE Rewrite
  BY <1>11, <1>12 DEF Rewrite
<1>13. CASE add_program
  <2>1. PICK c \in creating : WriteBlock(c, FileOf[c.form.name])
    BY <1>13 DEF add_program
  <2>2. PICK p : p = FileOf[c.form.name]
    OBVIOUS
  <2>3. p \in Paths
    BY <2>2, ProgramsAssumption DEF Saves, Form
  <2>4. WriteBlock(c, p)
    BY <2>1, <2>2 DEF WriteBlock
  <2>. QED
    BY <1>11, <2>3, <2>4
<1>16. ASSUME NEW c \in creating, NEW p \in Paths, BlockFails(c, p) PROVE ProgramTypes'
  BY <1>16, ShortFiles DEF BlockFails, editorVars
<1>17. CASE RewriteFails
  BY <1>16, <1>17 DEF RewriteFails
<1>18. CASE AddFails
  <2>1. PICK c \in creating : BlockFails(c, FileOf[c.form.name])
    BY <1>18 DEF AddFails
  <2>2. PICK p : p = FileOf[c.form.name]
    OBVIOUS
  <2>3. p \in Paths
    BY <2>2, ProgramsAssumption DEF Saves, Form
  <2>. QED
    BY <1>16, <2>1, <2>2, <2>3
<1>14. CASE CreateFails
  BY <1>14 DEF CreateFails, editorVars
<1>15. CASE Saved
  <2>1. PICK d \in creating :
          /\ creating' = {} /\ builder' = [builder EXCEPT !.open = FALSE, !.path = NoPath]
          /\ IF ~ d.isEdit
             THEN loadList /\ UNCHANGED mishaps
             ELSE /\ IF selected = NoPath THEN UNCHANGED <<contents, reading>>
                     ELSE ensureContent([contents EXCEPT ![selected] = Unread], selected)
                  /\ mishaps' \subseteq Faults
                  /\ UNCHANGED <<files, selected>>
          /\ UNCHANGED <<disk, saving, parsing, changes>>
    BY <1>15 DEF Saved
  <2>2. builder' \in Builders /\ builder'.path = NoPath
    BY <2>1 DEF Builders
  <2>3. /\ contents' \in [Paths -> Tabs] /\ reading' \subseteq Texted
        /\ files' \subseteq Paths /\ selected' \in files' \cup {NoPath}
    <3>1. CASE ~ d.isEdit
      BY <2>1, <3>1, ListRead
    <3>2. CASE d.isEdit /\ selected = NoPath
      BY <2>1, <3>2
    <3>3. CASE d.isEdit /\ selected # NoPath
      <4>1. PICK c : c = [contents EXCEPT ![selected] = Unread]
        OBVIOUS
      <4>2. PICK p : p = selected
        OBVIOUS
      <4>3. c \in [Paths -> Tabs] /\ p \in Paths
        <5>1. Unread \in Tabs
          BY ShortFiles DEF Unread, Tabs
        <5>. QED
          BY <3>3, <4>1, <4>2, <5>1
      <4>4. ensureContent(c, p)
        BY <2>1, <3>3, <4>1, <4>2 DEF ensureContent
      <4>5. contents' \in [Paths -> Tabs] /\ reading' \subseteq Texted
        BY <4>3, <4>4, TabsRead
      <4>. QED
        BY <2>1, <3>3, <4>5
    <3>. QED
      BY <3>1, <3>2, <3>3
  <2>4. mishaps' \subseteq Faults
    BY <2>1
  <2>. QED
    BY <2>1, <2>2, <2>3, <2>4
<1>. QED
  BY <1>2, <1>3, <1>4, <1>5, <1>6, <1>8, <1>9, <1>10, <1>12, <1>13, <1>14, <1>15,
     <1>17, <1>18

LEMMA ProgramTypesStep == ProgramTypes /\ [ProgramsNext]_vars => ProgramTypes'
<1>1. ASSUME ProgramTypes, UNCHANGED vars PROVE ProgramTypes'
  BY <1>1 DEF vars, editorVars, builderVars, ProgramTypes
<1>. QED
  BY <1>1, EditorTyped, BuilderTyped DEF ProgramsNext

\* Files, texts and forms keep their types, and a form that can be saved in a file
\* is a parsed one.
THEOREM ProgramsTypeCorrect == ProgramsSpec => []ProgramsTypeOK
<1>1. ProgramTypes => ProgramsTypeOK
  BY DEF ProgramTypes, ProgramsTypeOK, Tabs, Texted, Builders, Saves
<1>. QED
  BY <1>1, ProgramTypesInit, ProgramTypesStep, PTL DEF ProgramsSpec

-----------------------------------------------------------------------------
(* Programs: the editor *)

LEMMA MishapsStay == [ProgramsNext]_vars => mishaps \subseteq mishaps'
<1>. SUFFICES ASSUME [ProgramsNext]_vars PROVE mishaps \subseteq mishaps'
  OBVIOUS
<1>1. CASE \/ OpenPanel \/ Edit \/ save \/ write_config_file \/ WriteFails
           \/ \E p \in Paths : SelectTab(p)
           \/ \E r \in reading : ReadAnswers(r) \/ ReadFails(r)
  BY <1>1 DEF OpenPanel, Edit, save, write_config_file, WriteFails, SelectTab,
              ReadAnswers, ReadFails
<1>2. CASE \/ openCreate \/ openEditAsProgram \/ Cancel
           \/ \E q \in parsing : ParseAnswers(q) \/ ParseFails(q)
  BY <1>2 DEF openCreate, openEditAsProgram, Cancel, ParseAnswers, ParseFails
<1>3. CASE \/ \E n \in Names : SetField("name", n)
           \/ \E t \in Texts : SetField("text", t)
           \/ \E n \in Counts : SetField("count", n)
           \/ create \/ Previewed \/ UNCHANGED vars
  BY <1>3 DEF SetField, create, Previewed, vars
<1>4. CASE Rewrite \/ add_program
  BY <1>4 DEF Rewrite, add_program, WriteBlock
<1>5. CASE RewriteFails \/ AddFails \/ CreateFails \/ Saved
  BY <1>5 DEF RewriteFails, AddFails, BlockFails, CreateFails, Saved
<1>. QED
  BY <1>1, <1>2, <1>3, <1>4, <1>5 DEF ProgramsNext

\* The dialog saves one program at a time.
OneSave == \A c, d \in creating : c = d

LEMMA OneSaveStep == OneSave /\ [ProgramsNext]_vars => OneSave'
<1>. SUFFICES ASSUME OneSave, [ProgramsNext]_vars PROVE OneSave'
  OBVIOUS
<1>. USE DEF OneSave
<1>1. CASE \/ OpenPanel \/ Edit \/ save \/ write_config_file \/ WriteFails
           \/ \E p \in Paths : SelectTab(p)
           \/ \E r \in reading : ReadAnswers(r) \/ ReadFails(r)
  BY <1>1 DEF OpenPanel, Edit, save, write_config_file, WriteFails, SelectTab,
              ReadAnswers, ReadFails, builderVars
<1>2. CASE \/ openCreate \/ openEditAsProgram \/ Cancel
           \/ \E q \in parsing : ParseAnswers(q) \/ ParseFails(q)
  BY <1>2 DEF openCreate, openEditAsProgram, Cancel, ParseAnswers, ParseFails
<1>3. CASE \/ \E n \in Names : SetField("name", n)
           \/ \E t \in Texts : SetField("text", t)
           \/ \E n \in Counts : SetField("count", n)
           \/ create \/ Previewed \/ UNCHANGED vars
  BY <1>3 DEF SetField, create, Previewed, vars, builderVars
<1>4. CASE Rewrite \/ add_program
  BY <1>4 DEF Rewrite, add_program, WriteBlock
<1>5. CASE RewriteFails \/ AddFails \/ CreateFails \/ Saved
  BY <1>5 DEF RewriteFails, AddFails, BlockFails, CreateFails, Saved
<1>. QED
  BY <1>1, <1>2, <1>3, <1>4, <1>5 DEF ProgramsNext

\* A read under way will answer with what the file holds.
ReadsAreCurrent ==
  "unnoticed" \notin mishaps => \A r \in reading : r.text = disk[r.path]

EditorInv == OneSave /\ ReadsAreCurrent /\ EditorIsCurrent

\* The builder has written the file and not told the editor yet.
Told(p) == \A c \in creating : c.at = "reload" => c.path # p
Clean(p) == contents[p].state = "read" /\ ~ contents[p].dirty

\* The files stay, and the editor has nothing that it did not have.
LEMMA EditorFrame ==
  ASSUME ReadsAreCurrent, EditorIsCurrent, mishaps \subseteq mishaps',
         UNCHANGED disk, reading' \subseteq reading,
         \A p \in Paths : Clean(p)' => Clean(p) /\ contents'[p].text = contents[p].text,
         \A p \in Paths : Told(p)' => Told(p)
  PROVE  ReadsAreCurrent' /\ EditorIsCurrent'
BY DEF ReadsAreCurrent, EditorIsCurrent, Told, Clean

\* ensureContent reads a tab that was not read, and leaves the others.
LEMMA EnsureReads ==
  ASSUME ProgramTypes, NEW c \in [Paths -> Tabs], NEW p \in Paths \cup {NoPath},
         ensureContent(c, p)
  PROVE  /\ \A r \in reading' : r \in reading \/ r.text = disk[r.path]
         /\ \A q \in Paths :
              contents'[q].state = "read" => contents'[q] = c[q]
         /\ p # NoPath /\ c[p].state = "unread" => contents'[p].state = "blank"
<1>1. CASE p # NoPath /\ c[p].state = "unread"
  <2>1. contents' = [c EXCEPT ![p] = Blank] /\ p \in Paths
    BY <1>1 DEF ensureContent
  <2>2. contents'[p] = Blank /\ \A q \in Paths \ {p} : contents'[q] = c[q]
    BY <2>1
  <2>3. reading' = reading \cup {[path |-> p, text |-> disk[p]]}
    BY <1>1 DEF ensureContent
  <2>4. Blank.state = "blank"
    BY DEF Blank, Unread
  <2>. QED
    BY <2>1, <2>2, <2>3, <2>4
<1>2. CASE ~(p # NoPath /\ c[p].state = "unread")
  BY <1>2 DEF ensureContent
<1>. QED
  BY <1>1, <1>2

LEMMA ListStep ==
  ASSUME ProgramTypes, loadList
  PROVE  /\ \A r \in reading' : r \in reading \/ r.text = disk[r.path]
         /\ \A q \in Paths : ~ Clean(q)'
<1>1. PICK c : c = [p \in Paths |-> Unread]
  OBVIOUS
<1>2. PICK p : p = selected'
  OBVIOUS
<1>3. c \in [Paths -> Tabs] /\ p \in Paths \cup {NoPath}
  <2>1. Unread \in Tabs
    BY ShortFiles DEF Unread, Tabs
  <2>2. p \in Paths \cup {NoPath}
    BY <1>2, ListRead
  <2>. HIDE DEF Tabs
  <2>. QED
    BY <1>1, <2>1, <2>2
<1>4. ensureContent(c, p)
  BY <1>1, <1>2 DEF loadList, ensureContent
<1>5. /\ \A r \in reading' : r \in reading \/ r.text = disk[r.path]
      /\ \A q \in Paths : contents'[q].state = "read" => contents'[q] = c[q]
  BY <1>3, <1>4, EnsureReads
<1>6. \A q \in Paths : c[q].state = "unread"
  BY <1>1 DEF Unread
<1>. QED
  BY <1>5, <1>6 DEF Clean

\* A write is noticed when no read of the file is under way and the editor has
\* no clean text of it.
LEMMA NoticedWrite ==
  ASSUME ReadsAreCurrent, EditorIsCurrent, NEW p \in Paths, NEW text,
         mishaps \subseteq mishaps', UNCHANGED reading,
         disk \in [Paths -> File], disk' = [disk EXCEPT ![p] = text],
         "unnoticed" \notin mishaps' => \A r \in reading : r.path # p,
         "unnoticed" \notin mishaps' => ~ Clean(p)' \/ ~ Told(p)' \/ contents'[p].text = text,
         \A q \in Paths \ {p} : contents'[q] = contents[q] /\ (Told(q)' => Told(q)),
         \A r \in reading : r.path \in Paths
  PROVE  ReadsAreCurrent' /\ EditorIsCurrent'
<1>1. ReadsAreCurrent'
  BY DEF ReadsAreCurrent
<1>2. ASSUME NEW q \in Paths, Clean(q)', "unnoticed" \notin mishaps', Told(q)'
      PROVE  contents'[q].text = disk'[q]
  <2>1. CASE q = p
    BY <1>2, <2>1
  <2>2. CASE q # p
    BY <1>2, <2>2 DEF EditorIsCurrent, Clean, Told
  <2>. QED
    BY <2>1, <2>2
<1>3. EditorIsCurrent'
  BY <1>2 DEF EditorIsCurrent, Clean, Told
<1>. QED
  BY <1>1, <1>3

LEMMA EditorStep ==
  ProgramTypes /\ EditorInv /\ [ProgramsNext]_vars => ReadsAreCurrent' /\ EditorIsCurrent'
<1>. SUFFICES ASSUME ProgramTypes, EditorInv, [ProgramsNext]_vars
              PROVE  ReadsAreCurrent' /\ EditorIsCurrent'
  OBVIOUS
<1>0. /\ mishaps \subseteq mishaps' /\ OneSave /\ ReadsAreCurrent /\ EditorIsCurrent
      /\ contents \in [Paths -> Tabs] /\ disk \in [Paths -> File] /\ reading \subseteq Texted
      /\ \A r \in reading : r.path \in Paths
  BY MishapsStay DEF EditorInv, ProgramTypes, Texted
<1>1. ASSUME UNCHANGED <<disk, contents>>, reading' \subseteq reading,
             \A p \in Paths : Told(p)' => Told(p)
      PROVE  ReadsAreCurrent' /\ EditorIsCurrent'
  BY <1>0, <1>1, EditorFrame DEF Clean
<1>2. ASSUME UNCHANGED <<disk, contents, reading, creating>>
      PROVE  ReadsAreCurrent' /\ EditorIsCurrent'
  BY <1>1, <1>2 DEF Told
<1>3. CASE UNCHANGED vars
  BY <1>2, <1>3 DEF vars, editorVars, builderVars
<1>4. CASE OpenPanel
  <2>1. UNCHANGED disk
    BY <1>4 DEF OpenPanel
  <2>2. /\ \A r \in reading' : r \in reading \/ r.text = disk[r.path]
        /\ \A q \in Paths : ~ Clean(q)'
    BY <1>4, ListStep DEF OpenPanel
  <2>. QED
    BY <1>0, <2>1, <2>2 DEF ReadsAreCurrent, EditorIsCurrent, Clean
<1>5. ASSUME NEW p \in Paths, SelectTab(p) PROVE ReadsAreCurrent' /\ EditorIsCurrent'
  <2>1. PICK c : c = contents
    OBVIOUS
  <2>2. ensureContent(c, p) /\ UNCHANGED <<disk, creating>>
    BY <1>5, <2>1 DEF SelectTab, ensureContent, builderVars
  <2>3. /\ \A r \in reading' : r \in reading \/ r.text = disk[r.path]
        /\ \A q \in Paths : contents'[q].state = "read" => contents'[q] = c[q]
    BY <1>0, <2>1, <2>2, EnsureReads
  <2>. QED
    BY <1>0, <2>1, <2>2, <2>3 DEF ReadsAreCurrent, EditorIsCurrent
<1>6. CASE Edit
  <2>1. selected \in Paths /\ UNCHANGED <<disk, reading, creating>>
    BY <1>6 DEF Edit, ProgramTypes, builderVars
  <2>2. PICK new : contents' = [contents EXCEPT ![selected] =
                                  [contents[selected] EXCEPT !.text = new, !.dirty = TRUE]]
    BY <1>6 DEF Edit
  <2>3. contents'[selected].dirty /\ \A q \in Paths \ {selected} : contents'[q] = contents[q]
    BY <1>0, <2>1, <2>2 DEF Tabs
  <2>4. /\ \A p \in Paths : Clean(p)' => Clean(p) /\ contents'[p].text = contents[p].text
        /\ \A p \in Paths : Told(p)' => Told(p)
    BY <2>1, <2>3 DEF Clean, Told
  <2>. QED
    BY <1>0, <2>1, <2>4, EditorFrame
<1>7. CASE save
  BY <1>2, <1>7 DEF save, builderVars
<1>8. CASE write_config_file
  <2>1. PICK s \in saving :
          /\ disk' = [disk EXCEPT ![s.path] = s.text]
          /\ contents' = [contents EXCEPT ![s.path].dirty = @ /\ contents[s.path].text # s.text]
          /\ mishaps' = mishaps \cup
               (IF contents[s.path].text = s.text /\ ~ \E r \in reading : r.path = s.path
                THEN {} ELSE Unnoticed(s.path))
          /\ UNCHANGED <<reading, creating>>
    BY <1>8 DEF write_config_file, builderVars
  <2>2. s.path \in Paths
    BY DEF ProgramTypes, Texted
  <2>3. /\ contents'[s.path].state = contents[s.path].state
        /\ contents'[s.path].text = contents[s.path].text
        /\ contents'[s.path].dirty <=>
             contents[s.path].dirty /\ contents[s.path].text # s.text
        /\ \A q \in Paths \ {s.path} : contents'[q] = contents[q]
    BY <1>0, <2>1, <2>2 DEF Tabs
  <2>4. "unnoticed" \notin mishaps' => \A r \in reading : r.path # s.path
    BY <2>1 DEF Unnoticed, Overtakes
  <2>5. "unnoticed" \notin mishaps' =>
          contents[s.path].text = s.text \/ ~ Clean(s.path)
    BY <2>1 DEF Unnoticed, Overtakes, Clean
  <2>6. "unnoticed" \notin mishaps' => ~ Clean(s.path)' \/ contents'[s.path].text = s.text
    BY <2>3, <2>5 DEF Clean
  <2>7. PICK p, text : p = s.path /\ text = s.text
    OBVIOUS
  <2>8. /\ disk' = [disk EXCEPT ![p] = text] /\ p \in Paths
        /\ "unnoticed" \notin mishaps' => \A r \in reading : r.path # p
        /\ "unnoticed" \notin mishaps' => ~ Clean(p)' \/ contents'[p].text = text
        /\ \A q \in Paths \ {p} : contents'[q] = contents[q] /\ (Told(q)' => Told(q))
    BY <2>1, <2>2, <2>3, <2>4, <2>6, <2>7 DEF Told, Clean
  <2>. QED
    BY <1>0, <2>1, <2>8, NoticedWrite
<1>9. CASE WriteFails
  <2>1. CASE UNCHANGED disk
    BY <1>2, <1>9, <2>1 DEF WriteFails, builderVars
  <2>2. CASE ~ UNCHANGED disk
    <3>1. PICK s \in saving :
            /\ disk' = [disk EXCEPT ![s.path] = <<>>]
            /\ mishaps' = mishaps \cup Unnoticed(s.path)
            /\ UNCHANGED <<contents, reading, creating>>
      BY <1>9, <2>2 DEF WriteFails, builderVars
    <3>2. PICK p, text : p = s.path /\ text = <<>>
      OBVIOUS
    <3>3. p \in Paths
      BY <3>2 DEF ProgramTypes, Texted
    <3>4. /\ "unnoticed" \notin mishaps' => \A r \in reading : r.path # p
          /\ "unnoticed" \notin mishaps' => ~ Clean(p)
      BY <3>1, <3>2 DEF Unnoticed, Overtakes, Clean
    <3>5. /\ disk' = [disk EXCEPT ![p] = text]
          /\ "unnoticed" \notin mishaps' => ~ Clean(p)'
          /\ \A q \in Paths \ {p} : contents'[q] = contents[q] /\ (Told(q)' => Told(q))
      BY <3>1, <3>2, <3>4 DEF Clean, Told
    <3>. QED
      BY <1>0, <3>1, <3>3, <3>4, <3>5, NoticedWrite
  <2>. QED
    BY <2>1, <2>2
<1>10. ASSUME NEW r \in reading, ReadAnswers(r) PROVE ReadsAreCurrent' /\ EditorIsCurrent'
  <2>1. PICK text \in {r.text, disk[r.path]} \ {<<>>} :
          contents' = [contents EXCEPT ![r.path] =
                         [state |-> "read", text |-> text, dirty |-> FALSE]]
    BY <1>10 DEF ReadAnswers
  <2>2. /\ reading' \subseteq reading /\ UNCHANGED <<disk, creating, mishaps>> /\ r.path \in Paths
    BY <1>0, <1>10 DEF ReadAnswers, builderVars
  <2>3. "unnoticed" \notin mishaps => contents'[r.path].text = disk[r.path]
    BY <1>0, <2>1, <2>2 DEF ReadsAreCurrent
  <2>4. \A q \in Paths \ {r.path} : contents'[q] = contents[q]
    BY <1>0, <2>1, <2>2
  <2>. QED
    BY <1>0, <2>2, <2>3, <2>4 DEF ReadsAreCurrent, EditorIsCurrent
<1>11. ASSUME NEW r \in reading, ReadFails(r) PROVE ReadsAreCurrent' /\ EditorIsCurrent'
  BY <1>1, <1>11 DEF ReadFails, builderVars, Told
<1>12. CASE \/ openCreate \/ openEditAsProgram \/ Cancel
            \/ \E q \in parsing : ParseAnswers(q) \/ ParseFails(q)
            \/ \E n \in Names : SetField("name", n)
            \/ \E t \in Texts : SetField("text", t)
            \/ \E n \in Counts : SetField("count", n)
  <2>1. UNCHANGED <<disk, contents, reading, creating>>
    BY <1>12 DEF openCreate, openEditAsProgram, Cancel, ParseAnswers, ParseFails,
                 SetField, editorVars
  <2>. QED
    BY <1>2, <2>1
<1>13. CASE create
  <2>1. UNCHANGED <<disk, contents, reading>> /\ creating = {}
    BY <1>13 DEF create, editorVars
  <2>. QED
    BY <1>1, <2>1 DEF Told
<1>14. CASE Previewed
  <2>1. UNCHANGED <<disk, contents, reading>> /\ \E c \in creating : c.at = "preview"
    BY <1>14 DEF Previewed, editorVars
  <2>2. \A p \in Paths : Told(p)
    BY <1>0, <2>1 DEF Told, OneSave
  <2>. QED
    BY <1>1, <2>1, <2>2
<1>15. ASSUME NEW c \in creating, NEW p \in Paths, WriteBlock(c, p), c.at # "reload"
       PROVE  ReadsAreCurrent' /\ EditorIsCurrent'
  <2>1. PICK text : text = <<build_program_block(c.form)>>
    OBVIOUS
  <2>2. /\ disk' = [disk EXCEPT ![p] = text] /\ UNCHANGED <<contents, reading>>
        /\ creating' = {[c EXCEPT !.at = "reload", !.path = p]}
        /\ "unnoticed" \notin mishaps' => \A r \in reading : r.path # p
    BY <1>15, <2>1 DEF WriteBlock, editorVars
  <2>3. ~ Told(p)'
    <3>1. c \in Saves
      BY DEF ProgramTypes
    <3>2. [c EXCEPT !.at = "reload", !.path = p].at = "reload"
          /\ [c EXCEPT !.at = "reload", !.path = p].path = p
      BY <3>1 DEF Saves
    <3>. QED
      BY <2>2, <3>2 DEF Told
  <2>4. \A q \in Paths : Told(q)
    BY <1>0, <1>15 DEF Told, OneSave
  <2>. QED
    BY <1>0, <2>2, <2>3, <2>4, NoticedWrite
<1>16. CASE Rewrite
  <2>1. PICK c \in creating : c.at = "write" /\ WriteBlock(c, c.path)
    BY <1>16 DEF Rewrite
  <2>2. PICK p : p = c.path
    OBVIOUS
  <2>3. p \in Paths /\ WriteBlock(c, p)
    BY <2>1, <2>2 DEF ProgramTypes, WriteBlock
  <2>. QED
    BY <1>15, <2>1, <2>3
<1>17. CASE add_program
  <2>1. PICK c \in creating : c.at = "add" /\ WriteBlock(c, FileOf[c.form.name])
    BY <1>17 DEF add_program
  <2>2. PICK p : p = FileOf[c.form.name]
    OBVIOUS
  <2>3. p \in Paths /\ WriteBlock(c, p)
    BY <2>1, <2>2, ProgramsAssumption DEF ProgramTypes, Saves, Form, WriteBlock
  <2>. QED
    BY <1>15, <2>1, <2>3
<1>20. ASSUME NEW c \in creating, NEW p \in Paths, BlockFails(c, p), c.at # "reload"
       PROVE  ReadsAreCurrent' /\ EditorIsCurrent'
  <2>1. PICK text : text = <<>>
    OBVIOUS
  <2>2. /\ disk' = [disk EXCEPT ![p] = text] /\ UNCHANGED <<contents, reading>>
        /\ mishaps' = mishaps \cup Unnoticed(p) /\ creating' = {}
    BY <1>20, <2>1 DEF BlockFails, editorVars
  <2>3. /\ "unnoticed" \notin mishaps' => \A r \in reading : r.path # p
        /\ "unnoticed" \notin mishaps' => ~ Clean(p)'
    BY <2>2 DEF Unnoticed, Overtakes, Clean
  <2>4. \A q \in Paths : Told(q)
    BY <1>0, <1>20 DEF Told, OneSave
  <2>. QED
    BY <1>0, <2>2, <2>3, <2>4, NoticedWrite
<1>21. CASE RewriteFails
  <2>1. PICK c \in creating : c.at = "write" /\ BlockFails(c, c.path)
    BY <1>21 DEF RewriteFails
  <2>2. PICK p : p = c.path
    OBVIOUS
  <2>3. p \in Paths /\ BlockFails(c, p)
    BY <2>1, <2>2 DEF ProgramTypes, BlockFails
  <2>. QED
    BY <1>20, <2>1, <2>3
<1>22. CASE AddFails
  <2>1. PICK c \in creating : c.at = "add" /\ BlockFails(c, FileOf[c.form.name])
    BY <1>22 DEF AddFails
  <2>2. PICK p : p = FileOf[c.form.name]
    OBVIOUS
  <2>3. p \in Paths /\ BlockFails(c, p)
    BY <2>1, <2>2, ProgramsAssumption DEF ProgramTypes, Saves, Form, BlockFails
  <2>. QED
    BY <1>20, <2>1, <2>3
<1>18. CASE CreateFails
  <2>1. PICK c \in creating :
          /\ mishaps' = mishaps \cup (IF c.at = "reload" THEN Unnoticed(c.path) ELSE {})
          /\ UNCHANGED <<disk, contents, reading>>
    BY <1>18 DEF CreateFails, editorVars
  <2>2. ASSUME NEW p \in Paths, Clean(p), "unnoticed" \notin mishaps' PROVE Told(p)
    BY <1>0, <2>1, <2>2 DEF Told, Clean, Unnoticed, Overtakes, OneSave
  <2>. QED
    BY <1>0, <2>1, <2>2 DEF ReadsAreCurrent, EditorIsCurrent, Clean, Told
<1>19. CASE Saved
  <2>1. PICK d \in creating :
          /\ d.at = "reload" /\ UNCHANGED disk
          /\ IF ~ d.isEdit THEN loadList
             ELSE /\ IF selected = NoPath THEN UNCHANGED <<contents, reading>>
                     ELSE ensureContent([contents EXCEPT ![selected] = Unread], selected)
                  /\ mishaps' = mishaps
                       \cup (IF selected = d.path /\ ~ \E r \in reading : r.path = d.path
                             THEN {} ELSE Unnoticed(d.path))
    BY <1>19 DEF Saved
  <2>2. CASE ~ d.isEdit
    <3>1. /\ \A r \in reading' : r \in reading \/ r.text = disk[r.path]
          /\ \A q \in Paths : ~ Clean(q)'
      BY <2>1, <2>2, ListStep
    <3>. QED
      BY <1>0, <2>1, <3>1 DEF ReadsAreCurrent, EditorIsCurrent, Clean
  <2>3. CASE d.isEdit
    <3>1. /\ \A r \in reading' : r \in reading \/ r.text = disk[r.path]
          /\ \A q \in Paths : contents'[q].state = "read" => contents'[q] = contents[q]
          /\ selected # NoPath => contents'[selected].state = "blank"
      <4>1. CASE selected = NoPath
        BY <2>1, <2>3, <4>1
      <4>2. CASE selected # NoPath
        <5>1. PICK c : c = [contents EXCEPT ![selected] = Unread]
          OBVIOUS
        <5>2. PICK p : p = selected
          OBVIOUS
        <5>3. p \in Paths /\ c \in [Paths -> Tabs] /\ c[p].state = "unread"
              /\ \A q \in Paths \ {p} : c[q] = contents[q]
          <6>1. Unread \in Tabs /\ Unread.state = "unread"
            BY ShortFiles DEF Unread, Tabs
          <6>2. p \in Paths
            BY <4>2, <5>2 DEF ProgramTypes
          <6>. HIDE DEF Tabs
          <6>. QED
            BY <1>0, <5>1, <5>2, <6>1, <6>2
        <5>4. ensureContent(c, p)
          BY <2>1, <2>3, <4>2, <5>1, <5>2 DEF ensureContent
        <5>5. /\ \A r \in reading' : r \in reading \/ r.text = disk[r.path]
              /\ \A q \in Paths : contents'[q].state = "read" => contents'[q] = c[q]
              /\ contents'[p].state = "blank"
          BY <4>2, <5>2, <5>3, <5>4, EnsureReads
        <5>. QED
          BY <5>2, <5>3, <5>5
      <4>. QED
        BY <4>1, <4>2
    <3>2. ReadsAreCurrent'
      BY <1>0, <2>1, <3>1 DEF ReadsAreCurrent
    <3>3. ASSUME NEW q \in Paths, Clean(q)', "unnoticed" \notin mishaps'
          PROVE  contents'[q].text = disk'[q]
      <4>1. Clean(q) /\ contents'[q] = contents[q]
        BY <3>1, <3>3 DEF Clean
      <4>2. Told(q)
        <5>1. CASE q = d.path
          BY <2>1, <2>3, <3>1, <3>3, <4>1, <5>1, ProgramsAssumption
          DEF Unnoticed, Overtakes, Clean
        <5>2. CASE q # d.path
          BY <1>0, <5>2 DEF Told, OneSave
        <5>. QED
          BY <5>1, <5>2
      <4>. QED
        BY <1>0, <2>1, <3>3, <4>1, <4>2 DEF EditorIsCurrent, Clean, Told
    <3>. QED
      BY <3>2, <3>3 DEF EditorIsCurrent, Clean
  <2>. QED
    BY <2>2, <2>3
<1>. QED
  BY <1>3, <1>4, <1>5, <1>6, <1>7, <1>8, <1>9, <1>10, <1>11, <1>12, <1>13, <1>14,
     <1>16, <1>17, <1>18, <1>19, <1>21, <1>22 DEF ProgramsNext

\* ConfigPanel.vue, ensureContent and onProgramSaved: unless a write could not be
\* noticed, whatever the editor has and the user left alone is what the file holds,
\* for any files, programs and histories of saves.
THEOREM EditorStaysCurrent == ProgramsSpec => []EditorIsCurrent
<1>1. ProgramsInit => EditorInv
  BY DEF ProgramsInit, EditorInv, OneSave, ReadsAreCurrent, EditorIsCurrent, Unread
<1>2. ProgramTypes /\ EditorInv /\ [ProgramsNext]_vars => EditorInv'
  BY OneSaveStep, EditorStep DEF EditorInv
<1>3. EditorInv => EditorIsCurrent
  BY DEF EditorInv
<1>. QED
  BY <1>1, <1>2, <1>3, ProgramTypesInit, ProgramTypesStep, PTL DEF ProgramsSpec

-----------------------------------------------------------------------------
(* Programs: the builder *)

\* The settings the user left alone are those of the file that was parsed.
FromBase(f) ==
  f.of # NoPath =>
    /\ f.base # <<>>
    /\ \A x \in Settings \ f.touched : f.form[x] = parse_program_block(f.base)[x]

\* Unless the builder was opened during a parse or a save, a parse under way is
\* for the file it is open for and is the only one, and a form that is saved was
\* parsed from the file it goes to.
Matching ==
  /\ creating # {} => parsing = {}
  /\ \A q, r \in parsing : q = r
  /\ \A q \in parsing : q.path = builder.path /\ builder.form.name = NoName
  /\ builder.path # NoPath /\ builder.form.name # NoName => builder.of = builder.path
  /\ \A c \in creating :
       /\ c.at = "preview" => c.of # NoPath /\ builder.path = c.of
       /\ c.at = "write" => c.of # NoPath /\ c.path = c.of

BuilderInv ==
  /\ OneSave
  /\ FromBase(builder) /\ \A c \in creating : FromBase(c)
  /\ "hasty" \notin mishaps => Matching

LEMMA FromBaseStep ==
  ProgramTypes /\ BuilderInv /\ [ProgramsNext]_vars =>
    FromBase(builder)' /\ \A c \in creating' : FromBase(c)
<1>. SUFFICES ASSUME ProgramTypes, BuilderInv, [ProgramsNext]_vars
              PROVE  FromBase(builder)' /\ \A c \in creating' : FromBase(c)
  OBVIOUS
<1>0. /\ FromBase(builder) /\ \A c \in creating : FromBase(c)
      /\ builder \in Builders /\ creating \subseteq Saves
  BY DEF BuilderInv, ProgramTypes
<1>1. ASSUME UNCHANGED <<builder, creating>>
      PROVE  FromBase(builder)' /\ \A c \in creating' : FromBase(c)
  BY <1>0, <1>1 DEF FromBase
<1>2. CASE \/ OpenPanel \/ Edit \/ save \/ write_config_file \/ WriteFails
           \/ \E p \in Paths : SelectTab(p)
           \/ \E r \in reading : ReadAnswers(r) \/ ReadFails(r)
           \/ \E q \in parsing : ParseFails(q)
           \/ UNCHANGED vars
  <2>1. UNCHANGED <<builder, creating>>
    BY <1>2 DEF OpenPanel, Edit, save, write_config_file, WriteFails, SelectTab,
                ReadAnswers, ReadFails, ParseFails, vars, builderVars
  <2>. QED
    BY <1>1, <2>1
<1>3. CASE openCreate \/ openEditAsProgram
  <2>1. builder'.of = NoPath /\ UNCHANGED creating
    BY <1>3 DEF openCreate, openEditAsProgram, Fresh
  <2>. QED
    BY <1>0, <2>1 DEF FromBase
<1>4. CASE Cancel
  <2>1. /\ builder'.of = builder.of /\ builder'.form = builder.form
        /\ builder'.base = builder.base /\ builder'.touched = builder.touched
        /\ UNCHANGED creating
    BY <1>0, <1>4 DEF Cancel, Builders
  <2>. QED
    BY <1>0, <2>1 DEF FromBase
<1>5. ASSUME NEW q \in parsing, ParseAnswers(q)
      PROVE  FromBase(builder)' /\ \A c \in creating' : FromBase(c)
  <2>1. PICK text \in {q.text, disk[q.path]} \ {<<>>} :
          builder' = [builder EXCEPT !.form = parse_program_block(text),
                        !.touched = {}, !.of = q.path, !.base = text]
    BY <1>5 DEF ParseAnswers
  <2>2. /\ builder'.form = parse_program_block(text) /\ builder'.base = text
        /\ text # <<>> /\ UNCHANGED creating
    BY <1>0, <1>5, <2>1 DEF ParseAnswers, Builders
  <2>. QED
    BY <1>0, <2>2 DEF FromBase
<1>6. ASSUME NEW x, NEW value, SetField(x, value)
      PROVE  FromBase(builder)' /\ \A c \in creating' : FromBase(c)
  <2>1. /\ builder'.of = builder.of /\ builder'.base = builder.base
        /\ builder'.form = [builder.form EXCEPT ![x] = value]
        /\ builder'.touched = builder.touched \cup {x} /\ UNCHANGED creating
    BY <1>0, <1>6 DEF SetField, Builders
  <2>2. \A y \in Settings \ builder'.touched : builder'.form[y] = builder.form[y]
    <3>1. builder.form \in Form
      BY <1>0 DEF Builders
    <3>2. DOMAIN builder.form = Settings
      BY <3>1 DEF Form, Settings
    <3>. QED
      BY <2>1, <3>2
  <2>. QED
    BY <1>0, <2>1, <2>2 DEF FromBase
<1>7. CASE create
  <2>1. \A c \in creating' : /\ c.of = builder.of /\ c.form = builder.form
                             /\ c.base = builder.base /\ c.touched = builder.touched
    BY <1>7 DEF create
  <2>2. UNCHANGED builder
    BY <1>7 DEF create
  <2>. QED
    BY <1>0, <2>1, <2>2 DEF FromBase
<1>8. ASSUME UNCHANGED builder,
             \A c \in creating' : \E d \in creating :
               /\ c.of = d.of /\ c.form = d.form /\ c.base = d.base /\ c.touched = d.touched
      PROVE  FromBase(builder)' /\ \A c \in creating' : FromBase(c)
  BY <1>0, <1>8 DEF FromBase
<1>9. CASE Previewed
  <2>1. PICK d \in creating :
          creating' = IF builder.path = NoPath THEN {}
                      ELSE {[d EXCEPT !.at = "write", !.path = builder.path]}
    BY <1>9 DEF Previewed
  <2>2. \A c \in creating' :
          c.of = d.of /\ c.form = d.form /\ c.base = d.base /\ c.touched = d.touched
    BY <1>0, <2>1 DEF Saves
  <2>. QED
    BY <1>8, <1>9, <2>2 DEF Previewed
<1>10. CASE Rewrite \/ add_program
  <2>1. PICK d \in creating : \E p :
          creating' = {[d EXCEPT !.at = "reload", !.path = p]} /\ UNCHANGED builder
    BY <1>10 DEF Rewrite, add_program, WriteBlock
  <2>2. \A c \in creating' :
          c.of = d.of /\ c.form = d.form /\ c.base = d.base /\ c.touched = d.touched
    BY <1>0, <2>1 DEF Saves
  <2>. QED
    BY <1>8, <2>1, <2>2
<1>11. CASE RewriteFails \/ AddFails \/ CreateFails
  BY <1>8, <1>11 DEF RewriteFails, AddFails, BlockFails, CreateFails
<1>12. CASE Saved
  <2>1. /\ creating' = {} /\ builder'.of = builder.of /\ builder'.form = builder.form
        /\ builder'.base = builder.base /\ builder'.touched = builder.touched
    BY <1>0, <1>12 DEF Saved, Builders
  <2>. QED
    BY <1>0, <2>1 DEF FromBase
<1>. QED
  BY <1>2, <1>3, <1>4, <1>5, <1>6, <1>7, <1>9, <1>10, <1>11, <1>12 DEF ProgramsNext

LEMMA MatchingStep ==
  ProgramTypes /\ BuilderInv /\ [ProgramsNext]_vars /\ "hasty" \notin mishaps' => Matching'
<1>. SUFFICES ASSUME ProgramTypes, BuilderInv, [ProgramsNext]_vars, "hasty" \notin mishaps'
              PROVE  Matching'
  OBVIOUS
<1>0. /\ Matching /\ OneSave /\ builder \in Builders /\ creating \subseteq Saves
      /\ parsing \subseteq Texted /\ \A q \in parsing : q.path # NoPath
  BY MishapsStay, ProgramsAssumption DEF BuilderInv, ProgramTypes, Texted
<1>1. CASE \/ OpenPanel \/ Edit \/ save \/ write_config_file \/ WriteFails
           \/ \E p \in Paths : SelectTab(p)
           \/ \E r \in reading : ReadAnswers(r) \/ ReadFails(r)
           \/ UNCHANGED vars
  <2>1. UNCHANGED <<builder, parsing, creating>>
    BY <1>1 DEF OpenPanel, Edit, save, write_config_file, WriteFails, SelectTab,
                ReadAnswers, ReadFails, vars, builderVars
  <2>. QED
    BY <1>0, <2>1 DEF Matching
<1>2. CASE openCreate
  <2>1. /\ parsing = {} /\ creating = {} /\ UNCHANGED <<parsing, creating>>
        /\ builder'.path = NoPath
    BY <1>2 DEF openCreate, Hasty, Fresh
  <2>. QED
    BY <2>1 DEF Matching
<1>3. CASE openEditAsProgram
  <2>1. /\ parsing = {} /\ creating = {} /\ UNCHANGED creating
        /\ parsing' = parsing \cup {[path |-> selected, text |-> disk[selected]]}
        /\ builder' = Fresh(selected)
    BY <1>3 DEF openEditAsProgram, Hasty
  <2>2. builder'.path = selected /\ builder'.form.name = NoName
    BY <2>1, FormsFit DEF Fresh
  <2>. QED
    BY <2>1, <2>2 DEF Matching
<1>4. CASE Cancel
  <2>1. /\ builder'.of = builder.of /\ builder'.form = builder.form
        /\ builder'.path = builder.path /\ UNCHANGED <<parsing, creating>>
    BY <1>0, <1>4 DEF Cancel, Builders
  <2>. QED
    BY <1>0, <2>1 DEF Matching
<1>5. ASSUME NEW q \in parsing, ParseAnswers(q) PROVE Matching'
  <2>1. /\ builder'.of = q.path /\ builder'.path = builder.path
        /\ parsing' = parsing \ {q} /\ UNCHANGED creating
    BY <1>0, <1>5 DEF ParseAnswers, Builders
  <2>2. q.path = builder.path /\ parsing' = {} /\ creating = {}
    BY <1>0, <1>5, <2>1 DEF Matching
  <2>. QED
    BY <2>1, <2>2 DEF Matching
<1>6. ASSUME NEW q \in parsing, ParseFails(q) PROVE Matching'
  <2>1. parsing' \subseteq parsing /\ UNCHANGED <<builder, creating>>
    BY <1>6 DEF ParseFails
  <2>. QED
    BY <1>0, <2>1 DEF Matching
<1>7. ASSUME NEW x \in {"name", "text", "count"}, NEW value, SetField(x, value)
      PROVE  Matching'
  <2>1. /\ builder'.of = builder.of /\ builder'.path = builder.path
        /\ builder'.form = [builder.form EXCEPT ![x] = value]
        /\ x = "name" => builder.path = NoPath
        /\ UNCHANGED <<parsing, creating>>
    BY <1>0, <1>7 DEF SetField, Builders
  <2>2. x # "name" => builder'.form.name = builder.form.name
    <3>1. builder.form \in Form
      BY <1>0 DEF Builders
    <3>. QED
      BY <2>1, <3>1 DEF Form
  <2>. QED
    BY <1>0, <2>1, <2>2 DEF Matching
<1>8. CASE create
  <2>1. /\ builder.form.name # NoName /\ UNCHANGED <<builder, parsing>>
        /\ \A c \in creating' :
             /\ c.at = IF builder.path = NoPath THEN "add" ELSE "preview"
             /\ c.of = builder.of
    BY <1>8 DEF create, canCreate
  <2>2. parsing = {}
    BY <1>0, <2>1 DEF Matching
  <2>3. builder.path # NoPath => builder.of = builder.path
    BY <1>0, <2>1 DEF Matching
  <2>. QED
    BY <1>0, <2>1, <2>2, <2>3 DEF Matching
<1>9. CASE Previewed
  <2>1. PICK d \in creating :
          /\ d.at = "preview" /\ UNCHANGED <<builder, parsing>>
          /\ creating' = IF builder.path = NoPath THEN {}
                         ELSE {[d EXCEPT !.at = "write", !.path = builder.path]}
    BY <1>9 DEF Previewed
  <2>2. parsing = {} /\ d.of # NoPath /\ builder.path = d.of
    BY <1>0, <2>1 DEF Matching
  <2>3. \A c \in creating' : c.at = "write" /\ c.path = builder.path /\ c.of = d.of
    BY <1>0, <2>1 DEF Saves
  <2>. QED
    BY <1>0, <2>1, <2>2, <2>3 DEF Matching
<1>10. CASE Rewrite \/ add_program
  <2>1. PICK d \in creating : \E p :
          /\ creating' = {[d EXCEPT !.at = "reload", !.path = p]}
          /\ UNCHANGED <<builder, parsing>>
    BY <1>10 DEF Rewrite, add_program, WriteBlock
  <2>2. \A c \in creating' : c.at = "reload"
    BY <1>0, <2>1 DEF Saves
  <2>3. parsing = {}
    BY <1>0 DEF Matching
  <2>. QED
    BY <1>0, <2>1, <2>2, <2>3 DEF Matching
<1>11. CASE RewriteFails \/ AddFails \/ CreateFails
  <2>1. creating # {} /\ creating' = {} /\ UNCHANGED <<builder, parsing>>
    BY <1>11 DEF RewriteFails, AddFails, BlockFails, CreateFails
  <2>. QED
    BY <1>0, <2>1 DEF Matching
<1>12. CASE Saved
  <2>1. /\ creating # {} /\ creating' = {} /\ UNCHANGED parsing
        /\ builder'.path = NoPath
    BY <1>0, <1>12 DEF Saved, Builders
  <2>. QED
    BY <1>0, <2>1 DEF Matching
<1>. QED
  BY <1>1, <1>2, <1>3, <1>4, <1>5, <1>6, <1>7, <1>8, <1>9, <1>10, <1>11, <1>12
  DEF ProgramsNext

\* A plain file and the block of a form that was parsed from it agree on the
\* settings the user left alone.
LEMMA BlockKeepsSettings ==
  ASSUME NEW base \in File, Plain(base), base # <<>>, NEW form \in Form, NEW x \in Settings,
         form[x] = parse_program_block(base)[x]
  PROVE  Effective(build_program_block(form))[x] = Effective(base[1])[x]
<1>. DEFINE p == base[1]
            b == build_program_block(form)
<1>1. /\ p \in Program /\ p.count # Unset /\ p.log # Unset
      /\ p.priority # "0" /\ p.autostart \in {"true", "false", Unset}
  BY FileBegins DEF Plain, Program
<1>2. p.count # Null /\ p.priority # Null
  BY <1>1 DEF Program, Counts, Priorities, Null, Unset, Retries, Last
<1>3. parse_program_block(base) =
        [name |-> p.name, text |-> p.text, log |-> p.log, count |-> p.count,
         priority |-> IF p.priority = Unset THEN Null ELSE p.priority,
         autostart |-> IF p.autostart \in {"true", Unset} THEN "true" ELSE "false"]
  BY <1>1 DEF parse_program_block
<1>4. b = [name |-> form.name, text |-> form.text,
           count |-> IF form.count = Null THEN "0" ELSE form.count,
           priority |-> IF form.priority \in {Null, "0"} THEN Unset ELSE form.priority,
           autostart |-> form.autostart,
           log |-> IF form.log = Unset THEN VarLog ELSE form.log, extra |-> Unset]
  BY DEF build_program_block
<1>. HIDE DEF p, b
<1>5. b.count # Unset
  BY <1>4 DEF Form, Counts, Unset, Null, Retries
<1>6. /\ Effective(p).name = p.name /\ Effective(p).text = p.text
      /\ Effective(p).count = p.count /\ Effective(p).log = p.log
      /\ Effective(p).priority = IF p.priority = Unset THEN Last ELSE p.priority
      /\ Effective(p).autostart = IF p.autostart = "false" THEN "false" ELSE "true"
  BY <1>1 DEF Effective, Program, Unset
<1>7. /\ Effective(b).name = form.name /\ Effective(b).text = form.text
      /\ Effective(b).count = b.count /\ Effective(b).log = b.log
      /\ Effective(b).priority = IF b.priority = Unset THEN Last ELSE b.priority
      /\ Effective(b).autostart =
           IF b.autostart \in {"yes", Unset} THEN "true" ELSE b.autostart
  BY <1>4, <1>5 DEF Effective
<1>8. CASE x = "name"
  BY <1>3, <1>6, <1>7, <1>8 DEF p, b
<1>9. CASE x = "text"
  BY <1>3, <1>6, <1>7, <1>9 DEF p, b
<1>10. CASE x = "count"
  <2>1. form.count = p.count
    BY <1>3, <1>10
  <2>2. b.count = p.count
    BY <1>2, <1>4, <2>1
  <2>. QED
    BY <1>6, <1>7, <1>10, <2>2 DEF p, b
<1>11. CASE x = "log"
  <2>1. form.log = p.log
    BY <1>3, <1>11
  <2>2. b.log = p.log
    BY <1>1, <1>4, <2>1
  <2>. QED
    BY <1>6, <1>7, <1>11, <2>2 DEF p, b
<1>12. CASE x = "priority"
  <2>1. form.priority = IF p.priority = Unset THEN Null ELSE p.priority
    BY <1>3, <1>12
  <2>2. b.priority = p.priority
    BY <1>1, <1>2, <1>4, <2>1
  <2>. QED
    BY <1>6, <1>7, <1>12, <2>2 DEF p, b
<1>13. CASE x = "autostart"
  <2>1. b.autostart = IF p.autostart \in {"true", Unset} THEN "true" ELSE "false"
    BY <1>3, <1>4, <1>13
  <2>2. Effective(b).autostart = b.autostart
    BY <1>7, <2>1 DEF Unset
  <2>3. Effective(p).autostart = b.autostart
    BY <1>1, <1>6, <2>1 DEF Unset
  <2>. QED
    BY <1>13, <2>2, <2>3 DEF p, b
<1>. QED
  BY <1>8, <1>9, <1>10, <1>11, <1>12, <1>13 DEF Settings

\* BuilderInv is inductive on the types.
LEMMA BuilderInvariant == ProgramsSpec => [](ProgramTypes /\ BuilderInv)
<1>1. ProgramsInit => BuilderInv
  <2>. SUFFICES ASSUME ProgramsInit PROVE BuilderInv
    OBVIOUS
  <2>1. builder.of = NoPath /\ builder.path = NoPath /\ creating = {} /\ parsing = {}
    BY DEF ProgramsInit, Fresh
  <2>. QED
    BY <2>1 DEF BuilderInv, OneSave, FromBase, Matching
<1>2. ProgramTypes /\ BuilderInv /\ [ProgramsNext]_vars => BuilderInv'
  <2>. SUFFICES ASSUME ProgramTypes, BuilderInv, [ProgramsNext]_vars PROVE BuilderInv'
    OBVIOUS
  <2>1. OneSave'
    BY OneSaveStep DEF BuilderInv
  <2>2. FromBase(builder)' /\ (\A c \in creating : FromBase(c))'
    BY FromBaseStep DEF FromBase
  <2>. QED
    BY <2>1, <2>2, MatchingStep DEF BuilderInv
<1>. QED
  BY <1>1, <1>2, ProgramTypesInit, ProgramTypesStep, PTL DEF ProgramsSpec

\* ProgramBuilder.vue, create: a save of the builder keeps what the user left alone,
\* for any files, forms and orders of parses, edits and saves.
THEOREM BuilderKeepsTheRest == ProgramsSpec => EditKeepsTheRest
<1>1. ASSUME ProgramTypes, BuilderInv, [ProgramsNext]_vars, NEW c \in creating,
             c.at = "write", Plain(disk[c.path]), c.base = disk[c.path],
             "hasty" \notin mishaps, creating' = {[c EXCEPT !.at = "reload"]}
      PROVE  /\ c.of = c.path
             /\ \A x \in DOMAIN blank \ c.touched :
                  Effective(disk'[c.path][1])[x] = Effective(disk[c.path][1])[x]
  <2>1. /\ c \in Saves /\ c.form \in Form /\ c.path \in Paths /\ disk \in [Paths -> File]
        /\ \A d \in creating : d = c
    BY <1>1 DEF ProgramTypes, Saves, BuilderInv, OneSave
  <2>2. c.of # NoPath /\ c.path = c.of /\ FromBase(c)
    BY <1>1 DEF BuilderInv, Matching
  <2>3. [c EXCEPT !.at = "reload"].at = "reload"
    BY <2>1 DEF Saves
  <2>4. creating' # creating /\ creating' # {}
    BY <1>1, <2>1, <2>3
  <2>5. ~ UNCHANGED vars
    BY <2>4 DEF vars, builderVars
  <2>6. ~(\/ OpenPanel \/ Edit \/ save \/ write_config_file \/ WriteFails
          \/ \E p \in Paths : SelectTab(p)
          \/ \E r \in reading : ReadAnswers(r) \/ ReadFails(r))
    BY <2>4 DEF OpenPanel, Edit, save, write_config_file, WriteFails, SelectTab,
                ReadAnswers, ReadFails, builderVars
  <2>7. ~(\/ openCreate \/ openEditAsProgram \/ Cancel
          \/ \E q \in parsing : ParseAnswers(q) \/ ParseFails(q)
          \/ \E n \in Names : SetField("name", n)
          \/ \E t \in Texts : SetField("text", t)
          \/ \E n \in Counts : SetField("count", n))
    BY <2>4 DEF openCreate, openEditAsProgram, Cancel, ParseAnswers, ParseFails, SetField
  <2>14. ~(RewriteFails \/ AddFails \/ CreateFails \/ Saved)
    BY <2>4 DEF RewriteFails, AddFails, BlockFails, CreateFails, Saved
  <2>8. ~(create \/ Previewed \/ add_program)
    BY <1>1, <2>1, <2>4 DEF create, Previewed, add_program
  <2>9. Rewrite
    BY <1>1, <2>5, <2>6, <2>7, <2>8, <2>14 DEF ProgramsNext
  <2>10. disk' = [disk EXCEPT ![c.path] = <<build_program_block(c.form)>>]
    BY <2>1, <2>9 DEF Rewrite, WriteBlock
  <2>11. disk'[c.path][1] = build_program_block(c.form)
    BY <2>1, <2>10
  <2>12. DOMAIN blank = Settings
    BY DEF blank, Settings
  <2>13. \A x \in Settings \ c.touched :
           Effective(build_program_block(c.form))[x] = Effective(disk[c.path][1])[x]
    <3>1. /\ c.base \in File /\ c.base # <<>> /\ Plain(c.base)
          /\ \A x \in Settings \ c.touched : c.form[x] = parse_program_block(c.base)[x]
      BY <1>1, <2>1, <2>2 DEF FromBase
    <3>2. \A x \in Settings \ c.touched :
            Effective(build_program_block(c.form))[x] = Effective(c.base[1])[x]
      BY <2>1, <3>1, BlockKeepsSettings
    <3>. QED
      BY <1>1, <3>2
  <2>. QED
    BY <2>2, <2>11, <2>12, <2>13
<1>2. ProgramTypes /\ BuilderInv /\ [ProgramsNext]_vars =>
        \A c \in creating :
          c.at = "write" /\ Plain(disk[c.path]) /\ c.base = disk[c.path]
          /\ "hasty" \notin mishaps /\ creating' = {[c EXCEPT !.at = "reload"]} =>
            /\ c.of = c.path
            /\ \A x \in DOMAIN blank \ c.touched :
                 Effective(disk'[c.path][1])[x] = Effective(disk[c.path][1])[x]
  BY <1>1
<1>. QED
  BY <1>2, BuilderInvariant, PTL DEF ProgramsSpec, EditKeepsTheRest
=============================================================================
