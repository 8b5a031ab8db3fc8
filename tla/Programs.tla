------------------------------- MODULE Programs -------------------------------
(***************************************************************************)
(* The configuration files of a server and the two ways to edit them       *)
(* (supervisor/config.rs, ConfigPanel.vue, ProgramBuilder.vue):            *)
(*                                                                         *)
(*   editor    reads a file when its tab is first shown, keeps the text in *)
(*             `contents`, and saves the text as it is                     *)
(*   builder   parses the first program of a file into a form, and saves a *)
(*             file made of the form; or adds a program in a file of its own *)
(*                                                                         *)
(* A file is a sequence of programs.  Of a program's settings there is one *)
(* of each kind that fares differently: `text` (command, directory, ...),  *)
(* `count` (startsecs, startretries, stopwaitsecs), `priority`, `autostart` *)
(* (a Boolean), `log` (stdout_logfile), and `extra`: what the form does not *)
(* have (umask, exitcodes, ...) or cannot read (a value on several lines). *)
(* What a reload does with the files is ConfigApply's.                     *)
(***************************************************************************)
EXTENDS Naturals, Sequences

CONSTANTS
  Paths,      \* configuration files
  Names,      \* programs
  FileOf,     \* program -> the file add_program writes
  Texts,      \* what a user enters as text
  Before,     \* bound: what a file may hold at first
  NoPath,
  MaxChanges,   \* bound: saves, and changes in the editor and the form
  Faults      \* which may happen: "hasty", "unnoticed" (see mishaps)

VARIABLES
  disk,      \* path -> its programs; <<>> when there is no file, or an empty
             \*   one, which the list leaves out
  files,     \* the editor's tabs
  selected,  \* the one that is shown
  contents,  \* path -> what the editor has: state, text, and whether the user
             \*   has changed it since it was read or saved
  reading,   \* reads under way: the file, and what it held when they began
  saving,    \* the save of the editor under way, at most one: path and text
  builder,   \* the builder: open, path, form, touched (settings the user has
             \*   changed), of and base (the file that was parsed, and its text)
  parsing,   \* parses under way, as reading
  creating,  \* the builder's save under way, at most one
  changes,   \* saves and changes so far
  mishaps    \* history: "hasty": the builder was opened during a parse or a save
             \*   of its own; "unnoticed": the editor could not know of a change to
             \*   a file

editorVars == <<files, selected, contents, reading, saving>>
builderVars == <<builder, parsing, creating>>
vars == <<disk, editorVars, builderVars, changes, mishaps>>

Unset == "unset"
Null == "null"
NoName == "no name"
Retries == "3"            \* supervisor's defaults of the count
Last == "999"             \*   and of the priority
VarLog == "/var/log"      \* the log build_program_block chooses
Counts == {"0", Retries, "5"}
Priorities == {"0", "5", Last}
Logs == {VarLog, "elsewhere"}

Program == [name : Names, text : Texts, count : Counts \cup {Unset},
            priority : Priorities \cup {Unset},
            autostart : {"true", "yes", "false", Unset},
            log : Logs \cup {Unset}, extra : {Unset, "set"}]
File == {f \in Seq(Program) : Len(f) <= 2}

ASSUME ProgramsAssumption ==
  /\ FileOf \in [Names -> Paths] /\ NoPath \notin Paths
  /\ Before \subseteq File /\ NoName \notin Names
  /\ MaxChanges \in Nat

-----------------------------------------------------------------------------
(* Files and forms *)

Form == [name : Names \cup {NoName}, text : Texts \cup {Unset},
         count : Counts \cup {Null}, priority : Priorities \cup {Null},
         autostart : {"true", "false"}, log : Logs \cup {Unset}]

blank == [name |-> NoName, text |-> Unset, count |-> Retries, priority |-> Last,
          autostart |-> "true", log |-> Unset]

\* The first program of a file, as the form has it.  Of a Boolean "true" is true.
parse_program_block(file) ==
  LET p == file[1]
  IN  [name |-> p.name, text |-> p.text, log |-> p.log,
       count |-> IF p.count = Unset THEN Null ELSE p.count,
       priority |-> IF p.priority = Unset THEN Null ELSE p.priority,
       autostart |-> IF p.autostart \in {"true", Unset} THEN "true" ELSE "false"]

\* mutant of build_program_block: the count is not written
BuildShort(form) ==
  [name |-> form.name, text |-> form.text, count |-> Unset, priority |-> form.priority,
   autostart |-> form.autostart,
   log |-> IF form.log = Unset THEN VarLog ELSE form.log, extra |-> Unset]

\* payload() makes a number of the count, 0 of null, and sends no priority when it
\* is 0; a log is always written.
build_program_block(form) ==
  [name |-> form.name, text |-> form.text,
   count |-> IF form.count = Null THEN "0" ELSE form.count,
   priority |-> IF form.priority \in {Null, "0"} THEN Unset ELSE form.priority,
   autostart |-> form.autostart,
   log |-> IF form.log = Unset THEN VarLog ELSE form.log, extra |-> Unset]

canCreate(form) == form.name # NoName /\ form.text # Unset

-----------------------------------------------------------------------------
(* The editor *)

Unread == [state |-> "unread", text |-> <<>>, dirty |-> FALSE]
Blank == [Unread EXCEPT !.state = "blank"]

\* ensureContent(p), given contents c: the text is blank until it is read.
ensureContent(c, p) ==
  IF p # NoPath /\ c[p].state = "unread"
  THEN /\ contents' = [c EXCEPT ![p] = Blank]
       /\ reading' = reading \cup {[path |-> p, text |-> disk[p]]}
  ELSE contents' = c /\ UNCHANGED reading

list_config_files == {p \in Paths : disk[p] # <<>>}

\* Everything is read anew, and the first file is shown.
loadList ==
  /\ files' = list_config_files
  /\ selected' \in IF files' = {} THEN {NoPath} ELSE files'
  /\ ensureContent([p \in Paths |-> Unread], selected')

OpenPanel ==
  /\ loadList
  /\ UNCHANGED <<disk, saving, builderVars, changes, mishaps>>

SelectTab(p) ==
  /\ p \in files /\ p # selected
  /\ selected' = p
  /\ ensureContent(contents, p)
  /\ UNCHANGED <<disk, files, saving, builderVars, changes, mishaps>>

ReadAnswers(r) ==
  /\ r \in reading
  /\ reading' = reading \ {r}
  /\ \E text \in {r.text, disk[r.path]} \ {<<>>} :
       contents' = [contents EXCEPT ![r.path] =
                      [state |-> "read", text |-> text, dirty |-> FALSE]]
  /\ UNCHANGED <<disk, files, selected, saving, builderVars, changes, mishaps>>

\* The text stays blank.
ReadFails(r) ==
  /\ r \in reading
  /\ reading' = reading \ {r}
  /\ UNCHANGED <<disk, files, selected, contents, saving, builderVars, changes, mishaps>>

\* The user removes the file's first program, or changes its text.
Edit ==
  /\ selected # NoPath /\ changes < MaxChanges
  /\ LET text == contents[selected].text IN
     /\ text # <<>>
     /\ \E new \in {Tail(text)} \cup {[text EXCEPT ![1].text = t] : t \in Texts} :
          contents' = [contents EXCEPT ![selected] =
                         [@ EXCEPT !.text = new, !.dirty = TRUE]]
  /\ changes' = changes + 1
  /\ UNCHANGED <<disk, files, selected, reading, saving, builderVars, mishaps>>

\* save().  What is not in contents cannot be sent; what is blank can.
save ==
  /\ saving = {} /\ changes < MaxChanges
  /\ selected # NoPath /\ contents[selected].state # "unread"
  /\ saving' = {[path |-> selected, text |-> contents[selected].text]}
  /\ changes' = changes + 1
  /\ UNCHANGED <<disk, files, selected, contents, reading, builderVars, mishaps>>

\* A write of p overtakes what the editor has, or is about to get, of p.
Overtakes(p) ==
  \/ contents[p].state = "read" /\ ~ contents[p].dirty
  \/ \E r \in reading : r.path = p

Unnoticed(p) == IF Overtakes(p) THEN {"unnoticed"} ELSE {}

write_config_file ==
  \E s \in saving :
    /\ disk' = [disk EXCEPT ![s.path] = s.text]
    /\ saving' = {}
    /\ contents' = [contents EXCEPT ![s.path].dirty = @ /\ contents[s.path].text # s.text]
    /\ mishaps' = mishaps \cup
         (IF contents[s.path].text = s.text /\ ~ \E r \in reading : r.path = s.path
          THEN {} ELSE Unnoticed(s.path))
    /\ mishaps' \subseteq Faults
    /\ UNCHANGED <<files, selected, reading, builderVars, changes>>

\* The shell opens the file before it fails, or not.
WriteFails ==
  \E s \in saving :
    /\ saving' = {}
    /\ \/ UNCHANGED <<disk, mishaps>>
       \/ /\ disk' = [disk EXCEPT ![s.path] = <<>>]
          /\ mishaps' = mishaps \cup Unnoticed(s.path)
          /\ mishaps' \subseteq Faults
    /\ UNCHANGED <<files, selected, contents, reading, builderVars, changes>>

-----------------------------------------------------------------------------
(* The builder *)

Fresh(p) ==
  [open |-> TRUE, path |-> p, form |-> blank, touched |-> {}, of |-> NoPath,
   base |-> <<>>]

Hasty == IF parsing # {} \/ creating # {} THEN {"hasty"} ELSE {}

openCreate ==
  /\ ~ builder.open
  /\ builder' = Fresh(NoPath)
  /\ mishaps' = mishaps \cup Hasty /\ mishaps' \subseteq Faults
  /\ UNCHANGED <<disk, editorVars, parsing, creating, changes>>

openEditAsProgram ==
  /\ ~ builder.open /\ selected # NoPath
  /\ builder' = Fresh(selected)
  /\ parsing' = parsing \cup {[path |-> selected, text |-> disk[selected]]}
  /\ mishaps' = mishaps \cup Hasty /\ mishaps' \subseteq Faults
  /\ UNCHANGED <<disk, editorVars, creating, changes>>

\* The form takes the answer whatever file it is open for by then.
ParseAnswers(q) ==
  /\ q \in parsing
  /\ parsing' = parsing \ {q}
  /\ \E text \in {q.text, disk[q.path]} \ {<<>>} :
       builder' = [builder EXCEPT !.form = parse_program_block(text),
                     !.touched = {}, !.of = q.path, !.base = text]
  /\ UNCHANGED <<disk, editorVars, creating, changes, mishaps>>

ParseFails(q) ==
  /\ q \in parsing
  /\ parsing' = parsing \ {q}
  /\ UNCHANGED <<disk, editorVars, builder, creating, changes, mishaps>>

\* The user changes a setting; the name only of a new program.  text and count
\* stand for all others.
SetField(x, value) ==
  /\ builder.open
  /\ x = "name" => builder.path = NoPath
  /\ changes < MaxChanges
  /\ changes' = changes + 1
  /\ builder' = [builder EXCEPT !.form[x] = value, !.touched = @ \cup {x}]
  /\ UNCHANGED <<disk, editorVars, parsing, creating, mishaps>>

Cancel ==
  /\ builder.open
  /\ builder' = [builder EXCEPT !.open = FALSE]
  /\ UNCHANGED <<disk, editorVars, parsing, creating, changes, mishaps>>

\* create() up to its first await.  The form is taken now.
create ==
  /\ builder.open /\ creating = {} /\ canCreate(builder.form)
  /\ changes < MaxChanges
  /\ changes' = changes + 1
  /\ creating' = {[at |-> IF builder.path = NoPath THEN "add" ELSE "preview",
                   form |-> builder.form, touched |-> builder.touched,
                   of |-> builder.of, base |-> builder.base, path |-> NoPath,
                   isEdit |-> builder.path # NoPath]}
  /\ UNCHANGED <<disk, editorVars, builder, parsing, mishaps>>

\* The block is back, and is sent to be written to the file that is edited now.
Previewed ==
  /\ \E c \in creating :
       /\ c.at = "preview"
       /\ creating' = IF builder.path = NoPath THEN {}
                      ELSE {[c EXCEPT !.at = "write", !.path = builder.path]}
  /\ UNCHANGED <<disk, editorVars, builder, parsing, changes, mishaps>>

\* The file is made of the block alone; a reload follows.
WriteBlock(c, p) ==
  /\ disk' = [disk EXCEPT ![p] = <<build_program_block(c.form)>>]
  /\ creating' = {[c EXCEPT !.at = "reload", !.path = p]}
  /\ mishaps' = mishaps \cup
       (IF \E r \in reading : r.path = p THEN {"unnoticed"} ELSE {})
  /\ mishaps' \subseteq Faults
  /\ UNCHANGED <<editorVars, builder, parsing, changes>>

Rewrite == \E c \in creating : c.at = "write" /\ WriteBlock(c, c.path)
add_program == \E c \in creating : c.at = "add" /\ WriteBlock(c, FileOf[c.form.name])

\* The file is opened, and thereby emptied, and the write fails.
BlockFails(c, p) ==
  /\ creating' = {}
  /\ disk' = [disk EXCEPT ![p] = <<>>]
  /\ mishaps' = mishaps \cup Unnoticed(p)
  /\ mishaps' \subseteq Faults
  /\ UNCHANGED <<editorVars, builder, parsing, changes>>

RewriteFails == \E c \in creating : c.at = "write" /\ BlockFails(c, c.path)
AddFails == \E c \in creating : c.at = "add" /\ BlockFails(c, FileOf[c.form.name])

\* A request fails: the dialog stays, and the editor is told nothing.
CreateFails ==
  \E c \in creating :
    /\ creating' = {}
    /\ mishaps' = mishaps \cup (IF c.at = "reload" THEN Unnoticed(c.path) ELSE {})
    /\ mishaps' \subseteq Faults
    /\ UNCHANGED <<disk, editorVars, builder, parsing, changes>>

\* mutant of Saved: the editor keeps what it has
SavedOnly ==
  \E c \in creating :
    /\ c.at = "reload"
    /\ creating' = {}
    /\ builder' = [builder EXCEPT !.open = FALSE, !.path = NoPath]
    /\ UNCHANGED <<disk, editorVars, parsing, changes, mishaps>>

\* The reload is over.  onProgramSaved reads the shown file anew, which is the
\* edited one unless another tab was chosen; onProgramCreated reads them all.
Saved ==
  \E c \in creating :
    /\ c.at = "reload"
    /\ creating' = {}
    /\ builder' = [builder EXCEPT !.open = FALSE, !.path = NoPath]
    /\ IF ~ c.isEdit
       THEN loadList /\ UNCHANGED mishaps
       ELSE /\ IF selected = NoPath THEN UNCHANGED <<contents, reading>>
               ELSE ensureContent([contents EXCEPT ![selected] = Unread], selected)
            /\ mishaps' = mishaps
                 \cup (IF selected = c.path /\ ~ \E r \in reading : r.path = c.path
                       THEN {} ELSE Unnoticed(c.path))
            /\ mishaps' \subseteq Faults
            /\ UNCHANGED <<files, selected>>
    /\ UNCHANGED <<disk, saving, parsing, changes>>

ProgramsInit ==
  /\ disk \in [Paths -> Before]
  /\ files = {} /\ selected = NoPath
  /\ contents = [p \in Paths |-> Unread] /\ reading = {} /\ saving = {}
  /\ builder = [Fresh(NoPath) EXCEPT !.open = FALSE]
  /\ parsing = {} /\ creating = {}
  /\ changes = 0 /\ mishaps = {}

ProgramsNext ==
  \/ OpenPanel \/ Edit \/ save \/ write_config_file \/ WriteFails
  \/ \E p \in Paths : SelectTab(p)
  \/ \E r \in reading : ReadAnswers(r) \/ ReadFails(r)
  \/ openCreate \/ openEditAsProgram \/ Cancel
  \/ \E q \in parsing : ParseAnswers(q) \/ ParseFails(q)
  \/ \E n \in Names : SetField("name", n)
  \/ \E t \in Texts : SetField("text", t)
  \/ \E n \in Counts : SetField("count", n)
  \/ create \/ Previewed \/ Rewrite \/ add_program
  \/ RewriteFails \/ AddFails \/ CreateFails \/ Saved

ProgramsSpec == ProgramsInit /\ [][ProgramsNext]_vars

-----------------------------------------------------------------------------
(* Properties *)

\* Files, texts and forms have their types; a form that can be saved in a file
\* is a parsed one.
ProgramsTypeOK ==
  /\ disk \in [Paths -> File]
  /\ files \subseteq Paths /\ selected \in files \cup {NoPath}
  /\ contents \in [Paths -> [state : {"unread", "blank", "read"}, text : File,
                             dirty : BOOLEAN]]
  /\ reading \cup parsing \subseteq [path : Paths, text : File]
  /\ saving \subseteq [path : Paths, text : File]
  /\ builder.form \in Form /\ builder.path \in Paths \cup {NoPath}
  /\ builder.path # NoPath /\ builder.form.name # NoName => builder.of # NoPath
  /\ \A c \in creating : c.form \in Form /\ c.form.name # NoName
  /\ changes \in 0 .. MaxChanges /\ mishaps \subseteq Faults

\* What supervisor makes of a program.
Effective(p) ==
  [p EXCEPT !.count = IF @ = Unset THEN Retries ELSE @,
            !.priority = IF @ = Unset THEN Last ELSE @,
            !.autostart = IF @ \in {"yes", Unset} THEN "true" ELSE @]

\* A file the form can hold: one program, with its counts and its log stated, a
\* priority other than 0, Booleans written as the form writes them, and nothing
\* the form does not have.
Plain(file) ==
  /\ Len(file) = 1
  /\ file[1].count # Unset /\ file[1].log # Unset /\ file[1].extra = Unset
  /\ file[1].priority # "0" /\ file[1].autostart # "yes"

\* ProgramBuilder.vue:193: when a program is edited, its settings the user left
\* alone mean what they meant before, and no other file's program takes its
\* place - in a plain file that has not changed since it was parsed.
EditKeepsTheRest ==
  [][\A c \in creating :
       c.at = "write" /\ Plain(disk[c.path]) /\ c.base = disk[c.path]
       /\ "hasty" \notin mishaps /\ creating' = {[c EXCEPT !.at = "reload"]} =>
         /\ c.of = c.path
         /\ \A x \in DOMAIN blank \ c.touched :
              Effective(disk'[c.path][1])[x] = Effective(disk[c.path][1])[x]]_vars

\* ConfigPanel.vue, ensureContent and onProgramSaved: a text in the editor that
\* the user has not changed is what the file holds.
EditorIsCurrent ==
  \A p \in Paths :
    /\ contents[p].state = "read" /\ ~ contents[p].dirty
    /\ "unnoticed" \notin mishaps
    /\ \A c \in creating : c.at = "reload" => c.path # p
    => contents[p].text = disk[p]
=============================================================================
