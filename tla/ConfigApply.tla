---------------------------- MODULE ConfigApply ----------------------------
(***************************************************************************)
(* Writing supervisord configuration and applying it:                      *)
(*                                                                         *)
(*   servers_config_save, servers_config_add_program    write a file       *)
(*   reload_config (service.rs)    reread; remove the groups that are gone *)
(*                                 or changed; add the changed and new ones*)
(*                                                                         *)
(* The commands of several windows and panels interleave at each call to   *)
(* supervisord; files can change at any time.  Apart from the reread the   *)
(* code ignores how a call ends.  multicall() sends the calls of a batch   *)
(* one by one when the batch request fails or its answer is unusable, and  *)
(* so repeats those that had been executed already.                        *)
(*                                                                         *)
(* A configuration file holds one group; a version stands for its text.    *)
(* Reread, remove and add do what supervisord's XML-RPC interface promises.*)
(***************************************************************************)
EXTENDS Naturals, FiniteSets

CONSTANTS
  Groups,       \* process groups
  Clients,      \* executions of the commands that may be under way
  MaxEdits,     \* bound: writes of a file
  MaxRepeats    \* bound: batches that are sent again, for each command

ASSUME ConfigAssumption == MaxEdits \in Nat /\ MaxRepeats \in Nat

VARIABLES
  file,     \* group -> version in its file, None without one
  parsed,   \* group -> version supervisord read at the last reread, or None
  active,   \* group -> version its processes run with, or None
  cmd,      \* client -> its command: where it is, the groups the reread
            \*   reported, and the calls of the batch under way still to make
  alone,    \* history: clients whose reload saw no failing call and no call
            \*   of another command since its reread
  edits     \* writes so far

configVars == <<file, parsed, active, cmd, alone, edits>>

None == 0
Idle == [at |-> "idle", remove |-> {}, add |-> {}, todo |-> {}, repeats |-> 0]

MayStart(k) == cmd[k] = Idle

-----------------------------------------------------------------------------
(* Files *)

\* Saving, creating or editing a program rewrites the whole file; it may be
\* followed by a reload.
Save(k, g) ==
  /\ MayStart(k) /\ edits < MaxEdits
  /\ edits' = edits + 1
  /\ \E version \in {None, edits + 1} : file' = [file EXCEPT ![g] = version]
  /\ \E next \in {"idle", "reread"} : cmd' = [cmd EXCEPT ![k].at = next]
  /\ UNCHANGED <<parsed, active, alone>>

\* The shell command failed and left the file truncated.  (When it left the file
\* as it was, nothing changes.)  No reload follows.
SaveFails(k, g) ==
  /\ MayStart(k) /\ edits < MaxEdits
  /\ edits' = edits + 1
  /\ file' = [file EXCEPT ![g] = None]
  /\ UNCHANGED <<parsed, active, cmd, alone>>

servers_daemon_reload(k) ==
  /\ MayStart(k)
  /\ cmd' = [cmd EXCEPT ![k].at = "reread"]
  /\ UNCHANGED <<file, parsed, active, alone, edits>>

-----------------------------------------------------------------------------
(* reload_config() *)

\* What reloadConfig reports when the files say new and now is active.
Gone(now, new) == {g \in Groups : now[g] # None /\ new[g] = None}
Changed(now, new) ==
  {g \in Groups : now[g] # None /\ new[g] # None /\ now[g] # new[g]}
Added(now, new) == {g \in Groups : now[g] = None /\ new[g] # None}

\* mutant: a changed group is removed and not added again
AddedOnly(now, new) == Added(now, new)

ToRemove(now, new) == Gone(now, new) \cup Changed(now, new)
ToAdd(now, new) == Changed(now, new) \cup Added(now, new)

\* A batch without calls is not sent.
After(add) == IF add = {} THEN "done" ELSE "add"

Reread(k) ==
  LET remove == ToRemove(active, file)
      add == ToAdd(active, file)
      batch == IF remove = {} THEN After(add) ELSE "remove"
  IN
  /\ cmd[k].at = "reread"
  /\ parsed' = file
  /\ cmd' = [cmd EXCEPT ![k] = [Idle EXCEPT
       !.at = batch, !.remove = remove, !.add = add,
       !.todo = IF batch = "remove" THEN remove ELSE add]]
  /\ alone' = {k}
  /\ UNCHANGED <<file, active, edits>>

\* The error of reloadConfig ends the command, whether or not supervisord has
\* read the files.
RereadFails(k) ==
  /\ cmd[k].at = "reread"
  /\ parsed' \in {parsed, file}
  /\ cmd' = [cmd EXCEPT ![k] = Idle]
  /\ alone' = {}
  /\ UNCHANGED <<file, active, edits>>

Called(k, g) == cmd' = [cmd EXCEPT ![k].todo = @ \ {g}]

\* removeProcessGroup
Remove(k, g) ==
  /\ cmd[k].at = "remove" /\ g \in cmd[k].todo
  /\ active' = [active EXCEPT ![g] = None]
  /\ Called(k, g)
  /\ alone' = alone \cap {k}
  /\ UNCHANGED <<file, parsed, edits>>

\* addProcessGroup: a fault when the group is active or not in the files.
Add(k, g) ==
  /\ cmd[k].at = "add" /\ g \in cmd[k].todo
  /\ active' = [active EXCEPT ![g] = IF @ = None THEN parsed[g] ELSE @]
  /\ Called(k, g)
  /\ alone' = alone \cap {k}
  /\ UNCHANGED <<file, parsed, edits>>

\* The calls of the batch a command is making.
Batch(c) == {g \in Groups : \/ c.at = "remove" /\ g \in c.remove
                            \/ c.at = "add" /\ g \in c.add}

\* The call has no effect (a group that cannot be removed, a lost connection),
\* and the next one is made.
CallFails(k, g) ==
  /\ g \in cmd[k].todo
  /\ Called(k, g)
  /\ alone' = alone \ {k}
  /\ UNCHANGED <<file, parsed, active, edits>>

\* multicall() falls back to single calls for the whole batch.
Repeat(k) ==
  /\ cmd[k].at \in {"remove", "add"} /\ cmd[k].repeats < MaxRepeats
  /\ cmd' = [cmd EXCEPT ![k] = [@ EXCEPT !.repeats = cmd[k].repeats + 1,
                                         !.todo = Batch(cmd[k])]]
  /\ UNCHANGED <<file, parsed, active, alone, edits>>

\* The removals are over.
NextBatch(k) ==
  /\ cmd[k].at = "remove" /\ cmd[k].todo = {}
  /\ cmd' = [cmd EXCEPT ![k] = [@ EXCEPT !.at = After(cmd[k].add),
                                         !.todo = cmd[k].add]]
  /\ UNCHANGED <<file, parsed, active, alone, edits>>

LastBatch(k) ==
  /\ cmd[k].at = "add" /\ cmd[k].todo = {}
  /\ cmd' = [cmd EXCEPT ![k].at = "done"]
  /\ UNCHANGED <<file, parsed, active, alone, edits>>

\* The command returns what the reread reported, and the panel says so.
Return(k) ==
  /\ cmd[k].at = "done"
  /\ cmd' = [cmd EXCEPT ![k] = Idle]
  /\ UNCHANGED <<file, parsed, active, alone, edits>>

-----------------------------------------------------------------------------
ConfigInit ==
  /\ file \in [Groups -> {None, 1}]
  /\ parsed = file /\ active = file
  /\ cmd = [k \in Clients |-> Idle]
  /\ alone = {}
  /\ edits = 1

Begins(k) ==
  servers_daemon_reload(k) \/ \E g \in Groups : Save(k, g) \/ SaveFails(k, g)
Calls(k) == \E g \in Groups : Remove(k, g) \/ Add(k, g) \/ CallFails(k, g)
Reloads(k) ==
  \/ Reread(k) \/ RereadFails(k)
  \/ Calls(k) \/ Repeat(k)
  \/ NextBatch(k) \/ LastBatch(k) \/ Return(k)

ConfigNext == \E k \in Clients : Begins(k) \/ Reloads(k)

ConfigSpec == ConfigInit /\ [][ConfigNext]_configVars

-----------------------------------------------------------------------------
(* Properties *)

Versions == [Groups -> Nat]
Commands == [at : {"idle", "reread", "remove", "add", "done"},
             remove : SUBSET Groups, add : SUBSET Groups,
             todo : SUBSET Groups, repeats : Nat]

\* Versions and commands have their types; a batch under way makes calls for
\* its own groups only, and a command between batches has none left to make.
ConfigTypeOK ==
  /\ file \in Versions /\ parsed \in Versions /\ active \in Versions
  /\ cmd \in [Clients -> Commands]
  /\ alone \subseteq Clients
  /\ edits \in Nat
  /\ \A k \in Clients : cmd[k].todo \subseteq Batch(cmd[k])

\* service.rs, reload_config: like `supervisorctl update`.  However broken or
\* interleaved what came before, and however often its batches are repeated, a
\* reload that met no failing call and no other command leaves supervisord
\* running exactly what its reread found in the files.
CleanReloadApplies ==
  \A k \in alone : cmd[k].at = "done" => active = parsed
=============================================================================
