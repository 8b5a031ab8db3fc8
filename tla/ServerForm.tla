----------------------------- MODULE ServerForm -----------------------------
(***************************************************************************)
(* The drawer that adds and edits servers (components/ServerFormDrawer.vue) *)
(* over the table of servers, a SecretStore.                               *)
(*                                                                         *)
(* There is one drawer, and one set of its variables for whatever server   *)
(* it is opened for.  test() and save() await the backend, and their       *)
(* continuations work with what the drawer holds by then.  Closing it does *)
(* not end them.  The name of a server, which no test needs, is left out;  *)
(* the other fields are those of the connection.                           *)
(*                                                                         *)
(* testState is "testing", "ok" or, for idle and fail alike, "untested".   *)
(* While it is "ok" the form is as baselineSig has it, so that any edit    *)
(* makes it "idle"; in the other states baselineSig decides whether it     *)
(* becomes "idle" or stays, and either is allowed here.  What a closed     *)
(* drawer holds is overwritten when it is opened, and is forgotten here    *)
(* unless a flow is under way that works with it.                          *)
(***************************************************************************)
EXTENDS SecretStore

CONSTANT Add    \* the drawer is open for a new server

ASSUME FormAssumption == Add \notin Rows

VARIABLES
  shown,    \* row -> its fields as the page lists it, secrets masked; at most one
  drawer,   \* modelValue, props.server, form, testState
  saving,   \* saving
  flow,     \* client -> its test() or save() under way, at most one: where it
            \*   is, what it has sent, for which server, and whether it saves
  passed,   \* history: the connection that passed a test last, at most one
  slips     \* history: "hasty", the form was changed or opened while a flow was
            \*   under way; "unread", a row could not be read and the connection
            \*   passed with its masks; "unanswered", a save was done but its
            \*   answer failed

formVars == <<shown, drawer, saving, flow, passed, slips>>
serverVars == <<storeVars, formVars>>

Ids == Rows \cup {Add}
Blank == [f \in Fields |-> NoText]

At(k, place) == \E w \in flow[k] : w.at = place
Busy == \E k \in Clients : flow[k] # {}
Acts ==
  /\ Busy => May("hasty")
  /\ slips' = slips \cup (IF Busy THEN {"hasty"} ELSE {})

\* The drawer d, closed while these clients' flows, if any, go on.
Closed == [open |-> FALSE, id |-> Add, fields |-> Blank, state |-> "untested"]
Forgotten(d, clients) ==
  IF \A k \in clients : flow[k] = {} THEN Closed ELSE [d EXCEPT !.open = FALSE]

Ends(k) == flow' = [flow EXCEPT ![k] = {}]
Moves(k, place) ==
  flow' = [flow EXCEPT ![k] = {[w EXCEPT !.at = place, !.data = Blank] : w \in @}]

-----------------------------------------------------------------------------
(* The user and the drawer. *)

\* watch(modelValue): an existing server counts as tested.
Open(id) ==
  /\ ~drawer.open
  /\ \E fields \in IF id = Add THEN {Blank} ELSE shown[id] :
       drawer' = [open |-> TRUE, id |-> id, fields |-> fields,
                  state |-> IF id = Add THEN "untested" ELSE "ok"]
  /\ Acts
  /\ UNCHANGED <<storeVars, shown, saving, flow, passed>>

Close ==
  /\ drawer.open
  /\ drawer' = Forgotten(drawer, Clients)
  /\ UNCHANGED <<storeVars, shown, saving, flow, passed, slips>>

\* mutant of StatesAfter: the result of a test stays
StillTested(state) == {state}

\* watch(connSignature): a test is void when the fields are not those it was for.
StatesAfter(state) == {"untested"} \cup ({state} \ {"ok"})

Type(f, text) ==
  /\ drawer.open /\ text # drawer.fields[f]
  /\ \E state \in StatesAfter(drawer.state) :
       drawer' = [drawer EXCEPT !.fields[f] = text, !.state = state]
  /\ Acts
  /\ UNCHANGED <<storeVars, shown, saving, flow, passed>>

\* test(), alone or as the first part of save(): the button is dead while
\* the state is "testing".
test(k, save) ==
  /\ drawer.open /\ drawer.state # "testing" /\ flow[k] = {}
  /\ save => ~saving /\ drawer.state # "ok"
  /\ drawer' = [drawer EXCEPT !.state = "testing"]
  /\ flow' = [flow EXCEPT ![k] = {[at |-> "asked", data |-> drawer.fields,
                                   id |-> drawer.id, save |-> save]}]
  /\ UNCHANGED <<storeVars, shown, saving, passed, slips>>

-----------------------------------------------------------------------------
(* The backend tests a connection. *)

\* The connection a form stands for: masks are filled in from the row.
Filled(w) == IF w.id \in Rows /\ status[w.id] = "live"
             THEN Resolved(key, stored[w.id], w.data) ELSE w.data

\* servers_test_connection, which tests masks as they are when the row cannot
\* be read; what then answers the test is out of the program's hands.
TestRuns(k) ==
  /\ At(k, "asked")
  /\ \E w \in flow[k] :
       \/ Moves(k, "passed") /\ passed' = {Filled(w)} /\ UNCHANGED slips
       \/ /\ Filled(w) # w.data /\ May("unread")
          /\ Moves(k, "passed") /\ passed' = {w.data}
          /\ slips' = slips \cup {"unread"}
       \/ Moves(k, "refused") /\ UNCHANGED <<passed, slips>>
  /\ UNCHANGED <<storeVars, shown, drawer, saving>>

-----------------------------------------------------------------------------
(* save(): the fields of the drawer go to the table. *)

\* For a row that is gone the read fails and the drawer shows the error.
Commits(k) ==
  \/ /\ drawer.id = Add
     /\ saving' = TRUE
     /\ flow' = [flow EXCEPT ![k] = {[at |-> "create", data |-> drawer.fields,
                                      id |-> Add, save |-> TRUE]}]
     /\ UNCHANGED storeVars
  \/ /\ drawer.id \in Rows /\ Fetch(k, drawer.id, drawer.fields)
     /\ saving' = TRUE
     /\ flow' = [flow EXCEPT ![k] = {[at |-> "update", data |-> drawer.fields,
                                      id |-> drawer.id, save |-> TRUE]}]
  \/ /\ drawer.id \in Rows /\ status[drawer.id] # "live"
     /\ Ends(k)
     /\ UNCHANGED <<storeVars, saving>>

SaveTested(k) ==
  /\ drawer.open /\ ~saving /\ drawer.state = "ok" /\ flow[k] = {}
  /\ Commits(k)
  /\ UNCHANGED <<shown, drawer, passed, slips>>

\* The continuation of test() and, after it, of save().
TestPassed(k) ==
  /\ At(k, "passed")
  /\ drawer' = [drawer EXCEPT !.state = "ok"]
  /\ \/ /\ \A w \in flow[k] : ~w.save
        /\ Ends(k)
        /\ UNCHANGED <<storeVars, saving>>
     \/ /\ \A w \in flow[k] : w.save
        /\ Commits(k)
  /\ UNCHANGED <<shown, passed, slips>>

TestFailed(k) ==
  /\ At(k, "refused")
  /\ drawer' = [drawer EXCEPT !.state = "untested"]
  /\ Ends(k)
  /\ UNCHANGED <<storeVars, shown, saving, passed, slips>>

\* servers_create and servers_update are executed, and answer with the row.
Created(k, r) ==
  /\ At(k, "create")
  /\ \E w \in flow[k] : create(r, w.data)
  /\ flow' = [flow EXCEPT ![k] = {[w EXCEPT !.at = "answer", !.id = r] : w \in @}]
  /\ UNCHANGED <<shown, drawer, saving, passed, slips>>

Updated(k) ==
  /\ At(k, "update") /\ Write(k)
  /\ Moves(k, "answer")
  /\ UNCHANGED <<shown, drawer, saving, passed, slips>>

\* The answer: the list has the row, and the drawer, whatever it is open for
\* by now, is closed.
Saved(k) ==
  /\ At(k, "answer")
  /\ shown' = [r \in Rows |-> IF \E w \in flow[k] : w.id = r
                              THEN {Masked(stored[r])} ELSE shown[r]]
  /\ drawer' = Forgotten(drawer, Clients \ {k})
  /\ saving' = FALSE
  /\ Ends(k)
  /\ UNCHANGED <<storeVars, passed, slips>>

\* The database refuses.
SaveFails(k) ==
  /\ \/ At(k, "update") /\ UpdateFails(k)
     \/ At(k, "create") /\ UNCHANGED storeVars
  /\ saving' = FALSE
  /\ Ends(k)
  /\ UNCHANGED <<shown, drawer, passed, slips>>

\* The row was written but cannot be read again to be returned.
SaveUnanswered(k) ==
  /\ At(k, "answer") /\ May("unanswered")
  /\ slips' = slips \cup {"unanswered"}
  /\ saving' = FALSE
  /\ Ends(k)
  /\ UNCHANGED <<storeVars, shown, drawer, passed>>

-----------------------------------------------------------------------------
\* The page's list before anything was changed.
AllShown == [r \in Rows |-> IF status[r] = "live" THEN {Masked(stored[r])} ELSE {}]

removeServer(r) ==
  /\ shown[r] # {} /\ remove(r)
  /\ shown' = [shown EXCEPT ![r] = {}]
  /\ UNCHANGED <<drawer, saving, flow, passed, slips>>

\* The program, page and all, starts again.
Reboot ==
  /\ Restart
  /\ shown' = AllShown
  /\ drawer' = Closed /\ saving' = FALSE
  /\ flow' = [k \in Clients |-> {}]
  /\ UNCHANGED <<passed, slips>>

ServerInit ==
  /\ StoreInit
  /\ shown = AllShown
  /\ drawer = Closed /\ saving = FALSE
  /\ flow = [k \in Clients |-> {}]
  /\ passed = {}
  /\ slips = {}

User ==
  \/ Close \/ \E id \in Ids : Open(id)
  \/ \E r \in Rows : removeServer(r)
  \/ \E f \in Fields, text \in Texts \cup {NoText} : Type(f, text)
  \/ \E k \in Clients : SaveTested(k) \/ \E save \in BOOLEAN : test(k, save)

Flow(k) ==
  \/ TestRuns(k) \/ TestPassed(k) \/ TestFailed(k)
  \/ Updated(k) \/ Saved(k) \/ SaveFails(k) \/ SaveUnanswered(k)
  \/ \E r \in Rows : Created(k, r)

ServerNext == Reboot \/ User \/ \E k \in Clients : Flow(k)

ServerSpec == ServerInit /\ [][ServerNext]_serverVars

-----------------------------------------------------------------------------
(* Properties *)

Steps == {"asked", "passed", "refused", "create", "update", "answer"}
Slips == {"hasty", "unread", "unanswered"}

\* The drawer and its flows have their types; an update is under way in the
\* table exactly for a flow that waits for one; fields of a new server are
\* never masks.
FormTypeOK ==
  /\ StoreTypeOK
  /\ shown \in [Rows -> SUBSET [Fields -> {NoText, Keep}]]
  /\ drawer \in [open : BOOLEAN, id : Ids, fields : Patches,
                 state : {"untested", "testing", "ok"}]
  /\ drawer.id = Add => drawer.fields \in Contents
  /\ flow \in [Clients -> SUBSET [at : Steps, data : Patches, id : Ids, save : BOOLEAN]]
  /\ \A k \in Clients : At(k, "update") = (cmd[k] # {})
  /\ saving \in BOOLEAN /\ passed \subseteq Patches /\ slips \subseteq Slips

\* ServerFormDrawer.vue: "Validate the connection first; only save if it
\* passes."  A server is added or changed only to the connection, masks filled
\* in, that passed the last test, however drawers were opened, edited, tested,
\* saved or closed and whatever was refused, unless the form was edited or
\* opened while a test or save was under way, a test passed with masks for
\* secrets, or after a save whose answer failed.
StoredWasTested ==
  [][ slips = {} /\ mishaps = {} =>
        \A r \in Rows : status'[r] = "live" =>
          \/ status[r] = "live" /\ TextsOf(stored[r])' = TextsOf(stored[r])
          \/ TextsOf(stored[r])' \in passed ]_serverVars
=============================================================================
