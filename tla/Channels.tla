------------------------------ MODULE Channels ------------------------------
(***************************************************************************)
(* Notification channels: the table (store/channels.rs), the page that     *)
(* edits it (views/ChannelsView.vue) and the alerts it is matched against. *)
(*                                                                         *)
(*   page     lists the channels; the switch of a row sends the whole row  *)
(*            as it is listed with "enabled" inverted; the dialog sends    *)
(*            what it shows; each loads the list again afterwards          *)
(*   table    a SecretStore whose rows have options besides their secrets  *)
(*   alert    goes to the enabled channels whose filters let it through;   *)
(*            an empty filter lets everything through                      *)
(*                                                                         *)
(* A request is executed up to its first await when it is sent.  The dialog *)
(* is what the user saves, whatever it showed when it was opened.          *)
(***************************************************************************)
EXTENDS SecretStore

CONSTANTS Servers, AlertTypes

VARIABLES
  opts,     \* row -> what an update writes besides the secrets
  list,     \* channels: the rows as the page shows them
  step,     \* client -> "idle", "update", "load" (list asked), "answer"
  sent,     \* client -> the change under way, at most one
  rows,     \* client -> the list on its way to the page
  failed,   \* an error was shown since the page loaded its list
  wanted,   \* history: row -> what the user has asked for, successfully
  hasty     \* history: the user changed something before the page was quiet

pageVars == <<list, step, sent, rows, failed>>
channelVars == <<storeVars, opts, pageVars, wanted, hasty>>

Options == [enabled : BOOLEAN, serverIds : SUBSET Servers, alertTypes : SUBSET AlertTypes]

Live == {r \in Rows : status[r] = "live"}

\* Everything that was asked has been answered, and the answers were no errors.
Quiet == ~failed /\ \A k \in Clients : step[k] = "idle"
Hurries == hasty' = (hasty \/ ~Quiet)

Goes(k, to) == step' = [step EXCEPT ![k] = to]

-----------------------------------------------------------------------------
(* channels.rs *)

Contains(ids, id) == ids = {} \/ id \in ids

match_channels(server, type) ==
  {r \in Live : /\ opts[r].enabled
                /\ Contains(opts[r].serverIds, server)
                /\ Contains(opts[r].alertTypes, type)}

\* list(): the rows, secrets masked.
Listed == {[row |-> r, opts |-> opts[r], shown |-> Masked(stored[r])] : r \in Live}

-----------------------------------------------------------------------------
(* The page sends a change. *)

Send(k, r, patch, o, whole) ==
  /\ step[k] = "idle" /\ Fetch(k, r, patch)
  /\ sent' = [sent EXCEPT ![k] = {[opts |-> o, whole |-> whole]}]
  /\ Goes(k, "update")
  /\ UNCHANGED <<opts, list, rows, failed, wanted>>

toggleEnabled(k, e) ==
  /\ Send(k, e.row, e.shown, [e.opts EXCEPT !.enabled = ~@], FALSE)
  /\ Hurries

\* save() of an edited channel: a mask is sent only where one was shown.
Save(k, e, patch, o) ==
  /\ \A f \in Fields : patch[f] = Keep => e.shown[f] = Keep
  /\ Send(k, e.row, patch, o, TRUE)
  /\ Hurries

\* What the page does when its change was executed: load() again, unless the
\* answer is an error, for the row is read once more to be returned.
\* mutant: the list is not loaded again
StaysAsListed(k) == Goes(k, "idle") /\ UNCHANGED failed
Reloads(k) ==
  \/ Goes(k, "load") /\ UNCHANGED failed
  \/ Goes(k, "idle") /\ failed' = TRUE

AddChannel(k, r, texts, o) ==
  /\ step[k] = "idle" /\ create(r, texts)
  /\ opts' = [opts EXCEPT ![r] = o]
  /\ wanted' = [wanted EXCEPT ![r] = [texts |-> texts, opts |-> o]]
  /\ Reloads(k)
  /\ Hurries
  /\ UNCHANGED <<list, sent, rows>>

doDelete(k, e) ==
  /\ step[k] = "idle" /\ remove(e.row)
  /\ Reloads(k)
  /\ Hurries
  /\ UNCHANGED <<opts, list, sent, rows, wanted>>

-----------------------------------------------------------------------------
(* Its change is executed. *)

Wanted(r, c, s) ==
  [texts |-> IF s.whole THEN V!Applied(wanted[r].texts, c.patch) ELSE wanted[r].texts,
   opts |-> IF s.whole THEN s.opts
            ELSE [wanted[r].opts EXCEPT !.enabled = s.opts.enabled]]

Written(k) ==
  /\ \E c \in cmd[k], s \in sent[k] :
       IF status[c.row] = "live"
       THEN /\ opts' = [opts EXCEPT ![c.row] = s.opts]
            /\ wanted' = [wanted EXCEPT ![c.row] = Wanted(c.row, c, s)]
            /\ Reloads(k)
       ELSE /\ Goes(k, "idle") /\ failed' = TRUE
            /\ UNCHANGED <<opts, wanted>>
  /\ Write(k)
  /\ sent' = [sent EXCEPT ![k] = {}]
  /\ UNCHANGED <<list, rows, hasty>>

Refused(k) ==
  /\ UpdateFails(k)
  /\ sent' = [sent EXCEPT ![k] = {}]
  /\ Goes(k, "idle") /\ failed' = TRUE
  /\ UNCHANGED <<opts, list, rows, wanted, hasty>>

LoadReads(k) ==
  /\ step[k] = "load"
  /\ rows' = [rows EXCEPT ![k] = Listed]
  /\ Goes(k, "answer")
  /\ UNCHANGED <<storeVars, opts, list, sent, failed, wanted, hasty>>

LoadAnswers(k) ==
  /\ step[k] = "answer"
  /\ list' = rows[k] /\ failed' = FALSE
  /\ rows' = [rows EXCEPT ![k] = {}]
  /\ Goes(k, "idle")
  /\ UNCHANGED <<storeVars, opts, sent, wanted, hasty>>

LoadFails(k) ==
  /\ step[k] \in {"load", "answer"}
  /\ failed' = TRUE
  /\ rows' = [rows EXCEPT ![k] = {}]
  /\ Goes(k, "idle")
  /\ UNCHANGED <<storeVars, opts, list, sent, wanted, hasty>>

\* The page is opened anew; what it had asked before is answered to nobody.
\* (A page left while an update is under way is not modelled.)
OpenPage(k) ==
  /\ \A j \in Clients : step[j] # "update"
  /\ step' = [j \in Clients |-> IF j = k THEN "load" ELSE "idle"]
  /\ list' = {} /\ failed' = FALSE
  /\ rows' = [j \in Clients |-> {}]
  /\ UNCHANGED <<storeVars, opts, sent, wanted, hasty>>

\* The program, page and all, starts again.
Relaunch ==
  /\ Restart
  /\ list' = {} /\ failed' = FALSE
  /\ step' = [k \in Clients |-> "idle"]
  /\ sent' = [k \in Clients |-> {}] /\ rows' = [k \in Clients |-> {}]
  /\ UNCHANGED <<opts, wanted, hasty>>

-----------------------------------------------------------------------------
ChannelInit ==
  /\ StoreInit
  /\ opts \in [Rows -> Options]
  /\ list = {} /\ failed = FALSE /\ hasty = FALSE
  /\ step = [k \in Clients |-> "idle"]
  /\ sent = [k \in Clients |-> {}] /\ rows = [k \in Clients |-> {}]
  /\ wanted = [r \in Rows |-> [texts |-> TextsOf(stored[r]), opts |-> opts[r]]]

Asks(k) ==
  \/ OpenPage(k)
  \/ \E e \in list :
       \/ toggleEnabled(k, e) \/ doDelete(k, e)
       \/ \E patch \in Patches, o \in Options : Save(k, e, patch, o)
  \/ \E r \in Rows, texts \in Contents, o \in Options : AddChannel(k, r, texts, o)

Answer(k) == Written(k) \/ Refused(k) \/ LoadReads(k) \/ LoadAnswers(k) \/ LoadFails(k)

ChannelNext == Relaunch \/ \E k \in Clients : Asks(k) \/ Answer(k)

ChannelSpec == ChannelInit /\ [][ChannelNext]_channelVars

-----------------------------------------------------------------------------
(* Properties *)

Listings == [row : Rows, opts : Options, shown : [Fields -> {NoText, Keep}]]

\* Table, page and requests under way have their types, and a client that
\* waits for an update is one that has an update under way.
ChannelTypeOK ==
  /\ StoreTypeOK
  /\ opts \in [Rows -> Options]
  /\ list \subseteq Listings /\ rows \in [Clients -> SUBSET Listings]
  /\ step \in [Clients -> {"idle", "update", "load", "answer"}]
  /\ sent \in [Clients -> SUBSET [opts : Options, whole : BOOLEAN]]
  /\ \A k \in Clients : (step[k] = "update") = (cmd[k] # {})
  /\ wanted \in [Rows -> [texts : Contents, opts : Options]]
  /\ failed \in BOOLEAN /\ hasty \in BOOLEAN

\* ChannelsView.vue, toggleEnabled: the switch sends back the whole row as the
\* page lists it.  As long as the user waits for answers and opens the page
\* anew after an error, alerts go where the user last said, through the
\* secrets the user last entered: no switch undoes an earlier edit.
AlertsGoAsChosen ==
  ~hasty /\ mishaps = {} =>
    \A r \in Live : Updating(r) = {} =>
      /\ Revealed(key, stored[r]) = wanted[r].texts
      /\ \A s \in Servers, a \in AlertTypes :
           r \in match_channels(s, a) <=>
             /\ wanted[r].opts.enabled
             /\ wanted[r].opts.serverIds # {} => s \in wanted[r].opts.serverIds
             /\ wanted[r].opts.alertTypes # {} => a \in wanted[r].opts.alertTypes
=============================================================================
