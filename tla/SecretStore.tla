----------------------------- MODULE SecretStore -----------------------------
(***************************************************************************)
(* Rows with secrets (store/servers.rs; store/channels.rs treats its secret *)
(* keys alike) and the key they are encrypted with (crypto.rs).            *)
(*                                                                         *)
(*   update   reads the row, awaits, and writes the whole row: a field that *)
(*            comes back masked keeps the ciphertext that was read, a text *)
(*            is encrypted, an empty field is stored empty                 *)
(*   load     at start: the key of the environment, else the key file, else *)
(*            a new key, whose file may fail to be written                 *)
(*                                                                         *)
(* A secret is stored as the pair of the key it is encrypted with and its  *)
(* text; the key Clear stands for a text stored as it is, which is what    *)
(* rows of the program's predecessor hold.  An absent field is an empty    *)
(* one.  A key file that is missing, cannot be read or holds no key is     *)
(* NoKey: load() does not tell them apart.                                 *)
(***************************************************************************)
EXTENDS Naturals

CONSTANTS
  Rows,       \* ids of rows; an id is given once
  Fields,     \* secret fields of a row
  Texts,      \* texts a user enters; none begins with the tag of ciphertexts
  NoText,     \* the empty text
  Keep,       \* MASK
  Clients,    \* updates that may be under way
  MaxEdits,   \* bound: creates and updates
  MaxStarts,  \* bound: restarts of the program
  Faults      \* which may happen: "overlap", "rekeyed", "unsaved"; and, to the
              \*   form of servers, "hasty", "unread", "unanswered"

ASSUME StoreAssumption ==
  /\ MaxEdits \in Nat /\ MaxStarts \in Nat
  /\ NoText \notin Texts /\ Keep \notin Texts /\ Keep # NoText

VARIABLES
  status,   \* row -> "new", "live" or "gone"
  stored,   \* row -> field -> what its column holds
  cmd,      \* client -> its update between the read and the write, at most one:
            \*   the row, the patch, and the fields as they were read
  env,      \* key of HELMIO_SECRET_KEY, or NoKey
  file,     \* key in .secret-key, or NoKey
  key,      \* key of the running program
  edits,    \* creates and updates so far
  starts,   \* restarts so far
  mishaps   \* history: which of Faults have happened

storeVars == <<status, stored, cmd, env, file, key, edits, starts, mishaps>>

NoKey == 0
Clear == 0      \* no key: the column holds the text itself
EnvKey == 1     \* SHA-256 of the variable
FirstKey == 2   \* keys that are generated are numbered from here

Keys == Nat \ {NoKey}
Nothing == [key |-> Clear, text |-> NoText]
Stored == [key : Nat, text : Texts \cup {NoText}]
Contents == [Fields -> Texts \cup {NoText}]
Patches == [Fields -> Texts \cup {NoText, Keep}]

May(fault) == fault \in Faults

-----------------------------------------------------------------------------
(* crypto.rs *)

Encrypt(k, text) ==
  IF text = NoText THEN Nothing ELSE [key |-> k, text |-> text]

\* Text stored in the clear is returned as it is; what was encrypted with
\* another key reads as empty.
Decrypt(k, s) == IF s.key \in {Clear, k} THEN s.text ELSE NoText

\* mutant: the file is written but not read
LoadAfresh(e, f, new, k, g) ==
  \/ e # NoKey /\ k = e /\ g = f
  \/ e = NoKey /\ k = new /\ g = new

\* SecretBox::load with variable e and file f leaves key k and file g; new is
\* a key nobody has used.
Load(e, f, new, k, g) ==
  \/ e # NoKey /\ k = e /\ g = f
  \/ e = NoKey /\ f # NoKey /\ k = f /\ g = f
  \/ e = NoKey /\ f = NoKey /\ k = new /\ g = new
  \/ e = NoKey /\ f = NoKey /\ k = new /\ g = NoKey /\ May("unsaved")

-----------------------------------------------------------------------------
(* servers.rs *)

\* mutant of update: a masked field is taken for an empty one
PatchedBlank(k, old, patch) ==
  [f \in Fields |-> IF patch[f] = Keep THEN Nothing ELSE Encrypt(k, patch[f])]

\* The columns an update writes.
Patched(k, old, patch) ==
  [f \in Fields |-> IF patch[f] = Keep THEN old[f] ELSE Encrypt(k, patch[f])]

\* The row as connectors get it, and as the page gets it.
Revealed(k, row) == [f \in Fields |-> Decrypt(k, row[f])]

Masked(row) == [f \in Fields |-> IF row[f] = Nothing THEN NoText ELSE Keep]

\* resolve_secrets: a form to be tested, with its masks filled from the row.
Resolved(k, row, patch) ==
  [f \in Fields |-> IF patch[f] = Keep THEN Decrypt(k, row[f]) ELSE patch[f]]

create(r, texts) ==
  /\ status[r] = "new" /\ edits < MaxEdits
  /\ status' = [status EXCEPT ![r] = "live"]
  /\ stored' = [stored EXCEPT ![r] = [f \in Fields |-> Encrypt(key, texts[f])]]
  /\ edits' = edits + 1
  /\ UNCHANGED <<cmd, env, file, key, starts, mishaps>>

Updating(r) == {k \in Clients : \E c \in cmd[k] : c.row = r}

\* update() up to its await.  Overlapping updates of a row are a mishap.
Fetch(k, r, patch) ==
  /\ cmd[k] = {} /\ status[r] = "live" /\ edits < MaxEdits
  /\ Updating(r) # {} => May("overlap")
  /\ cmd' = [cmd EXCEPT ![k] = {[row |-> r, patch |-> patch, old |-> stored[r]]}]
  /\ edits' = edits + 1
  /\ mishaps' = mishaps \cup (IF Updating(r) = {} THEN {} ELSE {"overlap"})
  /\ UNCHANGED <<status, stored, env, file, key, starts>>

\* The rest of update(): the statement changes no row when it has been removed.
Write(k) ==
  /\ \E c \in cmd[k] :
       stored' = [stored EXCEPT ![c.row] =
         IF status[c.row] = "live" THEN Patched(key, c.old, c.patch) ELSE @]
  /\ cmd' = [cmd EXCEPT ![k] = {}]
  /\ UNCHANGED <<status, env, file, key, edits, starts, mishaps>>

\* The database refuses the read or the write.
UpdateFails(k) ==
  /\ cmd[k] # {}
  /\ cmd' = [cmd EXCEPT ![k] = {}]
  /\ UNCHANGED <<status, stored, env, file, key, edits, starts, mishaps>>

remove(r) ==
  /\ status[r] = "live"
  /\ status' = [status EXCEPT ![r] = "gone"]
  /\ UNCHANGED <<stored, cmd, env, file, key, edits, starts, mishaps>>

-----------------------------------------------------------------------------
(* The program ends, at any moment, and starts again.  Meanwhile the variable *)
(* may have been set or unset, and the key file damaged or lost.              *)

Restart ==
  /\ starts < MaxStarts
  /\ starts' = starts + 1
  /\ \E e \in {NoKey, EnvKey}, f \in {file, NoKey} :
       /\ <<e, f>> # <<env, file>> => May("rekeyed")
       /\ env' = e
       /\ Load(e, f, FirstKey + starts + 1, key', file')
       /\ mishaps' = mishaps
            \cup (IF <<e, f>> # <<env, file>> THEN {"rekeyed"} ELSE {})
            \cup (IF env' = NoKey /\ file' = NoKey THEN {"unsaved"} ELSE {})
  /\ cmd' = [k \in Clients |-> {}]
  /\ UNCHANGED <<status, stored, edits>>

StoreInit ==
  /\ status \in [Rows -> {"new", "live"}]
  /\ stored \in [Rows -> [Fields -> {[key |-> Clear, text |-> t] :
                                        t \in Texts \cup {NoText}}]]
  /\ cmd = [k \in Clients |-> {}]
  /\ env \in {NoKey, EnvKey}
  /\ Load(env, NoKey, FirstKey, key, file)
  /\ edits = 0 /\ starts = 0
  /\ mishaps = IF env = NoKey /\ file = NoKey THEN {"unsaved"} ELSE {}

StoreNext ==
  \/ \E r \in Rows : remove(r) \/ \E texts \in Contents : create(r, texts)
  \/ \E k \in Clients :
       \/ Write(k) \/ UpdateFails(k)
       \/ \E r \in Rows, patch \in Patches : Fetch(k, r, patch)
  \/ Restart

StoreSpec == StoreInit /\ [][StoreNext]_storeVars

-----------------------------------------------------------------------------
(* Properties *)

Updates == [row : Rows, patch : Patches, old : [Fields -> Stored]]

\* Columns, keys and updates under way have their types; a client has at most
\* one update under way, and the running program has a key.
StoreTypeOK ==
  /\ status \in [Rows -> {"new", "live", "gone"}]
  /\ stored \in [Rows -> [Fields -> Stored]]
  /\ cmd \in [Clients -> SUBSET Updates]
  /\ \A k \in Clients : \A c, d \in cmd[k] : c = d
  /\ env \in Nat /\ file \in Nat /\ key \in Keys
  /\ edits \in Nat /\ starts \in Nat
  /\ mishaps \subseteq {"overlap", "rekeyed", "unsaved"}

\* crypto.rs, load: every secret stored now can be read after a restart,
\* however often the program has been restarted and rows rewritten, unless the
\* variable or the file was changed by others or the file was never written.
SecretsOutliveRestart ==
  mishaps \cap {"rekeyed", "unsaved"} = {} =>
    /\ key = IF env # NoKey THEN env ELSE file
    /\ \A r \in Rows : \A f \in Fields :
         Decrypt(key, stored[r][f]) = stored[r][f].text

\* The rows as the vault has them: ciphertexts replaced by their texts.
TextsOf(row) == [f \in Fields |-> row[f].text]
V == INSTANCE Vault WITH
       kept <- [r \in Rows |-> TextsOf(stored[r])],
       asked <- [k \in Clients |->
                   {[row |-> c.row, patch |-> c.patch] : c \in cmd[k]}]

\* servers.rs, update: masked fields keep their value, entered ones replace it,
\* at one moment and whatever happens to the key, as long as no two updates of
\* one row overlap: the store implements the vault.
ImplementsVault == V!VaultSpec
=============================================================================
