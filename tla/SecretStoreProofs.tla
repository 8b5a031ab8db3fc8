-------------------------- MODULE SecretStoreProofs --------------------------
(***************************************************************************)
(* Theorems about SecretStore and its two users, ServerForm and Channels,  *)
(* for any rows, fields, texts, clients and bounds.                        *)
(*                                                                         *)
(*   table     its types, that no start of the program loses a secret, and *)
(*             that it implements the vault as long as updates of one row  *)
(*             do not overlap (Apart)                                      *)
(*   drawer    uses the table as it may be used, so what is proved of the  *)
(*             table holds with it; and only what was tested is stored     *)
(*   channels  likewise; and alerts go as the user last said               *)
(***************************************************************************)
EXTENDS ServerForm, Channels, TLAPS

-----------------------------------------------------------------------------
(* Types *)

\* What is written into a column is a column's content.
LEMMA EncryptType ==
  ASSUME NEW k \in Nat, NEW text \in Texts \cup {NoText}
  PROVE  Encrypt(k, text) \in Stored
BY DEF Encrypt, Stored, Nothing, Clear

LEMMA PatchedType ==
  ASSUME NEW k \in Nat, NEW old \in [Fields -> Stored], NEW patch \in Patches
  PROVE  Patched(k, old, patch) \in [Fields -> Stored]
<1> SUFFICES ASSUME NEW f \in Fields
             PROVE  (IF patch[f] = Keep THEN old[f] ELSE Encrypt(k, patch[f])) \in Stored
    BY DEF Patched
<1>1. CASE patch[f] = Keep
    BY <1>1
<1>2. CASE patch[f] # Keep
  <2>1. patch[f] \in Texts \cup {NoText}
      BY <1>2 DEF Patches
  <2> QED BY <1>2, <2>1, EncryptType
<1> QED BY <1>1, <1>2

\* A start leaves the program with a key, whichever way it gets one.
LEMMA LoadType ==
  ASSUME NEW e \in Nat, NEW f \in Nat, NEW new \in Keys, NEW k, NEW g, Load(e, f, new, k, g)
  PROVE  k \in Keys /\ g \in Nat
BY DEF Load, Keys, NoKey

LEMMA NewKey ==
  ASSUME NEW n \in Nat
  PROVE  FirstKey \in Keys /\ FirstKey + n + 1 \in Keys
BY DEF FirstKey, Keys, NoKey

THEOREM StoreTypeStep ==
  ASSUME StoreTypeOK, [StoreNext]_storeVars
  PROVE  StoreTypeOK'
<1> USE StoreAssumption DEF StoreTypeOK
<1>1. ASSUME NEW r \in Rows, remove(r)
      PROVE  StoreTypeOK'
    BY <1>1 DEF remove
<1>2. ASSUME NEW r \in Rows, NEW texts \in Contents, create(r, texts)
      PROVE  StoreTypeOK'
  <2>1. [f \in Fields |-> Encrypt(key, texts[f])] \in [Fields -> Stored]
    <3> SUFFICES ASSUME NEW f \in Fields
                 PROVE  Encrypt(key, texts[f]) \in Stored
        OBVIOUS
    <3>1. texts[f] \in Texts \cup {NoText}
        BY DEF Contents
    <3>2. key \in Nat
        BY DEF Keys
    <3> QED BY <3>1, <3>2, EncryptType
  <2>2. stored' \in [Rows -> [Fields -> Stored]]
      BY <1>2, <2>1 DEF create
  <2> QED BY <1>2, <2>2 DEF create
<1>3. ASSUME NEW k \in Clients, Write(k)
      PROVE  StoreTypeOK'
  <2>1. PICK c \in cmd[k] :
          stored' = [stored EXCEPT ![c.row] =
            IF status[c.row] = "live" THEN Patched(key, c.old, c.patch) ELSE @]
      BY <1>3 DEF Write
  <2>2. c.row \in Rows /\ c.patch \in Patches /\ c.old \in [Fields -> Stored]
      BY DEF Updates
  <2>3. key \in Nat
      BY DEF Keys
  <2>4. Patched(key, c.old, c.patch) \in [Fields -> Stored]
      BY <2>2, <2>3, PatchedType
  <2>5. stored' \in [Rows -> [Fields -> Stored]]
      BY <2>1, <2>2, <2>4
  <2>6. cmd' \in [Clients -> SUBSET Updates] /\ \A j \in Clients : \A a, b \in cmd'[j] : a = b
      BY <1>3 DEF Write
  <2> QED BY <1>3, <2>5, <2>6 DEF Write
<1>4. ASSUME NEW k \in Clients, UpdateFails(k)
      PROVE  StoreTypeOK'
    BY <1>4 DEF UpdateFails
<1>5. ASSUME NEW k \in Clients, NEW r \in Rows, NEW patch \in Patches, Fetch(k, r, patch)
      PROVE  StoreTypeOK'
  <2>1. [row |-> r, patch |-> patch, old |-> stored[r]] \in Updates
      BY DEF Updates
  <2>2. cmd' \in [Clients -> SUBSET Updates] /\ \A j \in Clients : \A a, b \in cmd'[j] : a = b
      BY <1>5, <2>1 DEF Fetch
  <2> QED BY <1>5, <2>2 DEF Fetch
<1>6. CASE Restart
  <2>1. PICK e \in {NoKey, EnvKey}, f \in {file, NoKey} :
          /\ env' = e
          /\ Load(e, f, FirstKey + starts + 1, key', file')
          /\ mishaps' = mishaps
               \cup (IF <<e, f>> # <<env, file>> THEN {"rekeyed"} ELSE {})
               \cup (IF env' = NoKey /\ file' = NoKey THEN {"unsaved"} ELSE {})
      BY <1>6 DEF Restart
  <2>2. e \in Nat /\ f \in Nat
      BY DEF NoKey, EnvKey
  <2>3. key' \in Keys /\ file' \in Nat
      BY <2>1, <2>2, LoadType, NewKey
  <2>4. mishaps' \subseteq {"overlap", "rekeyed", "unsaved"}
      BY <2>1
  <2> QED BY <1>6, <2>1, <2>2, <2>3, <2>4 DEF Restart
<1>7. CASE UNCHANGED storeVars
    BY <1>7 DEF storeVars
<1> QED BY <1>1, <1>2, <1>3, <1>4, <1>5, <1>6, <1>7 DEF StoreNext

LEMMA StoreTypeInit ==
  StoreInit => StoreTypeOK
<1> SUFFICES ASSUME StoreInit PROVE StoreTypeOK
    OBVIOUS
<1>1. env \in Nat /\ NoKey \in Nat
    BY DEF StoreInit, NoKey, EnvKey
<1>2. key \in Keys /\ file \in Nat
    BY <1>1, LoadType, NewKey DEF StoreInit
<1>3. {[key |-> Clear, text |-> t] : t \in Texts \cup {NoText}} \subseteq Stored
    BY DEF Stored, Clear
<1>4. stored \in [Rows -> [Fields -> Stored]]
    BY <1>3 DEF StoreInit
<1> QED BY <1>1, <1>2, <1>4 DEF StoreInit, StoreTypeOK

\* Columns, keys and updates under way have their types in every behaviour.
THEOREM StoreTypeCorrect ==
  StoreSpec => []StoreTypeOK
BY StoreTypeInit, StoreTypeStep, PTL DEF StoreSpec

-----------------------------------------------------------------------------
(* No start loses a secret.  What is inductive speaks of updates under way as *)
(* well: the columns they have read are written back later.                *)

Undisturbed == mishaps \cap {"rekeyed", "unsaved"} = {}

Readable(row) == \A f \in Fields : Decrypt(key, row[f]) = row[f].text

Kept ==
  Undisturbed =>
    /\ key = IF env # NoKey THEN env ELSE file
    /\ \A r \in Rows : Readable(stored[r])
    /\ \A k \in Clients : \A c \in cmd[k] : Readable(c.old)

\* What was encrypted can be read with the same key.
LEMMA DecryptEncrypt ==
  ASSUME NEW k \in Keys, NEW text \in Texts \cup {NoText}
  PROVE  Decrypt(k, Encrypt(k, text)) = Encrypt(k, text).text
BY DEF Decrypt, Encrypt, Nothing, Clear, Keys, NoKey

LEMMA PatchedReadable ==
  ASSUME key \in Keys, NEW old, Readable(old), NEW patch \in Patches
  PROVE  Readable(Patched(key, old, patch))
<1> SUFFICES ASSUME NEW f \in Fields
             PROVE  Decrypt(key, Patched(key, old, patch)[f]) = Patched(key, old, patch)[f].text
    BY DEF Readable
<1>1. Patched(key, old, patch)[f] = IF patch[f] = Keep THEN old[f] ELSE Encrypt(key, patch[f])
    BY DEF Patched
<1>2. CASE patch[f] = Keep
    BY <1>1, <1>2 DEF Readable
<1>3. CASE patch[f] # Keep
  <2>1. patch[f] \in Texts \cup {NoText}
      BY <1>3 DEF Patches
  <2> QED BY <1>1, <1>3, <2>1, DecryptEncrypt
<1> QED BY <1>2, <1>3

\* A step that leaves key, columns and mishaps alone, and no new update under
\* way but with columns as they are.
LEMMA KeptFrame ==
  ASSUME Kept, UNCHANGED <<stored, key, env, file>>, mishaps \subseteq mishaps',
         \A k \in Clients : \A c \in cmd'[k] :
           c \in cmd[k] \/ \E r \in Rows : c.old = stored[r]
  PROVE  Kept'
<1> SUFFICES ASSUME Undisturbed'
             PROVE  /\ key' = IF env' # NoKey THEN env' ELSE file'
                    /\ \A r \in Rows : Readable(stored[r])'
                    /\ \A k \in Clients : \A c \in cmd'[k] : Readable(c.old)'
    BY DEF Kept
<1>1. Undisturbed
    BY DEF Undisturbed
<1>2. \A r \in Rows : Readable(stored[r])'
    BY <1>1 DEF Kept, Readable
<1>3. ASSUME NEW k \in Clients, NEW c \in cmd'[k]
      PROVE  Readable(c.old)'
  <2>1. Readable(c.old)
      BY <1>1 DEF Kept
  <2> QED BY <2>1 DEF Readable
<1>4. key' = IF env' # NoKey THEN env' ELSE file'
    BY <1>1 DEF Kept
<1> QED BY <1>2, <1>3, <1>4

LEMMA RestartKeeps ==
  ASSUME StoreTypeOK, Kept, Restart
  PROVE  Kept'
<1>1. PICK e \in {NoKey, EnvKey}, f \in {file, NoKey} :
        /\ env' = e
        /\ Load(e, f, FirstKey + starts + 1, key', file')
        /\ mishaps' = mishaps
             \cup (IF <<e, f>> # <<env, file>> THEN {"rekeyed"} ELSE {})
             \cup (IF env' = NoKey /\ file' = NoKey THEN {"unsaved"} ELSE {})
    BY DEF Restart
<1> SUFFICES ASSUME Undisturbed'
             PROVE  /\ key' = IF env' # NoKey THEN env' ELSE file'
                    /\ \A r \in Rows : Readable(stored[r])'
                    /\ \A k \in Clients : \A c \in cmd'[k] : Readable(c.old)'
    BY DEF Kept
<1>2. Undisturbed /\ e = env /\ f = file
    BY <1>1 DEF Undisturbed
<1>3. key = IF env # NoKey THEN env ELSE file
    BY <1>2 DEF Kept
<1>4. key # NoKey
    BY DEF StoreTypeOK, Keys
<1>5. key' = key /\ env' = env /\ file' = file
    BY <1>1, <1>2, <1>3, <1>4 DEF Load
<1>6. \A r \in Rows : Readable(stored[r])'
    BY <1>2, <1>5 DEF Kept, Readable, Restart
<1>7. \A k \in Clients : cmd'[k] = {}
    BY DEF Restart
<1> QED BY <1>3, <1>5, <1>6, <1>7

LEMMA WriteKeeps ==
  ASSUME StoreTypeOK, Kept, NEW k \in Clients, Write(k)
  PROVE  Kept'
<1>1. PICK c \in cmd[k] :
        stored' = [stored EXCEPT ![c.row] =
          IF status[c.row] = "live" THEN Patched(key, c.old, c.patch) ELSE @]
    BY DEF Write
<1>2. UNCHANGED <<env, file, key, mishaps>> /\ \A j \in Clients : cmd'[j] \subseteq cmd[j]
    BY DEF Write, StoreTypeOK
<1> SUFFICES ASSUME Undisturbed'
             PROVE  /\ key' = IF env' # NoKey THEN env' ELSE file'
                    /\ \A r \in Rows : Readable(stored[r])'
                    /\ \A j \in Clients : \A d \in cmd'[j] : Readable(d.old)'
    BY DEF Kept
<1>3. Undisturbed
    BY <1>2 DEF Undisturbed
<1>4. Readable(Patched(key, c.old, c.patch))
  <2>1. Readable(c.old)
      BY <1>3 DEF Kept
  <2>2. c.patch \in Patches /\ key \in Keys
      BY DEF StoreTypeOK, Updates
  <2> QED BY <2>1, <2>2, PatchedReadable
<1>5. ASSUME NEW r \in Rows
      PROVE  Readable(stored[r])'
  <2>1. stored'[r] = stored[r] \/ stored'[r] = Patched(key, c.old, c.patch)
      BY <1>1 DEF StoreTypeOK
  <2>2. Readable(stored[r])
      BY <1>3 DEF Kept
  <2> QED BY <1>2, <1>4, <2>1, <2>2 DEF Readable
<1>6. ASSUME NEW j \in Clients, NEW d \in cmd'[j]
      PROVE  Readable(d.old)'
  <2>1. Readable(d.old)
      BY <1>2, <1>3 DEF Kept
  <2> QED BY <1>2, <2>1 DEF Readable
<1> QED BY <1>2, <1>3, <1>5, <1>6 DEF Kept

LEMMA CreateKeeps ==
  ASSUME StoreTypeOK, Kept, NEW r \in Rows, NEW texts \in Contents, create(r, texts)
  PROVE  Kept'
<1>1. UNCHANGED <<cmd, env, file, key, mishaps>>
    BY DEF create
<1> SUFFICES ASSUME Undisturbed'
             PROVE  /\ key' = IF env' # NoKey THEN env' ELSE file'
                    /\ \A q \in Rows : Readable(stored[q])'
                    /\ \A j \in Clients : \A d \in cmd'[j] : Readable(d.old)'
    BY DEF Kept
<1>2. Undisturbed
    BY <1>1 DEF Undisturbed
<1>3. ASSUME NEW q \in Rows
      PROVE  Readable(stored[q])'
  <2> SUFFICES ASSUME NEW f \in Fields
               PROVE  Decrypt(key, stored'[q][f]) = stored'[q][f].text
      BY <1>1 DEF Readable
  <2>1. CASE q = r
    <3>1. stored'[q][f] = Encrypt(key, texts[f])
        BY <2>1 DEF create, StoreTypeOK
    <3>2. texts[f] \in Texts \cup {NoText} /\ key \in Keys
        BY DEF Contents, StoreTypeOK
    <3> QED BY <3>1, <3>2, DecryptEncrypt
  <2>2. CASE q # r
    <3>1. stored'[q] = stored[q]
        BY <2>2 DEF create, StoreTypeOK
    <3> QED BY <1>2, <3>1 DEF Kept, Readable
  <2> QED BY <2>1, <2>2
<1>4. \A j \in Clients : \A d \in cmd'[j] : Readable(d.old)'
    BY <1>1, <1>2 DEF Kept, Readable
<1> QED BY <1>1, <1>2, <1>3, <1>4 DEF Kept

LEMMA KeptStep ==
  ASSUME StoreTypeOK, Kept, [StoreNext]_storeVars
  PROVE  Kept'
<1>1. ASSUME NEW r \in Rows, remove(r)
      PROVE  Kept'
    BY <1>1, KeptFrame DEF remove
<1>2. ASSUME NEW k \in Clients, UpdateFails(k)
      PROVE  Kept'
  <2>1. \A j \in Clients : cmd'[j] \subseteq cmd[j]
      BY <1>2 DEF UpdateFails, StoreTypeOK
  <2> QED BY <1>2, <2>1, KeptFrame DEF UpdateFails
<1>3. ASSUME NEW k \in Clients, NEW r \in Rows, NEW patch \in Patches, Fetch(k, r, patch)
      PROVE  Kept'
  <2>1. \A j \in Clients : \A c \in cmd'[j] : c \in cmd[j] \/ c.old = stored[r]
      BY <1>3 DEF Fetch, StoreTypeOK
  <2> QED BY <1>3, <2>1, KeptFrame DEF Fetch
<1>4. CASE UNCHANGED storeVars
    BY <1>4, KeptFrame DEF storeVars
<1> QED BY <1>1, <1>2, <1>3, <1>4, RestartKeeps, WriteKeeps, CreateKeeps DEF StoreNext

LEMMA KeptInit ==
  StoreInit => Kept
<1> SUFFICES ASSUME StoreInit, Undisturbed
             PROVE  /\ key = IF env # NoKey THEN env ELSE file
                    /\ \A r \in Rows : Readable(stored[r])
                    /\ \A k \in Clients : \A c \in cmd[k] : Readable(c.old)
    BY DEF Kept
<1>1. env # NoKey \/ file # NoKey
    BY DEF StoreInit, Undisturbed
<1>2. key = IF env # NoKey THEN env ELSE file
    BY <1>1 DEF StoreInit, Load
<1>3. \A r \in Rows : Readable(stored[r])
    BY DEF StoreInit, Readable, Decrypt
<1> QED BY <1>2, <1>3 DEF StoreInit

\* crypto.rs, load: every secret can be read after any number of restarts and
\* updates, unless the variable or the key file was changed by others or the
\* file was never written.
THEOREM SecretsSurvive ==
  StoreSpec => []SecretsOutliveRestart
<1>1. StoreInit => Kept
    BY KeptInit
<1>2. StoreTypeOK /\ Kept /\ [StoreNext]_storeVars => Kept'
    BY KeptStep
<1>3. Kept => SecretsOutliveRestart
    BY DEF Kept, Undisturbed, Readable, SecretsOutliveRestart
<1> QED BY <1>1, <1>2, <1>3, StoreTypeCorrect, PTL DEF StoreSpec

-----------------------------------------------------------------------------
(* The store implements the vault when no two updates of a row overlap: then *)
(* what an update has read is still in the row when it writes.             *)

KeptBar == [r \in Rows |-> TextsOf(stored[r])]
AskedBar == [k \in Clients |-> {[row |-> c.row, patch |-> c.patch] : c \in cmd[k]}]

Exclusive ==
  \A k \in Clients : \A c \in cmd[k] :
    /\ Updating(c.row) = {k}
    /\ status[c.row] # "new"
    /\ status[c.row] = "live" => c.old = stored[c.row]

LEMMA ExclusiveStep ==
  ASSUME "overlap" \notin mishaps', StoreTypeOK, Exclusive, [StoreNext]_storeVars
  PROVE  Exclusive'
<1>1. ASSUME NEW r \in Rows, remove(r)
      PROVE  Exclusive'
    BY <1>1 DEF remove, Exclusive, Updating, StoreTypeOK
<1>2. ASSUME NEW r \in Rows, NEW texts \in Contents, create(r, texts)
      PROVE  Exclusive'
  <2> SUFFICES ASSUME NEW k \in Clients, NEW c \in cmd[k]
               PROVE  /\ Updating(c.row) = {k}
                      /\ status'[c.row] # "new"
                      /\ status'[c.row] = "live" => c.old = stored'[c.row]
      BY <1>2 DEF create, Exclusive, Updating
  <2>1. c.row \in Rows /\ c.row # r
      BY <1>2 DEF create, Exclusive, StoreTypeOK, Updates
  <2> QED BY <1>2, <2>1 DEF create, Exclusive, StoreTypeOK
<1>3. ASSUME NEW k \in Clients, Write(k)
      PROVE  Exclusive'
  <2>1. PICK w \in cmd[k] :
          stored' = [stored EXCEPT ![w.row] =
            IF status[w.row] = "live" THEN Patched(key, w.old, w.patch) ELSE @]
      BY <1>3 DEF Write
  <2>2. cmd'[k] = {} /\ (\A j \in Clients : j # k => cmd'[j] = cmd[j]) /\ status' = status
      BY <1>3 DEF Write, StoreTypeOK
  <2> SUFFICES ASSUME NEW j \in Clients, NEW c \in cmd'[j]
               PROVE  /\ Updating(c.row)' = {j}
                      /\ status[c.row] # "new"
                      /\ status[c.row] = "live" => c.old = stored'[c.row]
      BY <2>2 DEF Exclusive
  <2>3. j # k /\ c \in cmd[j]
      BY <2>2
  <2>4. Updating(c.row) = {j}
      BY <2>3 DEF Exclusive
  <2>5. w.row # c.row
      BY <2>3, <2>4 DEF Updating
  <2>6. stored'[c.row] = stored[c.row]
      BY <2>1, <2>3, <2>5 DEF StoreTypeOK, Updates
  <2>7. Updating(c.row)' = {j}
      BY <2>2, <2>3, <2>4 DEF Updating
  <2> QED BY <2>3, <2>6, <2>7 DEF Exclusive
<1>4. ASSUME NEW k \in Clients, UpdateFails(k)
      PROVE  Exclusive'
  <2>1. cmd'[k] = {} /\ (\A j \in Clients : j # k => cmd'[j] = cmd[j]) /\ UNCHANGED <<status, stored>>
      BY <1>4 DEF UpdateFails, StoreTypeOK
  <2> SUFFICES ASSUME NEW j \in Clients, NEW c \in cmd'[j]
               PROVE  /\ Updating(c.row)' = {j}
                      /\ status[c.row] # "new"
                      /\ status[c.row] = "live" => c.old = stored[c.row]
      BY <2>1 DEF Exclusive
  <2>2. j # k /\ c \in cmd[j]
      BY <2>1
  <2>3. Updating(c.row)' = {j}
      BY <2>1, <2>2 DEF Updating, Exclusive
  <2> QED BY <2>2, <2>3 DEF Exclusive
<1>5. ASSUME NEW k \in Clients, NEW r \in Rows, NEW patch \in Patches, Fetch(k, r, patch)
      PROVE  Exclusive'
  <2>1. Updating(r) = {} /\ status[r] = "live" /\ cmd[k] = {}
      BY <1>5 DEF Fetch
  <2>2. /\ cmd'[k] = {[row |-> r, patch |-> patch, old |-> stored[r]]}
        /\ \A j \in Clients : j # k => cmd'[j] = cmd[j]
        /\ UNCHANGED <<status, stored>>
      BY <1>5 DEF Fetch, StoreTypeOK
  <2>3. ASSUME NEW q \in Rows
        PROVE  Updating(q)' = IF q = r THEN {k} ELSE Updating(q)
    <3>1. \A c \in cmd'[k] : c.row = r
        BY <2>2
    <3>2. \E c \in cmd'[k] : c.row = r
        BY <2>2
    <3>3. \A j \in Clients : j # k => cmd'[j] = cmd[j]
        BY <2>2
    <3>4. k \in Updating(q)' <=> q = r
        BY <3>1, <3>2 DEF Updating
    <3>5. ASSUME NEW j \in Clients, j # k
          PROVE  j \in Updating(q)' <=> j \in Updating(q)
        BY <3>3, <3>5 DEF Updating
    <3>6. k \notin Updating(q)
        BY <2>1 DEF Updating
    <3>7. Updating(q)' \subseteq Clients /\ Updating(q) \subseteq Clients
        BY DEF Updating
    <3>8. CASE q = r
        BY <2>1, <3>4, <3>5, <3>7, <3>8
    <3>9. CASE q # r
        BY <3>4, <3>5, <3>6, <3>7, <3>9
    <3> QED BY <3>8, <3>9
  <2> SUFFICES ASSUME NEW j \in Clients, NEW c \in cmd'[j]
               PROVE  /\ Updating(c.row)' = {j}
                      /\ status[c.row] # "new"
                      /\ status[c.row] = "live" => c.old = stored[c.row]
      BY <2>2 DEF Exclusive
  <2>4. CASE j = k
    <3>1. c = [row |-> r, patch |-> patch, old |-> stored[r]]
        BY <2>2, <2>4
    <3> QED BY <2>1, <2>3, <2>4, <3>1
  <2>5. CASE j # k
    <3>1. c \in cmd[j] /\ c.row \in Rows
        BY <2>2, <2>5 DEF StoreTypeOK, Updates
    <3>2. c.row # r
        BY <2>1, <3>1 DEF Updating
    <3> QED BY <2>3, <3>1, <3>2 DEF Exclusive
  <2> QED BY <2>4, <2>5
<1>6. CASE Restart
  <2>1. \A k \in Clients : cmd'[k] = {}
      BY <1>6 DEF Restart
  <2> QED BY <2>1 DEF Exclusive
<1>7. CASE UNCHANGED storeVars
    BY <1>7 DEF storeVars, Exclusive, Updating
<1> QED BY <1>1, <1>2, <1>3, <1>4, <1>5, <1>6, <1>7 DEF StoreNext

\* No two updates of a row have overlapped.
Apart == "overlap" \notin mishaps

\* Encryption changes what a column holds, not its text: the columns an update
\* writes have the texts the vault's change leaves.
LEMMA PatchedTexts ==
  ASSUME NEW k \in Nat, NEW old \in [Fields -> Stored], NEW patch \in Patches
  PROVE  TextsOf(Patched(k, old, patch)) = V!Applied(TextsOf(old), patch)
<1> SUFFICES ASSUME NEW f \in Fields
             PROVE  Patched(k, old, patch)[f].text
                    = IF patch[f] = Keep THEN old[f].text ELSE patch[f]
    BY DEF TextsOf, V!Applied
<1>1. Patched(k, old, patch)[f] = IF patch[f] = Keep THEN old[f] ELSE Encrypt(k, patch[f])
    BY DEF Patched
<1>2. Encrypt(k, patch[f]).text = patch[f]
    BY DEF Encrypt, Nothing
<1> QED BY <1>1, <1>2

LEMMA VaultStep ==
  ASSUME StoreTypeOK, Exclusive, [StoreNext]_storeVars
  PROVE  [V!VaultNext]_(V!vaultVars)
<1> USE DEF V!VaultNext, V!vaultVars
<1>1. ASSUME NEW r \in Rows, remove(r)
      PROVE  V!Remove(r)
    BY <1>1 DEF remove, V!Remove
<1>2. ASSUME NEW r \in Rows, NEW texts \in Contents, create(r, texts)
      PROVE  texts \in V!Contents /\ V!Create(r, texts)
  <2>1. TextsOf([f \in Fields |-> Encrypt(key, texts[f])]) = texts
      BY DEF TextsOf, Encrypt, Nothing, Contents
  <2>2. KeptBar' = [KeptBar EXCEPT ![r] = texts]
      BY <1>2, <2>1 DEF create, KeptBar, StoreTypeOK
  <2>3. AskedBar' = AskedBar
      BY <1>2 DEF create, AskedBar
  <2> QED BY <1>2, <2>2, <2>3 DEF create, V!Create, V!Contents, Contents, KeptBar, AskedBar
<1>3. ASSUME NEW k \in Clients, Write(k)
      PROVE  V!Perform(k) \/ V!Abandon({k})
  <2>1. PICK c \in cmd[k] :
          stored' = [stored EXCEPT ![c.row] =
            IF status[c.row] = "live" THEN Patched(key, c.old, c.patch) ELSE @]
      BY <1>3 DEF Write
  <2>2. c \in Updates /\ key \in Nat
      BY DEF StoreTypeOK, Keys
  <2>3. status' = status /\ cmd' = [cmd EXCEPT ![k] = {}]
      BY <1>3 DEF Write
  <2>4. AskedBar' = [AskedBar EXCEPT ![k] = {}]
    <3>1. cmd'[k] = {} /\ \A j \in Clients : j # k => cmd'[j] = cmd[j]
        BY <2>3 DEF StoreTypeOK
    <3>2. \A j \in Clients : AskedBar'[j] = IF j = k THEN {} ELSE AskedBar[j]
        BY <3>1 DEF AskedBar
    <3> QED BY <3>2 DEF AskedBar
  <2>5. CASE status[c.row] = "live"
    <3>1. c.old = stored[c.row]
        BY <2>5 DEF Exclusive
    <3>2. stored'[c.row] = Patched(key, c.old, c.patch)
          /\ \A r \in Rows : r # c.row => stored'[r] = stored[r]
        BY <2>1, <2>2, <2>5 DEF StoreTypeOK, Updates
    <3>3. TextsOf(stored'[c.row]) = V!Applied(TextsOf(stored[c.row]), c.patch)
        BY <2>2, <3>1, <3>2, PatchedTexts DEF Updates
    <3>4. KeptBar' = [KeptBar EXCEPT ![c.row] = V!Applied(KeptBar[c.row], c.patch)]
        BY <2>2, <3>2, <3>3 DEF KeptBar, Updates
    <3>5. [row |-> c.row, patch |-> c.patch] \in AskedBar[k]
        BY DEF AskedBar
    <3>6. V!Perform(k)
      <4> DEFINE q == [row |-> c.row, patch |-> c.patch]
      <4>1. q \in AskedBar[k] /\ status[q.row] = "live"
            /\ KeptBar' = [KeptBar EXCEPT ![q.row] = V!Applied(KeptBar[q.row], q.patch)]
          BY <2>5, <3>4, <3>5
      <4> HIDE DEF q
      <4> QED BY <2>3, <2>4, <4>1 DEF V!Perform, KeptBar, AskedBar
    <3> QED BY <3>6
  <2>6. CASE status[c.row] # "live"
    <3>1. stored' = stored
        BY <2>1, <2>6 DEF StoreTypeOK
    <3>2. AskedBar' = [j \in Clients |-> IF j \in {k} THEN {} ELSE AskedBar[j]]
        BY <2>4 DEF AskedBar
    <3>3. KeptBar' = KeptBar
        BY <3>1 DEF KeptBar
    <3> QED BY <2>3, <3>2, <3>3 DEF V!Abandon, AskedBar, KeptBar
  <2> QED BY <2>5, <2>6
<1>4. ASSUME NEW k \in Clients, UpdateFails(k)
      PROVE  V!Abandon({k})
  <2>1. AskedBar' = [j \in Clients |-> IF j \in {k} THEN {} ELSE AskedBar[j]]
      BY <1>4 DEF UpdateFails, AskedBar, StoreTypeOK
  <2>2. KeptBar' = KeptBar
      BY <1>4 DEF UpdateFails, KeptBar
  <2> QED BY <1>4, <2>1, <2>2 DEF UpdateFails, V!Abandon, AskedBar, KeptBar
<1>5. ASSUME NEW k \in Clients, NEW r \in Rows, NEW patch \in Patches, Fetch(k, r, patch)
      PROVE  \E q \in V!Requests : V!Ask(k, q)
  <2> DEFINE q == [row |-> r, patch |-> patch]
  <2>1. q \in V!Requests
      BY DEF V!Requests, V!Patches, Patches
  <2>2. AskedBar[k] = {} /\ AskedBar' = [AskedBar EXCEPT ![k] = {q}]
    <3>1. /\ cmd[k] = {} /\ cmd'[k] = {[row |-> r, patch |-> patch, old |-> stored[r]]}
          /\ \A j \in Clients : j # k => cmd'[j] = cmd[j]
        BY <1>5 DEF Fetch, StoreTypeOK
    <3>2. AskedBar[k] = {} /\ AskedBar'[k] = {q}
      <4>1. AskedBar'[k] = {[row |-> c.row, patch |-> c.patch] : c \in cmd'[k]}
          BY DEF AskedBar
      <4>2. {[row |-> c.row, patch |-> c.patch] : c \in cmd'[k]} = {q}
          BY <3>1
      <4>3. AskedBar[k] = {}
          BY <3>1 DEF AskedBar
      <4> QED BY <4>1, <4>2, <4>3
    <3>3. \A j \in Clients : j # k => AskedBar'[j] = AskedBar[j]
        BY <3>1 DEF AskedBar
    <3> HIDE DEF q
    <3> QED BY <3>2, <3>3 DEF AskedBar
  <2>3. KeptBar' = KeptBar /\ status[q.row] = "live" /\ status' = status
      BY <1>5 DEF Fetch, KeptBar
  <2>4. V!Ask(k, q)
      BY <2>2, <2>3 DEF V!Ask, AskedBar, KeptBar
  <2> QED BY <2>1, <2>4
<1>6. CASE Restart
  <2>1. AskedBar' = [j \in Clients |-> IF j \in Clients THEN {} ELSE AskedBar[j]]
      BY <1>6 DEF Restart, AskedBar
  <2>2. KeptBar' = KeptBar /\ status' = status
      BY <1>6 DEF Restart, KeptBar
  <2>3. V!Abandon(Clients)
      BY <2>1, <2>2 DEF V!Abandon, AskedBar, KeptBar
  <2> QED BY <2>3
<1>7. CASE UNCHANGED storeVars
  <2>1. KeptBar' = KeptBar /\ AskedBar' = AskedBar /\ status' = status
      BY <1>7 DEF storeVars, KeptBar, AskedBar
  <2> QED BY <2>1 DEF KeptBar, AskedBar
<1> QED BY <1>1, <1>2, <1>3, <1>4, <1>5, <1>6, <1>7 DEF StoreNext

LEMMA VaultInitially ==
  StoreInit => Exclusive /\ V!VaultInit
<1> SUFFICES ASSUME StoreInit PROVE Exclusive /\ V!VaultInit
    OBVIOUS
<1>1. \A k \in Clients : cmd[k] = {}
    BY DEF StoreInit
<1>2. Exclusive
    BY <1>1 DEF Exclusive
<1>3. KeptBar \in [Rows -> V!Contents]
    BY DEF StoreInit, KeptBar, TextsOf, V!Contents
<1>4. AskedBar = [k \in Clients |-> {}]
    BY <1>1 DEF AskedBar
<1> QED BY <1>2, <1>3, <1>4 DEF StoreInit, V!VaultInit, KeptBar, AskedBar

\* servers.rs and channels.rs, update: the store implements the vault, whatever
\* happens to the key, as long as no two updates of one row overlap.
THEOREM StoreImplementsVault == StoreSpec /\ []Apart => ImplementsVault
<1>1. StoreInit => Exclusive /\ V!VaultInit
    BY VaultInitially
<1>2. Apart' /\ StoreTypeOK /\ Exclusive /\ [StoreNext]_storeVars => Exclusive'
    BY ExclusiveStep DEF Apart
<1>3. StoreTypeOK /\ Exclusive /\ [StoreNext]_storeVars => [V!VaultNext]_(V!vaultVars)
    BY VaultStep
<1> QED BY <1>1, <1>2, <1>3, StoreTypeCorrect, PTL
        DEF StoreSpec, ImplementsVault, V!VaultSpec

-----------------------------------------------------------------------------
(* The drawer that adds and edits servers is one user of the store: what is *)
(* proved of every use holds with it.  For that, a server it creates must   *)
(* have been entered without masks.                                         *)

FormRecords == [at : Steps, data : Patches, id : Ids, save : BOOLEAN]
Drawers == [open : BOOLEAN, id : Ids, fields : Patches,
            state : {"untested", "testing", "ok"}]

DrawerOK ==
  /\ shown \in [Rows -> SUBSET [Fields -> {NoText, Keep}]]
  /\ drawer \in Drawers
  /\ drawer.id = Add => drawer.fields \in Contents
  /\ saving \in BOOLEAN /\ passed \subseteq Patches
  /\ slips \subseteq Slips

\* A flow may be the flow of client k: one that creates sends no masks, and one
\* that updates has an update under way, of its row.
FlowOK(k, flows) ==
  /\ flows \in SUBSET FormRecords
  /\ \A w, x \in flows : w = x
  /\ (\E w \in flows : w.at = "update") <=> cmd[k] # {}
  /\ \A w \in flows :
       /\ w.at = "create" => w.id = Add /\ w.data \in Contents
       /\ w.at = "update" => \A c \in cmd[k] : c.row = w.id

FlowsOK ==
  /\ flow = [k \in Clients |-> flow[k]]
  /\ \A k \in Clients : FlowOK(k, flow[k])

FormInv == StoreTypeOK /\ DrawerOK /\ FlowsOK

LEMMA TextTypes ==
  /\ Blank \in Contents
  /\ Contents \subseteq Patches
  /\ [Fields -> {NoText, Keep}] \subseteq Patches
  /\ \A row : Masked(row) \in [Fields -> {NoText, Keep}]
BY DEF Blank, Contents, Patches, Masked

LEMMA ResolvedType ==
  ASSUME NEW row \in [Fields -> Stored], NEW k, NEW patch \in Patches
  PROVE  Resolved(k, row, patch) \in Patches
<1> SUFFICES ASSUME NEW f \in Fields
             PROVE  (IF patch[f] = Keep THEN Decrypt(k, row[f]) ELSE patch[f])
                      \in Texts \cup {NoText, Keep}
    BY DEF Resolved, Patches
<1>1. row[f] \in Stored /\ patch[f] \in Texts \cup {NoText, Keep}
    BY DEF Patches
<1>2. row[f].text \in Texts \cup {NoText}
    BY <1>1 DEF Stored
<1> QED BY <1>1, <1>2 DEF Decrypt

\* What the form does to the table is a step of the table.
LEMMA FormStepsStore ==
  ASSUME FormInv, [ServerNext]_serverVars
  PROVE  [StoreNext]_storeVars
<1>1. ASSUME NEW k \in Clients, Commits(k)
      PROVE  [StoreNext]_storeVars
  <2>1. drawer.fields \in Patches
      BY DEF FormInv, DrawerOK, Drawers
  <2> QED BY <1>1, <2>1 DEF Commits, StoreNext
<1>2. CASE User
  <2>1. ASSUME NEW r \in Rows, removeServer(r)
        PROVE  [StoreNext]_storeVars
      BY <2>1 DEF removeServer, StoreNext
  <2>2. ASSUME NEW k \in Clients, SaveTested(k)
        PROVE  [StoreNext]_storeVars
      BY <1>1, <2>2 DEF SaveTested
  <2> QED BY <1>2, <2>1, <2>2 DEF User, Close, Open, Type, test
<1>3. ASSUME NEW k \in Clients, Flow(k)
      PROVE  [StoreNext]_storeVars
  <2>1. ASSUME NEW r \in Rows, Created(k, r)
        PROVE  [StoreNext]_storeVars
    <3>1. PICK w \in flow[k] : create(r, w.data)
        BY <2>1 DEF Created
    <3>2. w.at = "create"
        BY <2>1 DEF Created, At, FormInv, FlowsOK, FlowOK
    <3>3. w.data \in Contents
        BY <3>2 DEF FormInv, FlowsOK, FlowOK
    <3> QED BY <3>1, <3>3 DEF StoreNext
  <2>2. ASSUME TestPassed(k) PROVE [StoreNext]_storeVars
      BY <1>1, <2>2 DEF TestPassed
  <2>3. ASSUME Updated(k) \/ SaveFails(k) PROVE [StoreNext]_storeVars
      BY <2>3 DEF Updated, SaveFails, StoreNext
  <2>4. ASSUME TestRuns(k) \/ TestFailed(k) \/ Saved(k) \/ SaveUnanswered(k)
        PROVE  [StoreNext]_storeVars
      BY <2>4 DEF TestRuns, TestFailed, Saved, SaveUnanswered
  <2> QED BY <1>3, <2>1, <2>2, <2>3, <2>4 DEF Flow
<1>4. CASE Reboot
    BY <1>4 DEF Reboot, StoreNext
<1>5. CASE UNCHANGED serverVars
    BY <1>5 DEF serverVars
<1> QED BY <1>2, <1>3, <1>4, <1>5 DEF ServerNext

\* One client's flow changes.
LEMMA FlowChanges ==
  ASSUME FlowsOK, NEW k \in Clients, NEW flows, flow' = [flow EXCEPT ![k] = flows],
         FlowOK(k, flows)', \A j \in Clients : j # k => cmd'[j] = cmd[j]
  PROVE  FlowsOK'
<1>1. ASSUME NEW j \in Clients
      PROVE  flow'[j] = IF j = k THEN flows ELSE flow[j]
    BY DEF FlowsOK
<1>2. flow' = [j \in Clients |-> flow'[j]]
    BY DEF FlowsOK
<1>3. ASSUME NEW j \in Clients
      PROVE  FlowOK(j, flow[j])'
  <2>1. CASE j = k
      BY <1>1, <2>1 DEF FlowOK
  <2>2. CASE j # k
      BY <1>1, <2>2 DEF FlowsOK, FlowOK
  <2> QED BY <2>1, <2>2
<1> QED BY <1>2, <1>3 DEF FlowsOK

\* A flow that moves on within the drawer, or ends, while the table stays.
LEMMA FlowMoves ==
  ASSUME FlowsOK, NEW k \in Clients, cmd' = cmd, cmd[k] = {},
         \/ Ends(k)
         \/ \E place \in {"passed", "refused"} : Moves(k, place)
  PROVE  FlowsOK'
<1>1. CASE Ends(k)
  <2>1. FlowOK(k, {})'
      BY DEF FlowOK
  <2> QED BY <1>1, <2>1, FlowChanges DEF Ends
<1>2. ASSUME NEW place \in {"passed", "refused"}, Moves(k, place)
      PROVE  FlowsOK'
  <2>1. PICK flows : flows = {[w EXCEPT !.at = place, !.data = Blank] : w \in flow[k]}
      OBVIOUS
  <2>2. flow' = [flow EXCEPT ![k] = flows]
      BY <1>2, <2>1 DEF Moves
  <2>3. /\ flow[k] \in SUBSET FormRecords
        /\ \A w, x \in flow[k] : w = x
      BY DEF FlowsOK, FlowOK
  <2>4. \A w \in flows : w \in FormRecords /\ w.at = place
      BY <2>1, <2>3, TextTypes DEF FormRecords, Steps
  <2>5. \A w, x \in flows : w = x
      BY <2>1, <2>3
  <2>6. FlowOK(k, flows)'
      BY <2>4, <2>5 DEF FlowOK
  <2> QED BY <2>2, <2>6, FlowChanges
<1> QED BY <1>1, <1>2

LEMMA NoUpdate ==
  ASSUME FlowsOK, NEW k \in Clients
  PROVE  /\ flow[k] = {} => cmd[k] = {}
         /\ \A place \in Steps \ {"update"} : At(k, place) => cmd[k] = {}
         /\ At(k, "update") => cmd[k] # {}
BY DEF FlowsOK, FlowOK, At

\* save() sends what the drawer holds.
LEMMA CommitsOK ==
  ASSUME FormInv, NEW k \in Clients, cmd[k] = {}, Commits(k)
  PROVE  FlowsOK' /\ saving' \in BOOLEAN
<1>1. /\ drawer.fields \in Patches /\ drawer.id \in Ids /\ saving \in BOOLEAN
      /\ drawer.id = Add => drawer.fields \in Contents
    BY DEF FormInv, DrawerOK, Drawers
<1>2. Add \in Ids /\ Add \notin Rows /\ FlowsOK
    BY FormAssumption DEF Ids, FormInv
<1>3. ASSUME drawer.id = Add, UNCHANGED storeVars,
             flow' = [flow EXCEPT ![k] = {[at |-> "create", data |-> drawer.fields,
                                          id |-> Add, save |-> TRUE]}]
      PROVE  FlowsOK'
  <2>1. PICK w : w = [at |-> "create", data |-> drawer.fields, id |-> Add, save |-> TRUE]
      OBVIOUS
  <2>2. cmd' = cmd
      BY <1>3 DEF storeVars
  <2>3. w \in FormRecords /\ w.at = "create" /\ w.id = Add /\ w.data \in Contents
      BY <1>1, <1>2, <1>3, <2>1 DEF FormRecords, Steps
  <2>4. FlowOK(k, {w})'
      BY <2>2, <2>3 DEF FlowOK
  <2> QED BY <1>2, <1>3, <2>1, <2>2, <2>4, FlowChanges
<1>4. ASSUME drawer.id \in Rows, Fetch(k, drawer.id, drawer.fields),
             flow' = [flow EXCEPT ![k] = {[at |-> "update", data |-> drawer.fields,
                                          id |-> drawer.id, save |-> TRUE]}]
      PROVE  FlowsOK'
  <2>1. PICK w : w = [at |-> "update", data |-> drawer.fields, id |-> drawer.id,
                      save |-> TRUE]
      OBVIOUS
  <2>2. /\ cmd'[k] = {[row |-> drawer.id, patch |-> drawer.fields,
                       old |-> stored[drawer.id]]}
        /\ \A j \in Clients : j # k => cmd'[j] = cmd[j]
      BY <1>4 DEF Fetch, FormInv, StoreTypeOK
  <2>3. w \in FormRecords /\ w.at = "update" /\ w.id = drawer.id
      BY <1>1, <2>1 DEF FormRecords, Steps
  <2>4. FlowOK(k, {w})'
      BY <2>2, <2>3 DEF FlowOK
  <2> QED BY <1>2, <1>4, <2>1, <2>2, <2>4, FlowChanges
<1>5. ASSUME Ends(k), UNCHANGED storeVars
      PROVE  FlowsOK'
    BY <1>2, <1>5, FlowMoves DEF storeVars
<1>6. saving' \in BOOLEAN
    BY <1>1 DEF Commits
<1> QED BY <1>3, <1>4, <1>5, <1>6 DEF Commits

LEMMA DrawerTypes ==
  ASSUME DrawerOK
  PROVE  /\ Closed \in Drawers /\ Closed.id = Add /\ Closed.fields \in Contents
         /\ \A clients : Forgotten(drawer, clients) \in Drawers
         /\ \A clients : Forgotten(drawer, clients).id = Add =>
                           Forgotten(drawer, clients).fields \in Contents
<1>1. Closed \in Drawers /\ Closed.id = Add /\ Closed.fields \in Contents
    BY TextTypes DEF Closed, Drawers, Ids
<1>2. [drawer EXCEPT !.open = FALSE] \in Drawers
      /\ [drawer EXCEPT !.open = FALSE].id = drawer.id
      /\ [drawer EXCEPT !.open = FALSE].fields = drawer.fields
    BY DEF DrawerOK, Drawers
<1> QED BY <1>1, <1>2 DEF Forgotten, DrawerOK

LEMMA UserFormStep ==
  ASSUME FormInv, User
  PROVE  DrawerOK' /\ FlowsOK'
<1>0. DrawerOK /\ FlowsOK /\ drawer \in Drawers
    BY DEF FormInv, DrawerOK
<1>1. ASSUME UNCHANGED <<flow, cmd>> PROVE FlowsOK'
    BY <1>0, <1>1 DEF FlowsOK, FlowOK
<1>2. ASSUME Acts PROVE slips' \subseteq Slips
    BY <1>0, <1>2 DEF Acts, DrawerOK, Slips
<1>3. CASE Close
  <2>1. DrawerOK'
      BY <1>0, <1>3, DrawerTypes DEF Close, DrawerOK
  <2> QED BY <1>1, <1>3, <2>1 DEF Close, storeVars
<1>4. ASSUME NEW id \in Ids, Open(id)
      PROVE  DrawerOK' /\ FlowsOK'
  <2>1. PICK fields \in IF id = Add THEN {Blank} ELSE shown[id] :
          drawer' = [open |-> TRUE, id |-> id, fields |-> fields,
                     state |-> IF id = Add THEN "untested" ELSE "ok"]
      BY <1>4 DEF Open
  <2>2. fields \in Patches /\ (id = Add => fields \in Contents)
    <3>1. CASE id = Add
        BY <2>1, <3>1, TextTypes
    <3>2. CASE id # Add
      <4>1. shown[id] \in SUBSET [Fields -> {NoText, Keep}]
          BY <1>0, <3>2 DEF DrawerOK, Ids
      <4> QED BY <2>1, <3>2, <4>1, TextTypes
    <3> QED BY <3>1, <3>2
  <2>3. DrawerOK'
      BY <1>0, <1>2, <1>4, <2>1, <2>2 DEF Open, DrawerOK, Drawers
  <2> QED BY <1>1, <1>4, <2>3 DEF Open, storeVars
<1>5. ASSUME NEW r \in Rows, removeServer(r)
      PROVE  DrawerOK' /\ FlowsOK'
  <2>1. DrawerOK'
      BY <1>0, <1>5 DEF removeServer, DrawerOK
  <2> QED BY <1>1, <1>5, <2>1 DEF removeServer, remove
<1>6. ASSUME NEW f \in Fields, NEW text \in Texts \cup {NoText}, Type(f, text)
      PROVE  DrawerOK' /\ FlowsOK'
  <2>1. PICK state \in StatesAfter(drawer.state) :
          drawer' = [drawer EXCEPT !.fields[f] = text, !.state = state]
      BY <1>6 DEF Type
  <2>2. state \in {"untested", "testing", "ok"}
      BY <1>0, <2>1 DEF StatesAfter, Drawers
  <2>3. PICK fields : fields = [drawer.fields EXCEPT ![f] = text]
      OBVIOUS
  <2>4. /\ fields \in Patches
        /\ drawer.id = Add => fields \in Contents
      BY <1>0, <2>3 DEF DrawerOK, Drawers, Patches, Contents
  <2>5. drawer' = [drawer EXCEPT !.fields = fields, !.state = state]
      BY <1>0, <2>1, <2>3 DEF Drawers
  <2>6. drawer' \in Drawers /\ drawer'.id = drawer.id /\ drawer'.fields = fields
      BY <1>0, <2>2, <2>4, <2>5 DEF Drawers
  <2>7. DrawerOK'
      BY <1>0, <1>2, <1>6, <2>4, <2>6 DEF Type, DrawerOK
  <2> QED BY <1>1, <1>6, <2>7 DEF Type, storeVars
<1>7. ASSUME NEW k \in Clients, SaveTested(k)
      PROVE  DrawerOK' /\ FlowsOK'
  <2>1. cmd[k] = {}
      BY <1>0, <1>7, NoUpdate DEF SaveTested
  <2>2. FlowsOK' /\ saving' \in BOOLEAN
      BY <1>7, <2>1, CommitsOK DEF SaveTested
  <2> QED BY <1>0, <1>7, <2>2 DEF SaveTested, DrawerOK
<1>8. ASSUME NEW k \in Clients, NEW save \in BOOLEAN, test(k, save)
      PROVE  DrawerOK' /\ FlowsOK'
  <2>1. cmd[k] = {} /\ cmd' = cmd
      BY <1>0, <1>8, NoUpdate DEF test, storeVars
  <2>2. PICK w : w = [at |-> "asked", data |-> drawer.fields, id |-> drawer.id,
                      save |-> save]
      OBVIOUS
  <2>3. w \in FormRecords /\ w.at = "asked"
      BY <1>0, <2>2 DEF FormRecords, Steps, Drawers
  <2>4. FlowOK(k, {w})'
      BY <2>1, <2>3 DEF FlowOK
  <2>5. FlowsOK'
      BY <1>0, <1>8, <2>1, <2>2, <2>4, FlowChanges DEF test
  <2>6. DrawerOK'
      BY <1>0, <1>8 DEF test, DrawerOK, Drawers
  <2> QED BY <2>5, <2>6
<1> QED BY <1>3, <1>4, <1>5, <1>6, <1>7, <1>8 DEF User

\* A flow that waits for nothing but an answer.
LEMMA AnswerOK ==
  ASSUME FlowsOK, NEW k \in Clients, NEW w \in FormRecords, w.at = "answer",
         flow' = [flow EXCEPT ![k] = {w}], cmd'[k] = {},
         \A j \in Clients : j # k => cmd'[j] = cmd[j]
  PROVE  FlowsOK'
<1>1. FlowOK(k, {w})'
    BY DEF FlowOK
<1> QED BY <1>1, FlowChanges

LEMMA FlowFormStep ==
  ASSUME FormInv, NEW k \in Clients, Flow(k)
  PROVE  DrawerOK' /\ FlowsOK'
<1>0. /\ DrawerOK /\ FlowsOK /\ StoreTypeOK
      /\ flow[k] \in SUBSET FormRecords /\ \A w, x \in flow[k] : w = x
    BY DEF FormInv, FlowsOK, FlowOK
<1>1. CASE TestRuns(k)
  <2>1. PICK w \in flow[k] :
          /\ Moves(k, "passed") \/ Moves(k, "refused")
          /\ passed' \in {passed, {Filled(w)}, {w.data}}
          /\ slips' \in {slips, slips \cup {"unread"}}
      BY <1>1 DEF TestRuns
  <2>2. w.data \in Patches
      BY <1>0 DEF FormRecords
  <2>3. w.id \in Rows => Resolved(key, stored[w.id], w.data) \in Patches
      BY <1>0, <2>2, ResolvedType DEF StoreTypeOK
  <2>4. passed' \subseteq Patches /\ slips' \subseteq Slips
      BY <1>0, <2>1, <2>2, <2>3 DEF DrawerOK, Filled, Slips
  <2>5. cmd' = cmd /\ cmd[k] = {}
      BY <1>0, <1>1, NoUpdate DEF TestRuns, storeVars, Steps
  <2>6. FlowsOK'
      BY <1>0, <2>1, <2>5, FlowMoves
  <2> QED BY <1>0, <1>1, <2>4, <2>6 DEF TestRuns, DrawerOK
<1>2. CASE TestPassed(k)
  <2>1. cmd[k] = {}
      BY <1>0, <1>2, NoUpdate DEF TestPassed, Steps
  <2>2. FlowsOK' /\ saving' \in BOOLEAN
    <3>1. CASE Ends(k) /\ UNCHANGED <<storeVars, saving>>
        BY <1>0, <2>1, <3>1, FlowMoves DEF storeVars, DrawerOK
    <3>2. CASE Commits(k)
        BY <2>1, <3>2, CommitsOK
    <3> QED BY <1>2, <3>1, <3>2 DEF TestPassed
  <2>3. drawer' \in Drawers /\ drawer'.id = drawer.id /\ drawer'.fields = drawer.fields
      BY <1>0, <1>2 DEF TestPassed, DrawerOK, Drawers
  <2> QED BY <1>0, <1>2, <2>2, <2>3 DEF TestPassed, DrawerOK
<1>3. CASE TestFailed(k)
  <2>1. cmd[k] = {} /\ cmd' = cmd
      BY <1>0, <1>3, NoUpdate DEF TestFailed, storeVars, Steps
  <2>2. FlowsOK'
      BY <1>0, <1>3, <2>1, FlowMoves DEF TestFailed
  <2>3. drawer' \in Drawers /\ drawer'.id = drawer.id /\ drawer'.fields = drawer.fields
      BY <1>0, <1>3 DEF TestFailed, DrawerOK, Drawers
  <2> QED BY <1>0, <1>3, <2>2, <2>3 DEF TestFailed, DrawerOK
<1>4. ASSUME NEW r \in Rows, Created(k, r)
      PROVE  DrawerOK' /\ FlowsOK'
  <2>1. cmd[k] = {} /\ cmd' = cmd
      BY <1>0, <1>4, NoUpdate DEF Created, create, Steps
  <2>2. PICK w \in flow[k] : w.at = "create"
      BY <1>4 DEF Created, At
  <2>3. PICK x : x = [w EXCEPT !.at = "answer", !.id = r]
      OBVIOUS
  <2>4. {[v EXCEPT !.at = "answer", !.id = r] : v \in flow[k]} = {x}
      BY <1>0, <2>3
  <2>5. x \in FormRecords /\ x.at = "answer"
      BY <1>0, <2>3 DEF FormRecords, Steps, Ids
  <2>6. flow' = [flow EXCEPT ![k] = {x}]
      BY <1>4, <2>4 DEF Created
  <2>7. FlowsOK'
      BY <1>0, <2>1, <2>5, <2>6, AnswerOK
  <2> QED BY <1>0, <1>4, <2>7 DEF Created, DrawerOK
<1>5. CASE Updated(k)
  <2>1. cmd'[k] = {} /\ \A j \in Clients : j # k => cmd'[j] = cmd[j]
      BY <1>0, <1>5 DEF Updated, Write, StoreTypeOK
  <2>2. PICK w \in flow[k] : w.at = "update"
      BY <1>5 DEF Updated, At
  <2>3. PICK x : x = [w EXCEPT !.at = "answer", !.data = Blank]
      OBVIOUS
  <2>4. {[v EXCEPT !.at = "answer", !.data = Blank] : v \in flow[k]} = {x}
      BY <1>0, <2>3
  <2>5. x \in FormRecords /\ x.at = "answer"
      BY <1>0, <2>3, TextTypes DEF FormRecords, Steps
  <2>6. flow' = [flow EXCEPT ![k] = {x}]
      BY <1>5, <2>4 DEF Updated, Moves
  <2>7. FlowsOK'
      BY <1>0, <2>1, <2>5, <2>6, AnswerOK
  <2> QED BY <1>0, <1>5, <2>7 DEF Updated, DrawerOK
<1>6. CASE Saved(k) \/ SaveUnanswered(k)
  <2>1. cmd[k] = {} /\ cmd' = cmd
      BY <1>0, <1>6, NoUpdate DEF Saved, SaveUnanswered, storeVars, Steps
  <2>2. FlowsOK'
      BY <1>0, <1>6, <2>1, FlowMoves DEF Saved, SaveUnanswered
  <2>3. DrawerOK'
    <3>1. CASE Saved(k)
      <4>1. \A r \in Rows : shown'[r] \in SUBSET [Fields -> {NoText, Keep}]
          BY <1>0, <3>1, TextTypes DEF Saved, DrawerOK
      <4>2. shown' \in [Rows -> SUBSET [Fields -> {NoText, Keep}]]
          BY <3>1, <4>1 DEF Saved
      <4> QED BY <1>0, <3>1, <4>2, DrawerTypes DEF Saved, DrawerOK
    <3>2. CASE SaveUnanswered(k)
        BY <1>0, <3>2 DEF SaveUnanswered, DrawerOK, Slips
    <3> QED BY <1>6, <3>1, <3>2
  <2> QED BY <2>2, <2>3
<1>7. CASE SaveFails(k)
  <2>1. cmd'[k] = {} /\ \A j \in Clients : j # k => cmd'[j] = cmd[j]
    <3>1. CASE At(k, "update") /\ UpdateFails(k)
        BY <1>0, <3>1 DEF UpdateFails, StoreTypeOK
    <3>2. CASE At(k, "create") /\ UNCHANGED storeVars
        BY <1>0, <3>2, NoUpdate DEF storeVars, Steps
    <3> QED BY <1>7, <3>1, <3>2 DEF SaveFails
  <2>2. FlowOK(k, {})'
      BY <2>1 DEF FlowOK
  <2>3. FlowsOK'
      BY <1>0, <1>7, <2>1, <2>2, FlowChanges DEF SaveFails, Ends
  <2> QED BY <1>0, <1>7, <2>3 DEF SaveFails, DrawerOK
<1> QED BY <1>1, <1>2, <1>3, <1>4, <1>5, <1>6, <1>7 DEF Flow

LEMMA FormStep ==
  ASSUME FormInv, [ServerNext]_serverVars
  PROVE  FormInv'
<1>1. StoreTypeOK'
    BY FormStepsStore, StoreTypeStep DEF FormInv
<1>2. CASE Reboot
  <2>1. cmd' = [k \in Clients |-> {}] /\ flow' = [k \in Clients |-> {}]
      BY <1>2 DEF Reboot, Restart
  <2>2. FlowsOK'
      BY <2>1 DEF FlowsOK, FlowOK
  <2>3. AllShown \in [Rows -> SUBSET [Fields -> {NoText, Keep}]]
      BY TextTypes DEF AllShown
  <2>4. DrawerOK'
      BY <1>2, <2>3, DrawerTypes DEF Reboot, DrawerOK, FormInv
  <2> QED BY <1>1, <2>2, <2>4 DEF FormInv
<1>3. CASE UNCHANGED serverVars
    BY <1>1, <1>3 DEF serverVars, formVars, storeVars, FormInv, DrawerOK, FlowsOK, FlowOK
<1> QED BY <1>1, <1>2, <1>3, UserFormStep, FlowFormStep DEF ServerNext, FormInv

LEMMA FormInitInv == ServerInit => FormInv
<1> SUFFICES ASSUME ServerInit PROVE FormInv
    OBVIOUS
<1>1. AllShown \in [Rows -> SUBSET [Fields -> {NoText, Keep}]]
    BY TextTypes DEF AllShown
<1>2. DrawerOK
    BY <1>1, TextTypes DEF ServerInit, DrawerOK, Closed, Drawers, Ids
<1>3. FlowsOK
    BY DEF ServerInit, StoreInit, FlowsOK, FlowOK
<1> QED BY <1>2, <1>3, StoreTypeInit DEF ServerInit, FormInv

THEOREM FormInvariant == ServerSpec => []FormInv
<1>1. FormInv /\ [ServerNext]_serverVars => FormInv'
    BY FormStep
<1> QED BY <1>1, FormInitInv, PTL DEF ServerSpec

\* The drawer, its flows and the store keep their types, and a flow waits for an
\* update exactly while the store has one of its client under way.
THEOREM FormTypeCorrect == ServerSpec => []FormTypeOK
<1>1. FormInv => FormTypeOK
  <2> SUFFICES ASSUME FormInv PROVE FormTypeOK
      OBVIOUS
  <2>1. flow \in [Clients -> SUBSET FormRecords]
      BY DEF FormInv, FlowsOK, FlowOK
  <2>2. \A k \in Clients : At(k, "update") = (cmd[k] # {})
      BY DEF FormInv, FlowsOK, FlowOK, At
  <2> QED BY <2>1, <2>2 DEF FormInv, DrawerOK, Drawers, FormRecords, FormTypeOK
<1> QED BY <1>1, FormInvariant, PTL

\* servers_create, servers_update and servers_remove are called by the drawer
\* and the list as the store may be called: no secret is lost with them.
THEOREM FormUsesTheStore == ServerSpec => StoreSpec
<1>1. ServerInit => StoreInit
    BY DEF ServerInit
<1>2. FormInv /\ [ServerNext]_serverVars => [StoreNext]_storeVars
    BY FormStepsStore
<1> QED BY <1>1, <1>2, FormInvariant, PTL DEF ServerSpec, StoreSpec

\* crypto.rs, load: whatever is tested, saved, removed and restarted from the
\* drawer, every secret can be read after a restart.
THEOREM FormKeepsSecrets == ServerSpec => []SecretsOutliveRestart
BY FormUsesTheStore, SecretsSurvive

\* servers.rs, update, with the drawer as its user: what a server holds changes
\* by what was entered and by nothing else.
THEOREM FormImplementsVault == ServerSpec /\ []Apart => ImplementsVault
BY FormUsesTheStore, StoreImplementsVault, PTL

-----------------------------------------------------------------------------
(* What is stored was tested.  As long as the form is left alone while a flow *)
(* is under way, every flow works with what the drawer holds; and what a flow *)
(* is about to store, and what the drawer would store without a test, are the *)
(* texts of the last test or those that are stored already.                   *)

Clean == slips = {} /\ mishaps = {}

\* The texts this form stands for were tested, or are what the row holds.
Tested(id, data) ==
  IF id = Add THEN data \in passed
  ELSE status[id] = "live" =>
         \/ Resolved(key, stored[id], data) \in passed
         \/ Resolved(key, stored[id], data) = TextsOf(stored[id])

FormTested == Tested(drawer.id, drawer.fields)

\* The flow of client k works with what the drawer holds.
Same(k) ==
  \A w \in flow[k] :
    /\ w.at \in {"asked", "create"} => w.data = drawer.fields
    /\ w.at # "answer" => w.id = drawer.id
    /\ w.at = "update" => \A c \in cmd[k] : c.patch = drawer.fields
    /\ w.at \in {"passed", "create", "update"} => FormTested

Answering(r) == \E k \in Clients : \E w \in flow[k] : w.at = "answer" /\ w.id = r

\* The page lists a row as it is stored, or its answer is on the way.
ListedAsStored ==
  \A r \in Rows : status[r] = "live" /\ ~Answering(r) =>
    shown[r] \subseteq {Masked(stored[r])}

Vouched ==
  /\ \A k \in Clients : Same(k)
  /\ ListedAsStored
  /\ drawer.state = "ok" => FormTested

TestInv == Clean => Vouched

TableInv == Kept /\ (Apart => Exclusive)

LEMMA TableStep ==
  ASSUME StoreTypeOK, TableInv, [StoreNext]_storeVars
  PROVE  TableInv'
<1>1. Apart' => Apart
    BY DEF Apart, StoreNext, storeVars, remove, create, Write, UpdateFails, Fetch, Restart
<1>2. Apart' /\ Exclusive => Exclusive'
    BY ExclusiveStep DEF Apart
<1> QED BY <1>1, <1>2, KeptStep DEF TableInv

THEOREM TableInvariant == StoreSpec => []TableInv
<1>1. StoreInit => TableInv
    BY KeptInit, VaultInitially DEF TableInv
<1>2. StoreTypeOK /\ TableInv /\ [StoreNext]_storeVars => TableInv'
    BY TableStep
<1> QED BY <1>1, <1>2, StoreTypeCorrect, PTL DEF StoreSpec

\* The texts an update stores are those its patch stands for, before and after.
LEMMA PatchedMeans ==
  ASSUME key \in Keys, NEW old \in [Fields -> Stored], Readable(old), NEW patch \in Patches
  PROVE  /\ TextsOf(Patched(key, old, patch)) = Resolved(key, old, patch)
         /\ Resolved(key, Patched(key, old, patch), patch) = Resolved(key, old, patch)
<1>1. ASSUME NEW f \in Fields
      PROVE  /\ Patched(key, old, patch)[f].text
                  = IF patch[f] = Keep THEN Decrypt(key, old[f]) ELSE patch[f]
             /\ patch[f] = Keep => Patched(key, old, patch)[f] = old[f]
  <2>1. Patched(key, old, patch)[f]
          = IF patch[f] = Keep THEN old[f] ELSE Encrypt(key, patch[f])
      BY DEF Patched
  <2>2. Encrypt(key, patch[f]).text = patch[f]
      BY DEF Encrypt, Nothing
  <2>3. Decrypt(key, old[f]) = old[f].text
      BY DEF Readable
  <2> QED BY <2>1, <2>2, <2>3
<1>2. TextsOf(Patched(key, old, patch)) = Resolved(key, old, patch)
    BY <1>1 DEF TextsOf, Resolved
<1>3. Resolved(key, Patched(key, old, patch), patch) = Resolved(key, old, patch)
    BY <1>1 DEF Resolved
<1> QED BY <1>2, <1>3

\* A form that shows a row as it is stored stands for what is stored.
LEMMA MaskedMeans ==
  ASSUME NEW row, Readable(row)
  PROVE  Resolved(key, row, Masked(row)) = TextsOf(row)
<1> SUFFICES ASSUME NEW f \in Fields
             PROVE  (IF Masked(row)[f] = Keep THEN Decrypt(key, row[f]) ELSE Masked(row)[f])
                      = row[f].text
    BY DEF Resolved, TextsOf
<1>1. CASE row[f] = Nothing
  <2>1. Masked(row)[f] = NoText /\ row[f].text = NoText
      BY <1>1 DEF Masked, Nothing
  <2> QED BY <2>1, StoreAssumption
<1>2. CASE row[f] # Nothing
  <2>1. Masked(row)[f] = Keep
      BY <1>2 DEF Masked
  <2> QED BY <2>1 DEF Readable
<1> QED BY <1>1, <1>2

\* Whoever's flow goes on as it was goes on working with what the drawer holds.
LEMMA SameFrame ==
  ASSUME NEW k \in Clients, Same(k), flow'[k] = flow[k], cmd'[k] = cmd[k],
         drawer'.id = drawer.id, drawer'.fields = drawer.fields,
         FormTested => FormTested'
  PROVE  Same(k)'
BY DEF Same

LEMMA TestedFrame ==
  ASSUME UNCHANGED <<passed, status, stored, key>>, drawer'.id = drawer.id,
         drawer'.fields = drawer.fields
  PROVE  FormTested' <=> FormTested
BY DEF FormTested, Tested

LEMMA ListedFrame ==
  ASSUME ListedAsStored, UNCHANGED <<status, stored, shown>>,
         \A r \in Rows : Answering(r) => Answering(r)'
  PROVE  ListedAsStored'
BY DEF ListedAsStored

LEMMA CommitsVouched ==
  ASSUME FormInv, Vouched, FormTested, NEW k \in Clients, Commits(k),
         \A w \in flow[k] : w.at # "answer",
         UNCHANGED <<shown, passed>>, drawer'.id = drawer.id,
         drawer'.fields = drawer.fields
  PROVE  Vouched'
<1>1. UNCHANGED <<status, stored, key>>
    BY DEF Commits, Fetch, storeVars
<1>2. FormTested'
    BY <1>1, TestedFrame
<1>3. /\ flow = [j \in Clients |-> flow[j]] /\ cmd \in [Clients -> SUBSET Updates]
    BY DEF FormInv, FlowsOK, StoreTypeOK
<1>4. \A j \in Clients : j # k => flow'[j] = flow[j] /\ cmd'[j] = cmd[j]
    BY <1>3 DEF Commits, Ends, Fetch, storeVars
<1>5. \A j \in Clients : j # k => Same(j)'
    BY <1>2, <1>4, SameFrame DEF Vouched
<1>6. Same(k)'
  <2>1. CASE drawer.id = Add /\ UNCHANGED storeVars /\
             flow' = [flow EXCEPT ![k] = {[at |-> "create", data |-> drawer.fields,
                                          id |-> Add, save |-> TRUE]}]
    <3>1. flow'[k] = {[at |-> "create", data |-> drawer.fields, id |-> Add, save |-> TRUE]}
        BY <1>3, <2>1
    <3> QED BY <1>2, <2>1, <3>1 DEF Same
  <2>2. CASE drawer.id \in Rows /\ Fetch(k, drawer.id, drawer.fields) /\
             flow' = [flow EXCEPT ![k] = {[at |-> "update", data |-> drawer.fields,
                                          id |-> drawer.id, save |-> TRUE]}]
    <3>1. flow'[k] = {[at |-> "update", data |-> drawer.fields, id |-> drawer.id,
                       save |-> TRUE]}
        BY <1>3, <2>2
    <3>2. cmd'[k] = {[row |-> drawer.id, patch |-> drawer.fields, old |-> stored[drawer.id]]}
        BY <1>3, <2>2 DEF Fetch
    <3> QED BY <1>2, <3>1, <3>2 DEF Same
  <2>3. CASE Ends(k)
    <3>1. flow'[k] = {}
        BY <1>3, <2>3 DEF Ends
    <3> QED BY <3>1 DEF Same
  <2> QED BY <2>1, <2>2, <2>3 DEF Commits
<1>7. \A r \in Rows : Answering(r) => Answering(r)'
    BY <1>4 DEF Answering
<1>8. ListedAsStored'
    BY <1>1, <1>7, ListedFrame DEF Vouched
<1> QED BY <1>2, <1>5, <1>6, <1>8 DEF Vouched

LEMMA UserVouched ==
  ASSUME FormInv, TableInv, Clean, Vouched, Clean', User
  PROVE  Vouched'
<1>0. /\ flow = [j \in Clients |-> flow[j]] /\ drawer \in Drawers
      /\ status \in [Rows -> {"new", "live", "gone"}]
      /\ shown = [r \in Rows |-> shown[r]]
      /\ Add \notin Rows
    BY FormAssumption DEF FormInv, FlowsOK, StoreTypeOK, DrawerOK
<1>1. ASSUME Acts PROVE \A k \in Clients : flow[k] = {}
    BY <1>1 DEF Acts, Busy, Clean
<1>2. ASSUME UNCHANGED flow
      PROVE  \A r \in Rows : Answering(r)' <=> Answering(r)
    BY <1>2 DEF Answering
<1>3. CASE Close
  <2>1. UNCHANGED <<flow, cmd, passed, status, stored, key, shown>>
      BY <1>3 DEF Close, storeVars
  <2>2. CASE \A k \in Clients : flow[k] = {}
    <3>1. drawer'.state # "ok"
        BY <1>3, <2>2 DEF Close, Forgotten, Closed
    <3>2. \A k \in Clients : Same(k)'
        BY <2>1, <2>2 DEF Same
    <3> QED BY <1>2, <2>1, <3>1, <3>2, ListedFrame DEF Vouched
  <2>3. CASE ~(\A k \in Clients : flow[k] = {})
    <3>1. drawer' = [drawer EXCEPT !.open = FALSE]
        BY <1>3, <2>3 DEF Close, Forgotten
    <3>2. /\ drawer'.id = drawer.id /\ drawer'.fields = drawer.fields
          /\ drawer'.state = drawer.state
        BY <1>0, <3>1 DEF Drawers
    <3>3. FormTested' <=> FormTested
        BY <2>1, <3>2, TestedFrame
    <3>4. \A k \in Clients : Same(k)'
        BY <2>1, <3>2, <3>3, SameFrame DEF Vouched
    <3> QED BY <1>2, <2>1, <3>2, <3>3, <3>4, ListedFrame DEF Vouched
  <2> QED BY <2>2, <2>3
<1>4. ASSUME NEW id \in Ids, Open(id)
      PROVE  Vouched'
  <2>1. /\ UNCHANGED <<flow, passed, status, stored, key, shown>>
        /\ \A k \in Clients : flow[k] = {}
      BY <1>1, <1>4 DEF Open, storeVars
  <2>2. PICK fields \in IF id = Add THEN {Blank} ELSE shown[id] :
          drawer' = [open |-> TRUE, id |-> id, fields |-> fields,
                     state |-> IF id = Add THEN "untested" ELSE "ok"]
      BY <1>4 DEF Open
  <2>3. ASSUME id # Add, status[id] = "live"
        PROVE  Resolved(key, stored[id], fields) = TextsOf(stored[id])
    <3>1. id \in Rows /\ ~Answering(id)
        BY <2>1, <2>3 DEF Ids, Answering
    <3>2. fields = Masked(stored[id])
        BY <2>2, <2>3, <3>1 DEF Vouched, ListedAsStored
    <3>3. Readable(stored[id])
        BY <3>1 DEF TableInv, Kept, Undisturbed, Clean
    <3> QED BY <3>2, <3>3, MaskedMeans
  <2>4. drawer'.state = "ok" => FormTested'
      BY <2>1, <2>2, <2>3 DEF FormTested, Tested
  <2>5. \A k \in Clients : Same(k)'
      BY <2>1 DEF Same
  <2> QED BY <1>2, <2>1, <2>4, <2>5, ListedFrame DEF Vouched
<1>5. ASSUME NEW r \in Rows, removeServer(r)
      PROVE  Vouched'
  <2>1. /\ UNCHANGED <<flow, cmd, passed, stored, key, drawer>>
        /\ status' = [status EXCEPT ![r] = "gone"]
        /\ shown' = [shown EXCEPT ![r] = {}]
      BY <1>5 DEF removeServer, remove
  <2>2. FormTested => FormTested'
    <3>1. ASSUME drawer.id # Add, status'[drawer.id] = "live"
          PROVE  status[drawer.id] = "live"
        BY <1>0, <2>1, <3>1 DEF Drawers, Ids
    <3> QED BY <2>1, <3>1 DEF FormTested, Tested
  <2>3. \A k \in Clients : Same(k)'
      BY <2>1, <2>2, SameFrame DEF Vouched
  <2>4. ListedAsStored'
      BY <1>0, <1>2, <2>1 DEF Vouched, ListedAsStored
  <2> QED BY <2>1, <2>2, <2>3, <2>4 DEF Vouched
<1>6. ASSUME NEW f \in Fields, NEW text \in Texts \cup {NoText}, Type(f, text)
      PROVE  Vouched'
  <2>1. /\ UNCHANGED <<flow, status, stored, shown>>
        /\ \A k \in Clients : flow[k] = {}
      BY <1>1, <1>6 DEF Type, storeVars
  <2>2. PICK state \in StatesAfter(drawer.state) :
          drawer' = [drawer EXCEPT !.fields[f] = text, !.state = state]
      BY <1>6 DEF Type
  <2>3. drawer'.state = state
      BY <1>0, <2>2 DEF Drawers
  <2>4. drawer'.state # "ok"
      BY <2>3 DEF StatesAfter
  <2>5. \A k \in Clients : Same(k)'
      BY <2>1 DEF Same
  <2> QED BY <1>2, <2>1, <2>4, <2>5, ListedFrame DEF Vouched
<1>7. ASSUME NEW k \in Clients, SaveTested(k)
      PROVE  Vouched'
  <2>1. FormTested /\ flow[k] = {} /\ Commits(k) /\ UNCHANGED <<shown, passed, drawer>>
      BY <1>7 DEF SaveTested, Vouched
  <2> QED BY <2>1, CommitsVouched
<1>8. ASSUME NEW k \in Clients, NEW save \in BOOLEAN, test(k, save)
      PROVE  Vouched'
  <2>1. /\ UNCHANGED <<cmd, passed, status, stored, key, shown>>
        /\ drawer' = [drawer EXCEPT !.state = "testing"]
        /\ flow' = [flow EXCEPT ![k] = {[at |-> "asked", data |-> drawer.fields,
                                         id |-> drawer.id, save |-> save]}]
        /\ flow[k] = {}
      BY <1>8 DEF test, storeVars
  <2>2. /\ drawer'.id = drawer.id /\ drawer'.fields = drawer.fields
        /\ drawer'.state # "ok"
      BY <1>0, <2>1 DEF Drawers
  <2>3. FormTested' <=> FormTested
      BY <2>1, <2>2, TestedFrame
  <2>4. flow'[k] = {[at |-> "asked", data |-> drawer.fields, id |-> drawer.id,
                     save |-> save]}
      BY <1>0, <2>1
  <2>5. \A j \in Clients : j # k => flow'[j] = flow[j]
      BY <1>0, <2>1
  <2>6. Same(k)'
      BY <2>2, <2>4 DEF Same
  <2>7. \A j \in Clients : j # k => Same(j)'
      BY <2>1, <2>2, <2>3, <2>5, SameFrame DEF Vouched
  <2>8. \A r \in Rows : Answering(r) => Answering(r)'
      BY <2>1, <2>5 DEF Answering
  <2> QED BY <2>1, <2>2, <2>6, <2>7, <2>8, ListedFrame DEF Vouched
<1> QED BY <1>3, <1>4, <1>5, <1>6, <1>7, <1>8 DEF User

\* A step of client k's flow that leaves the list and what the drawer holds.
LEMMA FlowVouched ==
  ASSUME FormInv, Vouched, NEW k \in Clients,
         \A j \in Clients : j # k => flow'[j] = flow[j] /\ cmd'[j] = cmd[j],
         drawer'.id = drawer.id, drawer'.fields = drawer.fields,
         FormTested => FormTested',
         drawer'.state = "ok" => FormTested',
         Same(k)',
         ListedAsStored'
  PROVE  Vouched'
<1>1. \A j \in Clients : j # k => Same(j)'
    BY SameFrame DEF Vouched
<1> QED BY <1>1 DEF Vouched

\* servers_test_connection vouches for what the drawer holds.
LEMMA TestVouched ==
  ASSUME FormInv, Vouched, Clean', NEW k \in Clients, TestRuns(k)
  PROVE  Vouched'
<1>0. /\ flow = [j \in Clients |-> flow[j]]
      /\ flow[k] \in SUBSET FormRecords /\ \A w, x \in flow[k] : w = x
      /\ drawer.id \in Ids /\ Add \notin Rows
    BY FormAssumption DEF FormInv, FlowsOK, FlowOK, DrawerOK, Drawers
<1>1. PICK v \in flow[k] : v.at = "asked"
    BY DEF TestRuns, At
<1>2. flow[k] = {v} /\ v.data = drawer.fields /\ v.id = drawer.id
    BY <1>0, <1>1 DEF Vouched, Same
<1>3. UNCHANGED <<cmd, status, stored, key, shown, drawer>>
    BY DEF TestRuns, storeVars
<1>4. LET texts == IF drawer.id \in Rows /\ status[drawer.id] = "live"
                   THEN Resolved(key, stored[drawer.id], drawer.fields) ELSE drawer.fields
      IN \/ Moves(k, "passed") /\ passed' = {texts}
         \/ Moves(k, "refused") /\ UNCHANGED passed
    BY <1>2 DEF TestRuns, Filled, Clean
<1>5. \A j \in Clients : j # k => flow'[j] = flow[j]
    BY <1>0, <1>4 DEF Moves
<1>6. FormTested => FormTested'
  <2>1. CASE UNCHANGED passed
      BY <1>3, <2>1, TestedFrame
  <2>2. CASE passed' # passed
      BY <1>0, <1>3, <1>4, <2>2 DEF FormTested, Tested, Ids
  <2> QED BY <2>1, <2>2
<1>7. Same(k)'
  <2>1. CASE Moves(k, "passed")
    <3>1. FormTested'
      <4>1. CASE Moves(k, "refused") /\ UNCHANGED passed
        <5>1. flow'[k] = {[v EXCEPT !.at = "passed", !.data = Blank]}
            BY <1>0, <1>2, <2>1 DEF Moves
        <5>2. flow'[k] = {[v EXCEPT !.at = "refused", !.data = Blank]}
            BY <1>0, <1>2, <4>1 DEF Moves
        <5>3. [v EXCEPT !.at = "passed", !.data = Blank].at = "passed"
              /\ [v EXCEPT !.at = "refused", !.data = Blank].at = "refused"
            BY <1>0 DEF FormRecords
        <5> QED BY <5>1, <5>2, <5>3
      <4>2. CASE passed' = {IF drawer.id \in Rows /\ status[drawer.id] = "live"
                            THEN Resolved(key, stored[drawer.id], drawer.fields)
                            ELSE drawer.fields}
          BY <1>0, <1>3, <4>2 DEF FormTested, Tested, Ids
      <4> QED BY <1>4, <4>1, <4>2
    <3>2. flow'[k] = {[v EXCEPT !.at = "passed", !.data = Blank]}
        BY <1>0, <1>2, <2>1 DEF Moves
    <3>3. \A w \in flow'[k] : w.at = "passed" /\ w.id = drawer.id
        BY <1>0, <1>2, <3>2 DEF FormRecords
    <3> QED BY <1>3, <3>1, <3>3 DEF Same
  <2>2. CASE Moves(k, "refused")
    <3>1. flow'[k] = {[v EXCEPT !.at = "refused", !.data = Blank]}
        BY <1>0, <1>2, <2>2 DEF Moves
    <3>2. \A w \in flow'[k] : w.at = "refused" /\ w.id = drawer.id
        BY <1>0, <1>2, <3>1 DEF FormRecords
    <3> QED BY <1>3, <3>2 DEF Same
  <2> QED BY <1>4, <2>1, <2>2
<1>8. ListedAsStored'
  <2>1. \A r \in Rows : Answering(r) => Answering(r)'
      BY <1>1, <1>2, <1>5 DEF Answering
  <2> QED BY <1>3, <2>1, ListedFrame DEF Vouched
<1>9. drawer'.state = "ok" => FormTested'
    BY <1>3, <1>6 DEF Vouched
<1> QED BY <1>3, <1>5, <1>6, <1>7, <1>8, <1>9, FlowVouched

\* The continuations of test().
LEMMA TestedVouched ==
  ASSUME FormInv, Vouched, NEW k \in Clients, TestPassed(k) \/ TestFailed(k)
  PROVE  Vouched'
<1>0. /\ flow = [j \in Clients |-> flow[j]] /\ drawer \in Drawers
      /\ \A w, x \in flow[k] : w = x
    BY DEF FormInv, FlowsOK, FlowOK, DrawerOK
<1>1. PICK v \in flow[k] : v.at \in {"passed", "refused"}
    BY DEF TestPassed, TestFailed, At
<1>2. flow[k] = {v}
    BY <1>0, <1>1
<1>3. UNCHANGED <<passed, shown>> /\ drawer'.id = drawer.id /\ drawer'.fields = drawer.fields
    BY <1>0 DEF TestPassed, TestFailed, Drawers
<1>4. drawer'.state = "ok" => FormTested
  <2>1. CASE TestPassed(k)
    <3>1. v.at = "passed"
        BY <1>2, <2>1 DEF TestPassed, At
    <3> QED BY <1>2, <3>1 DEF Vouched, Same
  <2>2. CASE TestFailed(k)
      BY <1>0, <2>2 DEF TestFailed, Drawers
  <2> QED BY <2>1, <2>2
<1>5. CASE Ends(k) /\ UNCHANGED storeVars
  <2>1. flow'[k] = {} /\ \A j \in Clients : j # k => flow'[j] = flow[j] /\ cmd'[j] = cmd[j]
      BY <1>0, <1>5 DEF Ends, storeVars
  <2>2. FormTested' <=> FormTested
      BY <1>3, <1>5, TestedFrame DEF storeVars
  <2>3. Same(k)'
      BY <2>1 DEF Same
  <2>4. \A r \in Rows : Answering(r) => Answering(r)'
      BY <1>1, <1>2, <2>1 DEF Answering
  <2>5. ListedAsStored'
      BY <1>3, <1>5, <2>4, ListedFrame DEF storeVars, Vouched
  <2> QED BY <1>3, <1>4, <2>1, <2>2, <2>3, <2>5, FlowVouched
<1>6. CASE TestPassed(k) /\ Commits(k)
  <2>1. FormTested
    <3>1. v.at = "passed"
        BY <1>2, <1>6 DEF TestPassed, At
    <3> QED BY <1>2, <3>1 DEF Vouched, Same
  <2> QED BY <1>1, <1>2, <1>3, <1>6, <2>1, CommitsVouched
<1> QED BY <1>5, <1>6 DEF TestPassed, TestFailed

\* servers_create stores what was tested.
LEMMA CreatedVouched ==
  ASSUME FormInv, Vouched, NEW k \in Clients, NEW r \in Rows, Created(k, r)
  PROVE  Vouched' /\ TextsOf(stored'[r]) \in passed
<1>0. /\ flow = [j \in Clients |-> flow[j]]
      /\ flow[k] \in SUBSET FormRecords /\ \A w, x \in flow[k] : w = x
      /\ stored \in [Rows -> [Fields -> Stored]]
      /\ status \in [Rows -> {"new", "live", "gone"}]
      /\ Add \notin Rows
    BY FormAssumption DEF FormInv, FlowsOK, FlowOK, StoreTypeOK
<1>1. PICK v \in flow[k] : v.at = "create"
    BY DEF Created, At
<1>2. /\ flow[k] = {v} /\ v.data = drawer.fields /\ v.id = drawer.id
      /\ v.id = Add /\ v.data \in Contents
      /\ FormTested
    BY <1>0, <1>1 DEF Vouched, Same, FormInv, FlowsOK, FlowOK
<1>3. /\ create(r, v.data) /\ UNCHANGED <<shown, drawer, passed, cmd>>
      /\ flow' = [flow EXCEPT ![k] = {[w EXCEPT !.at = "answer", !.id = r] : w \in @}]
    BY <1>2 DEF Created, create
<1>4. /\ flow'[k] = {[v EXCEPT !.at = "answer", !.id = r]}
      /\ \A j \in Clients : j # k => flow'[j] = flow[j]
    BY <1>0, <1>2, <1>3
<1>5. \A w \in flow'[k] : w.at = "answer" /\ w.id = r
    BY <1>0, <1>4 DEF FormRecords
<1>6. v.data \in passed
    BY <1>2 DEF FormTested, Tested
<1>7. FormTested'
    BY <1>2, <1>3, <1>6 DEF FormTested, Tested
<1>8. Same(k)'
    BY <1>5 DEF Same
<1>9. ListedAsStored'
  <2>1. Answering(r)'
      BY <1>4, <1>5 DEF Answering
  <2>2. \A q \in Rows : Answering(q) => Answering(q)'
      BY <1>1, <1>2, <1>4 DEF Answering
  <2>3. \A q \in Rows : q # r => status'[q] = status[q] /\ stored'[q] = stored[q]
      BY <1>0, <1>3 DEF create
  <2> QED BY <1>3, <2>1, <2>2, <2>3 DEF Vouched, ListedAsStored
<1>10. TextsOf(stored'[r]) = v.data
  <2>1. stored'[r] = [f \in Fields |-> Encrypt(key, v.data[f])]
      BY <1>0, <1>3 DEF create
  <2>2. \A f \in Fields : Encrypt(key, v.data[f]).text = v.data[f]
      BY DEF Encrypt, Nothing
  <2> QED BY <1>2, <2>1, <2>2 DEF TextsOf, Contents
<1>11. Vouched'
    BY <1>3, <1>4, <1>7, <1>8, <1>9, FlowVouched
<1> QED BY <1>6, <1>10, <1>11

\* servers_update stores what was tested, or changes no text.
LEMMA UpdatedVouched ==
  ASSUME FormInv, TableInv, Clean, Vouched, NEW k \in Clients, Updated(k)
  PROVE  /\ Vouched'
         /\ \A r \in Rows : status[r] = "live" =>
              \/ TextsOf(stored'[r]) = TextsOf(stored[r])
              \/ TextsOf(stored'[r]) \in passed
<1>0. /\ flow = [j \in Clients |-> flow[j]]
      /\ flow[k] \in SUBSET FormRecords /\ \A w, x \in flow[k] : w = x
      /\ stored \in [Rows -> [Fields -> Stored]]
      /\ cmd \in [Clients -> SUBSET Updates] /\ \A c, d \in cmd[k] : c = d
      /\ key \in Keys /\ drawer.fields \in Patches /\ Add \notin Rows
    BY FormAssumption DEF FormInv, FlowsOK, FlowOK, StoreTypeOK, DrawerOK, Drawers
<1>1. PICK v \in flow[k] : v.at = "update"
    BY DEF Updated, At
<1>2. PICK c \in cmd[k] : stored' = [stored EXCEPT ![c.row] =
           IF status[c.row] = "live" THEN Patched(key, c.old, c.patch) ELSE @]
    BY DEF Updated, Write
<1>3. /\ flow[k] = {v} /\ cmd[k] = {c} /\ FormTested
      /\ c.row \in Rows /\ c.row = drawer.id /\ v.id = drawer.id
      /\ c.patch = drawer.fields
    BY <1>0, <1>1, <1>2 DEF Vouched, Same, FormInv, FlowsOK, FlowOK, Updates
<1>4. /\ UNCHANGED <<status, key, shown, drawer, passed>>
      /\ cmd' = [cmd EXCEPT ![k] = {}]
      /\ flow' = [flow EXCEPT ![k] = {[w EXCEPT !.at = "answer", !.data = Blank] : w \in @}]
    BY DEF Updated, Write, Moves
<1>5. /\ flow'[k] = {[v EXCEPT !.at = "answer", !.data = Blank]}
      /\ \A j \in Clients : j # k => flow'[j] = flow[j] /\ cmd'[j] = cmd[j]
    BY <1>0, <1>3, <1>4
<1>6. \A w \in flow'[k] : w.at = "answer" /\ w.id = c.row
    BY <1>0, <1>3, <1>5 DEF FormRecords
<1>7. Same(k)'
    BY <1>6 DEF Same
<1>8. \A r \in Rows : r # c.row => stored'[r] = stored[r]
    BY <1>0, <1>2
<1>9. ASSUME status[c.row] = "live"
      PROVE  /\ TextsOf(stored'[c.row]) = Resolved(key, stored[c.row], drawer.fields)
             /\ Resolved(key, stored'[c.row], drawer.fields)
                  = Resolved(key, stored[c.row], drawer.fields)
  <2>1. c.old = stored[c.row]
      BY <1>9 DEF Clean, TableInv, Apart, Exclusive
  <2>2. Readable(stored[c.row])
      BY <1>3 DEF Clean, TableInv, Kept, Undisturbed
  <2>3. stored'[c.row] = Patched(key, stored[c.row], drawer.fields)
      BY <1>0, <1>2, <1>3, <1>9, <2>1
  <2>4. stored[c.row] \in [Fields -> Stored]
      BY <1>0, <1>3
  <2> QED BY <1>0, <2>2, <2>3, <2>4, PatchedMeans
<1>10. FormTested'
  <2>1. CASE status[c.row] = "live"
      BY <1>0, <1>3, <1>4, <1>9, <2>1 DEF FormTested, Tested
  <2>2. CASE status[c.row] # "live"
      BY <1>0, <1>3, <1>4, <2>2 DEF FormTested, Tested
  <2> QED BY <2>1, <2>2
<1>11. ListedAsStored'
  <2>1. Answering(c.row)'
      BY <1>5, <1>6 DEF Answering
  <2>2. \A q \in Rows : Answering(q) => Answering(q)'
      BY <1>1, <1>3, <1>5 DEF Answering
  <2> QED BY <1>4, <1>8, <2>1, <2>2 DEF Vouched, ListedAsStored
<1>12. Vouched'
    BY <1>4, <1>5, <1>7, <1>10, <1>11, FlowVouched
<1>13. ASSUME NEW r \in Rows, status[r] = "live"
       PROVE  \/ TextsOf(stored'[r]) = TextsOf(stored[r])
              \/ TextsOf(stored'[r]) \in passed
  <2>1. CASE r # c.row
      BY <1>8, <2>1
  <2>2. CASE r = c.row
      BY <1>0, <1>3, <1>9, <1>13, <2>2 DEF FormTested, Tested
  <2> QED BY <2>1, <2>2
<1> QED BY <1>12, <1>13

\* An answer that is taken: the list shows the row, and the drawer is closed.
LEMMA SavedVouched ==
  ASSUME FormInv, Vouched, NEW k \in Clients, Saved(k)
  PROVE  Vouched'
<1>0. /\ flow = [j \in Clients |-> flow[j]] /\ drawer \in Drawers
      /\ \A w, x \in flow[k] : w = x
    BY DEF FormInv, FlowsOK, FlowOK, DrawerOK
<1>1. PICK v \in flow[k] : v.at = "answer"
    BY DEF Saved, At
<1>2. flow[k] = {v}
    BY <1>0, <1>1
<1>3. /\ UNCHANGED <<status, stored, key, cmd, passed>>
      /\ drawer' = Forgotten(drawer, Clients \ {k})
      /\ shown' = [r \in Rows |-> IF v.id = r THEN {Masked(stored[r])} ELSE shown[r]]
    BY <1>2 DEF Saved, storeVars
<1>4. flow'[k] = {} /\ \A j \in Clients : j # k => flow'[j] = flow[j] /\ cmd'[j] = cmd[j]
    BY <1>0, <1>3 DEF Saved, Ends
<1>5. ListedAsStored'
  <2>1. \A q \in Rows : q # v.id /\ Answering(q) => Answering(q)'
      BY <1>2, <1>4 DEF Answering
  <2> QED BY <1>3, <2>1 DEF Vouched, ListedAsStored
<1>6. CASE \A j \in Clients \ {k} : flow[j] = {}
  <2>1. drawer'.state = "untested"
      BY <1>3, <1>6 DEF Forgotten, Closed
  <2>2. \A j \in Clients : flow'[j] = {}
      BY <1>4, <1>6
  <2> QED BY <1>5, <2>1, <2>2 DEF Vouched, Same
<1>7. CASE ~ \A j \in Clients \ {k} : flow[j] = {}
  <2>1. /\ drawer'.id = drawer.id /\ drawer'.fields = drawer.fields
        /\ drawer'.state = drawer.state
      BY <1>0, <1>3, <1>7 DEF Forgotten, Drawers
  <2>2. FormTested' <=> FormTested
      BY <1>3, <2>1, TestedFrame
  <2>3. Same(k)'
      BY <1>4 DEF Same
  <2>4. drawer'.state = "ok" => FormTested'
      BY <2>1, <2>2 DEF Vouched
  <2> QED BY <1>4, <1>5, <2>1, <2>2, <2>3, <2>4, FlowVouched
<1> QED BY <1>6, <1>7

LEMMA RefusedVouched ==
  ASSUME FormInv, Vouched, NEW k \in Clients, SaveFails(k)
  PROVE  Vouched'
<1>0. /\ flow = [j \in Clients |-> flow[j]] /\ cmd \in [Clients -> SUBSET Updates]
      /\ \A w, x \in flow[k] : w = x
    BY DEF FormInv, FlowsOK, FlowOK, StoreTypeOK
<1>1. PICK v \in flow[k] : v.at \in {"create", "update"}
    BY DEF SaveFails, At
<1>2. flow[k] = {v}
    BY <1>0, <1>1
<1>3. UNCHANGED <<status, stored, key, shown, drawer, passed>>
    BY DEF SaveFails, UpdateFails, storeVars
<1>4. flow'[k] = {} /\ \A j \in Clients : j # k => flow'[j] = flow[j] /\ cmd'[j] = cmd[j]
    BY <1>0 DEF SaveFails, Ends, UpdateFails, storeVars
<1>5. FormTested' <=> FormTested
    BY <1>3, TestedFrame
<1>6. Same(k)'
    BY <1>4 DEF Same
<1>7. \A q \in Rows : Answering(q) => Answering(q)'
    BY <1>1, <1>2, <1>4 DEF Answering
<1>8. ListedAsStored'
    BY <1>3, <1>7, ListedFrame DEF Vouched
<1>9. drawer'.state = "ok" => FormTested'
    BY <1>3, <1>5 DEF Vouched
<1> QED BY <1>3, <1>4, <1>5, <1>6, <1>8, <1>9, FlowVouched

\* Mishaps and slips are not forgotten.
LEMMA CleanBefore ==
  ASSUME FormInv, [ServerNext]_serverVars, Clean'
  PROVE  Clean
<1>1. mishaps \subseteq mishaps'
    BY FormStepsStore DEF StoreNext, storeVars, remove, create, Write, UpdateFails, Fetch, Restart
<1>2. slips \subseteq slips'
    BY DEF ServerNext, serverVars, formVars, Reboot, User, Close, Open, Acts, removeServer,
           Type, SaveTested, test, Flow, TestRuns, TestPassed, TestFailed, Updated, Saved,
           SaveFails, SaveUnanswered, Created
<1> QED BY <1>1, <1>2 DEF Clean

LEMMA TestStep ==
  ASSUME FormInv, TableInv, TestInv, [ServerNext]_serverVars
  PROVE  TestInv'
<1> SUFFICES ASSUME Clean' PROVE Vouched'
    BY DEF TestInv
<1>1. Clean /\ Vouched
    BY CleanBefore DEF TestInv
<1>2. CASE Reboot
  <2>1. /\ \A k \in Clients : flow'[k] = {}
        /\ drawer'.state = "untested"
        /\ shown' = AllShown /\ UNCHANGED <<status, stored>>
      BY <1>2 DEF Reboot, Restart, Closed
  <2>2. ListedAsStored'
      BY <2>1 DEF ListedAsStored, AllShown
  <2> QED BY <2>1, <2>2 DEF Vouched, Same
<1>3. CASE User
    BY <1>1, <1>3, UserVouched
<1>4. ASSUME NEW k \in Clients, Flow(k)
      PROVE  Vouched'
  <2>1. ~ SaveUnanswered(k)
      BY DEF SaveUnanswered, Clean
  <2> QED BY <1>1, <1>4, <2>1, TestVouched, TestedVouched, UpdatedVouched, SavedVouched,
             RefusedVouched, CreatedVouched DEF Flow
<1>5. CASE UNCHANGED serverVars
    BY <1>1, <1>5 DEF serverVars, formVars, storeVars, Vouched, Same, FormTested, Tested,
                      ListedAsStored, Answering
<1> QED BY <1>2, <1>3, <1>4, <1>5 DEF ServerNext

LEMMA TestInitially == ServerInit => TestInv
BY DEF ServerInit, AllShown, Closed, TestInv, Vouched, Same, ListedAsStored

\* As long as nothing went wrong, every flow works with what the drawer holds,
\* and what it is about to store was tested or is stored already.
THEOREM TestInvariant == ServerSpec => []TestInv
<1>1. FormInv /\ TableInv /\ TestInv /\ [ServerNext]_serverVars => TestInv'
    BY TestStep
<1> QED BY <1>1, TestInitially, FormInvariant, FormUsesTheStore, TableInvariant,
       PTL DEF ServerSpec

LEMMA StoredStep ==
  ASSUME FormInv, TableInv, TestInv, [ServerNext]_serverVars, Clean,
         NEW r \in Rows, status'[r] = "live"
  PROVE  \/ status[r] = "live" /\ TextsOf(stored'[r]) = TextsOf(stored[r])
         \/ TextsOf(stored'[r]) \in passed
<1>0. /\ Vouched
      /\ status \in [Rows -> {"new", "live", "gone"}] /\ stored \in [Rows -> [Fields -> Stored]]
    BY DEF TestInv, FormInv, StoreTypeOK
<1>1. ASSUME UNCHANGED <<status, stored>>
      PROVE  status[r] = "live" /\ TextsOf(stored'[r]) = TextsOf(stored[r])
    BY <1>1
<1>2. CASE Reboot
    BY <1>1, <1>2 DEF Reboot, Restart
<1>3. CASE User
  <2>1. ASSUME NEW q \in Rows, removeServer(q)
        PROVE  status[r] = "live" /\ TextsOf(stored'[r]) = TextsOf(stored[r])
      BY <1>0, <2>1 DEF removeServer, remove
  <2>2. ASSUME NEW k \in Clients, SaveTested(k)
        PROVE  UNCHANGED <<status, stored>>
      BY <2>2 DEF SaveTested, Commits, Fetch, storeVars
  <2> QED BY <1>1, <1>3, <2>1, <2>2 DEF User, Close, Open, Type, test, storeVars
<1>4. ASSUME NEW k \in Clients, Flow(k)
      PROVE  \/ status[r] = "live" /\ TextsOf(stored'[r]) = TextsOf(stored[r])
             \/ TextsOf(stored'[r]) \in passed
  <2>1. ASSUME NEW q \in Rows, Created(k, q)
        PROVE  \/ status[r] = "live" /\ TextsOf(stored'[r]) = TextsOf(stored[r])
               \/ TextsOf(stored'[r]) \in passed
    <3>1. r # q => status'[r] = status[r] /\ stored'[r] = stored[r]
        BY <1>0, <2>1 DEF Created, create
    <3>2. TextsOf(stored'[q]) \in passed
        BY <1>0, <2>1, CreatedVouched
    <3> QED BY <3>1, <3>2
  <2>2. ASSUME Updated(k)
        PROVE  \/ status[r] = "live" /\ TextsOf(stored'[r]) = TextsOf(stored[r])
               \/ TextsOf(stored'[r]) \in passed
    <3>1. status'[r] = status[r]
        BY <2>2 DEF Updated, Write
    <3> QED BY <1>0, <2>2, <3>1, UpdatedVouched
  <2>3. ASSUME TestPassed(k)
        PROVE  UNCHANGED <<status, stored>>
      BY <2>3 DEF TestPassed, Commits, Fetch, storeVars
  <2>4. ASSUME TestRuns(k) \/ TestFailed(k) \/ Saved(k) \/ SaveFails(k) \/ SaveUnanswered(k)
        PROVE  UNCHANGED <<status, stored>>
      BY <2>4 DEF TestRuns, TestFailed, Saved, SaveFails, UpdateFails, SaveUnanswered, storeVars
  <2> QED BY <1>1, <1>4, <2>1, <2>2, <2>3, <2>4 DEF Flow
<1>5. CASE UNCHANGED serverVars
    BY <1>1, <1>5 DEF serverVars, storeVars
<1> QED BY <1>2, <1>3, <1>4, <1>5 DEF ServerNext

\* ServerFormDrawer.vue, save: a server is only ever added or changed to the
\* connection that passed the last test, as long as the form is left alone while
\* a flow is under way.
THEOREM OnlyTestedIsStored == ServerSpec => StoredWasTested
<1>1. FormInv /\ TableInv /\ TestInv /\ [ServerNext]_serverVars =>
        [ slips = {} /\ mishaps = {} =>
            \A r \in Rows : status'[r] = "live" =>
              \/ status[r] = "live" /\ TextsOf(stored[r])' = TextsOf(stored[r])
              \/ TextsOf(stored[r])' \in passed ]_serverVars
  <2> SUFFICES ASSUME FormInv, TableInv, TestInv, [ServerNext]_serverVars, Clean,
                      NEW r \in Rows, status'[r] = "live"
               PROVE  \/ status[r] = "live" /\ TextsOf(stored[r])' = TextsOf(stored[r])
                      \/ TextsOf(stored[r])' \in passed
      BY DEF Clean
  <2>1. TextsOf(stored[r])' = TextsOf(stored'[r])
      BY DEF TextsOf
  <2> QED BY <2>1, StoredStep
<1> QED BY <1>1, FormInvariant, FormUsesTheStore, TableInvariant, TestInvariant, PTL
        DEF ServerSpec, StoredWasTested

-----------------------------------------------------------------------------
(* The page of channels is another user of the store.                      *)

ListingsOK ==
  /\ opts \in [Rows -> Options]
  /\ list \subseteq Listings /\ rows \in [Clients -> SUBSET Listings]

RequestsOK ==
  /\ step \in [Clients -> {"idle", "update", "load", "answer"}]
  /\ sent \in [Clients -> SUBSET [opts : Options, whole : BOOLEAN]]
  /\ \A k \in Clients : step[k] = "update" <=> cmd[k] # {}
  /\ \A k \in Clients : \A s, t \in sent[k] : s = t

WantedOK ==
  /\ wanted \in [Rows -> [texts : Contents, opts : Options]]
  /\ failed \in BOOLEAN /\ hasty \in BOOLEAN

PageInv == StoreTypeOK /\ ListingsOK /\ RequestsOK /\ WantedOK

\* What the page does to the table is a step of the table.
LEMMA PageStepsStore ==
  ASSUME PageInv, [ChannelNext]_channelVars
  PROVE  [StoreNext]_storeVars
<1>1. ASSUME NEW k \in Clients, Asks(k)
      PROVE  [StoreNext]_storeVars
  <2>1. ASSUME NEW e \in list, toggleEnabled(k, e) \/ doDelete(k, e)
        PROVE  [StoreNext]_storeVars
    <3>1. e.row \in Rows /\ e.shown \in Patches
        BY TextTypes DEF PageInv, ListingsOK, Listings
    <3> QED BY <2>1, <3>1 DEF toggleEnabled, Send, doDelete, StoreNext
  <2>2. ASSUME NEW e \in list, NEW patch \in Patches, NEW o \in Options, Save(k, e, patch, o)
        PROVE  [StoreNext]_storeVars
    <3>1. e.row \in Rows
        BY DEF PageInv, ListingsOK, Listings
    <3> QED BY <2>2, <3>1 DEF Save, Send, StoreNext
  <2>3. ASSUME NEW r \in Rows, NEW texts \in Contents, NEW o \in Options,
               AddChannel(k, r, texts, o)
        PROVE  [StoreNext]_storeVars
      BY <2>3 DEF AddChannel, StoreNext
  <2> QED BY <1>1, <2>1, <2>2, <2>3 DEF Asks, OpenPage
<1>2. ASSUME NEW k \in Clients, Answer(k)
      PROVE  [StoreNext]_storeVars
    BY <1>2 DEF Answer, Written, Refused, LoadReads, LoadAnswers, LoadFails, StoreNext
<1>3. CASE Relaunch
    BY <1>3 DEF Relaunch, StoreNext
<1>4. CASE UNCHANGED channelVars
    BY <1>4 DEF channelVars
<1> QED BY <1>1, <1>2, <1>3, <1>4 DEF ChannelNext

LEMMA ListedTypes ==
  ASSUME ListingsOK
  PROVE  Listed \subseteq Listings
<1>1. \A r \in Rows : opts[r] \in Options /\ Masked(stored[r]) \in [Fields -> {NoText, Keep}]
    BY TextTypes DEF ListingsOK
<1> QED BY <1>1 DEF Listed, Live, Listings

LEMMA WantedTypes ==
  ASSUME StoreTypeOK, WantedOK, NEW k \in Clients, NEW c \in cmd[k],
         NEW s \in [opts : Options, whole : BOOLEAN]
  PROVE  Wanted(c.row, c, s) \in [texts : Contents, opts : Options]
<1>1. c.row \in Rows /\ c.patch \in Patches
    BY DEF StoreTypeOK, Updates
<1>2. wanted[c.row].texts \in Contents /\ wanted[c.row].opts \in Options
    BY <1>1 DEF WantedOK
<1>3. V!Applied(wanted[c.row].texts, c.patch) \in Contents
  <2>1. ASSUME NEW f \in Fields
        PROVE  (IF c.patch[f] = Keep THEN wanted[c.row].texts[f] ELSE c.patch[f])
                 \in Texts \cup {NoText}
      BY <1>1, <1>2 DEF Contents, Patches
  <2> QED BY <2>1 DEF V!Applied, Contents
<1>4. [wanted[c.row].opts EXCEPT !.enabled = s.opts.enabled] \in Options
    BY <1>2 DEF Options
<1> QED BY <1>2, <1>3, <1>4 DEF Wanted

LEMMA SendTypes ==
  ASSUME PageInv, NEW k \in Clients, NEW r \in Rows, NEW patch \in Patches,
         NEW o \in Options, NEW whole \in BOOLEAN, Send(k, r, patch, o, whole),
         hasty' \in BOOLEAN
  PROVE  ListingsOK' /\ RequestsOK' /\ WantedOK'
<1>1. /\ cmd'[k] # {} /\ \A j \in Clients : j # k => cmd'[j] = cmd[j]
    BY DEF Send, Fetch, PageInv, StoreTypeOK
<1>2. /\ step' = [step EXCEPT ![k] = "update"]
      /\ sent' = [sent EXCEPT ![k] = {[opts |-> o, whole |-> whole]}]
    BY DEF Send, Goes
<1>3. RequestsOK'
    BY <1>1, <1>2 DEF PageInv, RequestsOK
<1> QED BY <1>3 DEF Send, PageInv, ListingsOK, WantedOK

LEMMA AskTypes ==
  ASSUME PageInv, NEW k \in Clients, Asks(k)
  PROVE  ListingsOK' /\ RequestsOK' /\ WantedOK'
<1>1. ASSUME Hurries PROVE hasty' \in BOOLEAN
    BY <1>1 DEF Hurries, PageInv, WantedOK
<1>2. CASE OpenPage(k)
    BY <1>2 DEF OpenPage, storeVars, PageInv, ListingsOK, RequestsOK, WantedOK
<1>3. ASSUME NEW e \in list, toggleEnabled(k, e)
      PROVE  ListingsOK' /\ RequestsOK' /\ WantedOK'
  <2>1. e.row \in Rows /\ e.shown \in Patches /\ e.opts \in Options
      BY TextTypes DEF PageInv, ListingsOK, Listings
  <2>2. [e.opts EXCEPT !.enabled = ~@] \in Options
      BY <2>1 DEF Options
  <2>3. hasty' \in BOOLEAN /\ Send(k, e.row, e.shown, [e.opts EXCEPT !.enabled = ~@], FALSE)
      BY <1>1, <1>3 DEF toggleEnabled
  <2> QED BY <2>1, <2>2, <2>3, SendTypes
<1>4. ASSUME NEW e \in list, NEW patch \in Patches, NEW o \in Options, Save(k, e, patch, o)
      PROVE  ListingsOK' /\ RequestsOK' /\ WantedOK'
  <2>1. e.row \in Rows
      BY DEF PageInv, ListingsOK, Listings
  <2>2. hasty' \in BOOLEAN /\ Send(k, e.row, patch, o, TRUE)
      BY <1>1, <1>4 DEF Save
  <2> QED BY <2>1, <2>2, SendTypes
<1>5. ASSUME NEW e \in list, doDelete(k, e)
      PROVE  ListingsOK' /\ RequestsOK' /\ WantedOK'
  <2>1. RequestsOK'
      BY <1>5 DEF doDelete, remove, Reloads, Goes, PageInv, RequestsOK
  <2>2. WantedOK'
      BY <1>1, <1>5 DEF doDelete, Reloads, PageInv, WantedOK
  <2> QED BY <1>5, <2>1, <2>2 DEF doDelete, PageInv, ListingsOK
<1>6. ASSUME NEW r \in Rows, NEW texts \in Contents, NEW o \in Options,
             AddChannel(k, r, texts, o)
      PROVE  ListingsOK' /\ RequestsOK' /\ WantedOK'
  <2>1. RequestsOK'
      BY <1>6 DEF AddChannel, create, Reloads, Goes, PageInv, RequestsOK
  <2>2. WantedOK'
      BY <1>1, <1>6 DEF AddChannel, Reloads, PageInv, WantedOK
  <2> QED BY <1>6, <2>1, <2>2 DEF AddChannel, PageInv, ListingsOK
<1> QED BY <1>2, <1>3, <1>4, <1>5, <1>6 DEF Asks

LEMMA AnswerTypes ==
  ASSUME PageInv, NEW k \in Clients, Answer(k)
  PROVE  ListingsOK' /\ RequestsOK' /\ WantedOK'
<1>1. CASE Written(k)
  <2>1. PICK c \in cmd[k], s \in sent[k] :
          IF status[c.row] = "live"
          THEN /\ opts' = [opts EXCEPT ![c.row] = s.opts]
               /\ wanted' = [wanted EXCEPT ![c.row] = Wanted(c.row, c, s)]
               /\ Reloads(k)
          ELSE /\ Goes(k, "idle") /\ failed' = TRUE
               /\ UNCHANGED <<opts, wanted>>
      BY <1>1 DEF Written
  <2>2. s \in [opts : Options, whole : BOOLEAN] /\ s.opts \in Options /\ c.row \in Rows
      BY DEF PageInv, RequestsOK, StoreTypeOK, Updates
  <2>3. Wanted(c.row, c, s) \in [texts : Contents, opts : Options]
      BY <2>2, WantedTypes DEF PageInv
  <2>4. opts' \in [Rows -> Options]
      BY <2>1, <2>2 DEF PageInv, ListingsOK
  <2>5. wanted' \in [Rows -> [texts : Contents, opts : Options]]
      BY <2>1, <2>3 DEF PageInv, WantedOK
  <2>6. /\ cmd' = [cmd EXCEPT ![k] = {}] /\ sent' = [sent EXCEPT ![k] = {}]
        /\ UNCHANGED <<list, rows, hasty>>
      BY <1>1 DEF Written, Write
  <2>7. \E to \in {"idle", "load"} : step' = [step EXCEPT ![k] = to]
      BY <2>1 DEF Reloads, Goes
  <2>8. failed' \in BOOLEAN
      BY <2>1 DEF Reloads, PageInv, WantedOK
  <2>9. RequestsOK'
      BY <2>6, <2>7 DEF PageInv, RequestsOK, StoreTypeOK
  <2> QED BY <2>4, <2>5, <2>6, <2>8, <2>9 DEF PageInv, ListingsOK, WantedOK
<1>2. CASE Refused(k)
    BY <1>2 DEF Refused, UpdateFails, Goes, PageInv, StoreTypeOK, ListingsOK, RequestsOK, WantedOK
<1>3. CASE LoadReads(k)
    BY <1>3, ListedTypes
       DEF LoadReads, Goes, storeVars, PageInv, ListingsOK, RequestsOK, WantedOK
<1>4. CASE LoadAnswers(k)
    BY <1>4 DEF LoadAnswers, Goes, storeVars, PageInv, ListingsOK, RequestsOK, WantedOK
<1>5. CASE LoadFails(k)
    BY <1>5 DEF LoadFails, Goes, storeVars, PageInv, ListingsOK, RequestsOK, WantedOK
<1> QED BY <1>1, <1>2, <1>3, <1>4, <1>5 DEF Answer

LEMMA PageStep ==
  ASSUME PageInv, [ChannelNext]_channelVars
  PROVE  PageInv'
<1>1. StoreTypeOK'
    BY PageStepsStore, StoreTypeStep DEF PageInv
<1>2. CASE Relaunch
  <2>1. RequestsOK'
      BY <1>2 DEF Relaunch, Restart, RequestsOK
  <2>2. ListingsOK' /\ WantedOK'
      BY <1>2 DEF Relaunch, PageInv, ListingsOK, WantedOK
  <2> QED BY <1>1, <2>1, <2>2 DEF PageInv
<1>3. CASE UNCHANGED channelVars
    BY <1>1, <1>3 DEF channelVars, pageVars, storeVars, PageInv, ListingsOK, RequestsOK, WantedOK
<1> QED BY <1>1, <1>2, <1>3, AskTypes, AnswerTypes DEF ChannelNext, PageInv

LEMMA PageInitially == ChannelInit => PageInv
<1> SUFFICES ASSUME ChannelInit PROVE PageInv
    OBVIOUS
<1>1. StoreTypeOK
    BY StoreTypeInit DEF ChannelInit
<1>2. \A r \in Rows : TextsOf(stored[r]) \in Contents
    BY <1>1 DEF TextsOf, StoreTypeOK, Stored, Contents
<1>3. RequestsOK
    BY DEF ChannelInit, StoreInit, RequestsOK
<1> QED BY <1>1, <1>2, <1>3 DEF ChannelInit, PageInv, ListingsOK, WantedOK

\* Table, page and requests under way keep their types.
THEOREM PageInvariant == ChannelSpec => []PageInv
<1>1. PageInv /\ [ChannelNext]_channelVars => PageInv'
    BY PageStep
<1> QED BY <1>1, PageInitially, PTL DEF ChannelSpec

THEOREM ChannelTypeCorrect == ChannelSpec => []ChannelTypeOK
<1>1. PageInv => ChannelTypeOK
    BY DEF PageInv, ListingsOK, RequestsOK, WantedOK, ChannelTypeOK
<1> QED BY <1>1, PageInvariant, PTL

\* channels_create, channels_update and channels_delete are called by the page
\* as the store may be called.
THEOREM PageUsesTheStore == ChannelSpec => StoreSpec
<1>1. ChannelInit => StoreInit
    BY DEF ChannelInit
<1>2. PageInv /\ [ChannelNext]_channelVars => [StoreNext]_storeVars
    BY PageStepsStore
<1> QED BY <1>1, <1>2, PageInvariant, PTL DEF ChannelSpec, StoreSpec

\* crypto.rs, load, with the channels page in front: whatever the page's requests
\* and the restarts interleave to, every secret of a channel can be read after a
\* restart.
THEOREM PageKeepsSecrets == ChannelSpec => []SecretsOutliveRestart
BY PageUsesTheStore, SecretsSurvive

\* channels.rs, update, with the page as its user: a switch, which sends back what
\* is listed, masks included, never changes what is kept, and the dialog changes
\* what was entered in it and nothing else.
THEOREM PageImplementsVault == ChannelSpec /\ []Apart => ImplementsVault
BY PageUsesTheStore, StoreImplementsVault, PTL

-----------------------------------------------------------------------------
(* Alerts go as the user last said.  A page that waits for its answers has one *)
(* request under way at most, and what it lists when it has none is what the *)
(* table holds; so what a switch sends back changes nothing but the switch.  *)

AsStored(entries) ==
  \A e \in entries : status[e.row] = "live" =>
    e.opts = opts[e.row] /\ e.shown = Masked(stored[e.row])

\* What a switch sent by client k has under way is the row but for the switch.
Faithful(k) ==
  \A c \in cmd[k], s \in sent[k] : ~s.whole /\ status[c.row] = "live" =>
    /\ c.patch = Masked(stored[c.row])
    /\ s.opts = [opts[c.row] EXCEPT !.enabled = s.opts.enabled]

AsWanted == \A r \in Live : opts[r] = wanted[r].opts /\ TextsOf(stored[r]) = wanted[r].texts

Alone == \A j, k \in Clients : step[j] # "idle" /\ step[k] # "idle" => j = k

Chosen ==
  /\ AsWanted
  /\ Alone
  /\ \A k \in Clients : Faithful(k)
  /\ \A k \in Clients : step[k] = "answer" => AsStored(rows[k])
  /\ Quiet => AsStored(list)

ChosenInv == ~hasty /\ mishaps = {} => Chosen

LEMMA AsStoredFrame ==
  ASSUME NEW entries, AsStored(entries), UNCHANGED <<status, opts, stored>>
  PROVE  AsStored(entries)'
BY DEF AsStored

\* The page waits for nothing when the user asks for something.
LEMMA QuietAlone ==
  ASSUME PageInv, Quiet, NEW k \in Clients, NEW to, Goes(k, to)
  PROVE  /\ Alone'
         /\ \A j \in Clients : j # k => step'[j] = "idle"
         /\ step'[k] = to
         /\ \A j \in Clients : cmd[j] = {}
<1>1. /\ \A j \in Clients : j # k => step'[j] = "idle"
      /\ step'[k] = to
    BY DEF Quiet, Goes, PageInv, RequestsOK
<1>2. \A j \in Clients : cmd[j] = {}
    BY DEF Quiet, PageInv, RequestsOK
<1> QED BY <1>1, <1>2 DEF Alone

LEMMA SendChosen ==
  ASSUME PageInv, Chosen, Quiet, NEW k \in Clients, NEW r \in Rows, NEW patch, NEW o,
         NEW whole \in BOOLEAN, Send(k, r, patch, o, whole),
         ~whole => /\ patch = Masked(stored[r])
                   /\ o = [opts[r] EXCEPT !.enabled = o.enabled]
  PROVE  Chosen'
<1>1. /\ UNCHANGED <<status, opts, stored, wanted>>
      /\ Goes(k, "update")
      /\ sent' = [sent EXCEPT ![k] = {[opts |-> o, whole |-> whole]}]
      /\ cmd' = [cmd EXCEPT ![k] = {[row |-> r, patch |-> patch, old |-> stored[r]]}]
    BY DEF Send, Fetch
<1>2. /\ Alone' /\ step'[k] = "update"
      /\ \A j \in Clients : j # k => step'[j] = "idle"
      /\ \A j \in Clients : cmd[j] = {}
    BY <1>1, QuietAlone
<1>3. ~Quiet'
    BY <1>2 DEF Quiet
<1>4. AsWanted'
    BY <1>1 DEF Chosen, AsWanted, Live
<1>5. /\ cmd'[k] = {[row |-> r, patch |-> patch, old |-> stored[r]]}
      /\ sent'[k] = {[opts |-> o, whole |-> whole]}
      /\ \A j \in Clients : j # k => cmd'[j] = {}
    BY <1>1, <1>2 DEF PageInv, StoreTypeOK, RequestsOK
<1>6. ASSUME NEW j \in Clients PROVE Faithful(j)'
  <2>1. CASE j = k
      BY <1>1, <1>5, <2>1 DEF Faithful
  <2>2. CASE j # k
      BY <1>5, <2>2 DEF Faithful
  <2> QED BY <2>1, <2>2
<1>7. \A j \in Clients : step'[j] # "answer"
    BY <1>2
<1> QED BY <1>2, <1>3, <1>4, <1>6, <1>7 DEF Chosen

\* Once a change is executed the page loads its list, or shows an error.
LEMMA ReloadNotQuiet ==
  ASSUME PageInv, NEW k \in Clients, Reloads(k)
  PROVE  ~Quiet' /\ \E to \in {"idle", "load"} : Goes(k, to)
BY DEF Reloads, Goes, Quiet, PageInv, RequestsOK

LEMMA AskChosen ==
  ASSUME PageInv, Chosen, ~hasty, ~hasty', NEW k \in Clients, Asks(k)
  PROVE  Chosen'
<1>0. /\ stored \in [Rows -> [Fields -> Stored]]
      /\ status \in [Rows -> {"new", "live", "gone"}]
      /\ opts \in [Rows -> Options]
      /\ wanted \in [Rows -> [texts : Contents, opts : Options]]
      /\ list \subseteq Listings
    BY DEF PageInv, StoreTypeOK, ListingsOK, WantedOK
<1>1. Hurries => Quiet
    BY DEF Hurries
<1>2. CASE OpenPage(k)
  <2>1. /\ UNCHANGED <<status, opts, stored, wanted, cmd, sent>>
        /\ step'[k] = "load"
        /\ \A j \in Clients : j # k => step'[j] = "idle"
      BY <1>2 DEF OpenPage, storeVars
  <2>2. ~Quiet' /\ Alone'
      BY <2>1 DEF Quiet, Alone
  <2>3. AsWanted' /\ \A j \in Clients : Faithful(j)'
      BY <2>1 DEF Chosen, AsWanted, Live, Faithful
  <2> QED BY <2>1, <2>2, <2>3 DEF Chosen
<1>3. ASSUME NEW e \in list, toggleEnabled(k, e)
      PROVE  Chosen'
  <2>1. Quiet /\ Send(k, e.row, e.shown, [e.opts EXCEPT !.enabled = ~@], FALSE)
      BY <1>1, <1>3 DEF toggleEnabled
  <2>2. e.row \in Rows /\ e.opts \in Options
      BY <1>0 DEF Listings
  <2>3. status[e.row] = "live"
      BY <2>1 DEF Send, Fetch
  <2>4. e.opts = opts[e.row] /\ e.shown = Masked(stored[e.row])
      BY <2>1, <2>3 DEF Chosen, AsStored
  <2>5. PICK o : o = [e.opts EXCEPT !.enabled = ~@]
      OBVIOUS
  <2>6. o = [opts[e.row] EXCEPT !.enabled = o.enabled]
      BY <2>2, <2>4, <2>5 DEF Options
  <2>7. Send(k, e.row, e.shown, o, FALSE)
      BY <2>1, <2>5
  <2> QED BY <2>1, <2>2, <2>4, <2>6, <2>7, SendChosen
<1>4. ASSUME NEW e \in list, NEW patch \in Patches, NEW o \in Options, Save(k, e, patch, o)
      PROVE  Chosen'
  <2>1. Quiet /\ Send(k, e.row, patch, o, TRUE) /\ e.row \in Rows
      BY <1>0, <1>1, <1>4 DEF Save, Listings
  <2> QED BY <2>1, SendChosen
<1>5. ASSUME NEW e \in list, doDelete(k, e)
      PROVE  Chosen'
  <2>1. /\ Quiet /\ Reloads(k) /\ remove(e.row)
        /\ UNCHANGED <<opts, stored, cmd, sent, wanted>>
      BY <1>1, <1>5 DEF doDelete, remove
  <2>2. PICK to \in {"idle", "load"} : Goes(k, to)
      BY <2>1, ReloadNotQuiet
  <2>3. ~Quiet'
      BY <2>1, ReloadNotQuiet
  <2>4. /\ Alone' /\ \A j \in Clients : step'[j] # "answer"
        /\ \A j \in Clients : cmd'[j] = {}
      BY <2>1, <2>2, QuietAlone
  <2>5. AsWanted'
    <3>1. \A r \in Rows : status'[r] = "live" => status[r] = "live"
        BY <1>0, <2>1 DEF remove
    <3> QED BY <2>1, <3>1 DEF Chosen, AsWanted, Live
  <2>6. \A j \in Clients : Faithful(j)'
      BY <2>4 DEF Faithful
  <2> QED BY <2>3, <2>4, <2>5, <2>6 DEF Chosen
<1>6. ASSUME NEW r \in Rows, NEW texts \in Contents, NEW o \in Options,
             AddChannel(k, r, texts, o)
      PROVE  Chosen'
  <2>1. /\ Quiet /\ Reloads(k) /\ create(r, texts)
        /\ opts' = [opts EXCEPT ![r] = o]
        /\ wanted' = [wanted EXCEPT ![r] = [texts |-> texts, opts |-> o]]
        /\ UNCHANGED <<cmd, sent>>
      BY <1>1, <1>6 DEF AddChannel, create
  <2>2. PICK to \in {"idle", "load"} : Goes(k, to)
      BY <2>1, ReloadNotQuiet
  <2>3. ~Quiet'
      BY <2>1, ReloadNotQuiet
  <2>4. /\ Alone' /\ \A j \in Clients : step'[j] # "answer"
        /\ \A j \in Clients : cmd'[j] = {}
      BY <2>1, <2>2, QuietAlone
  <2>5. TextsOf(stored'[r]) = texts
    <3>1. stored'[r] = [f \in Fields |-> Encrypt(key, texts[f])]
        BY <1>0, <2>1 DEF create
    <3>2. \A f \in Fields : Encrypt(key, texts[f]).text = texts[f]
        BY DEF Encrypt, Nothing
    <3> QED BY <3>1, <3>2 DEF TextsOf, Contents
  <2>6. ASSUME NEW q \in Live'
        PROVE  opts'[q] = wanted'[q].opts /\ TextsOf(stored'[q]) = wanted'[q].texts
    <3>1. CASE q = r
        BY <1>0, <2>1, <2>5, <3>1
    <3>2. CASE q # r
      <4>1. /\ q \in Live /\ stored'[q] = stored[q]
            /\ opts'[q] = opts[q] /\ wanted'[q] = wanted[q]
          BY <1>0, <2>1, <2>6, <3>2 DEF Live, create
      <4> QED BY <4>1 DEF Chosen, AsWanted
    <3> QED BY <3>1, <3>2
  <2>7. AsWanted'
      BY <2>6 DEF AsWanted, TextsOf
  <2>8. \A j \in Clients : Faithful(j)'
      BY <2>4 DEF Faithful
  <2> QED BY <2>3, <2>4, <2>7, <2>8 DEF Chosen
<1> QED BY <1>2, <1>3, <1>4, <1>5, <1>6 DEF Asks

\* A row sent back as it is listed keeps its texts.
LEMMA MaskApplied ==
  ASSUME NEW row
  PROVE  V!Applied(TextsOf(row), Masked(row)) = TextsOf(row)
<1> SUFFICES ASSUME NEW f \in Fields
             PROVE  (IF Masked(row)[f] = Keep THEN row[f].text ELSE Masked(row)[f])
                      = row[f].text
    BY DEF V!Applied, TextsOf
<1> QED BY StoreAssumption DEF Masked, Nothing

\* channels_update does to the row what the user has said.
LEMMA WrittenAsWanted ==
  ASSUME PageInv, TableInv, Chosen, mishaps = {}, NEW k \in Clients, Written(k)
  PROVE  AsWanted'
<1>0. /\ stored \in [Rows -> [Fields -> Stored]] /\ opts \in [Rows -> Options]
      /\ wanted \in [Rows -> [texts : Contents, opts : Options]]
      /\ cmd \in [Clients -> SUBSET Updates] /\ \A c, d \in cmd[k] : c = d
      /\ key \in Nat
    BY DEF PageInv, StoreTypeOK, ListingsOK, WantedOK, Keys
<1>1. PICK c \in cmd[k], s \in sent[k] :
        IF status[c.row] = "live"
        THEN /\ opts' = [opts EXCEPT ![c.row] = s.opts]
             /\ wanted' = [wanted EXCEPT ![c.row] = Wanted(c.row, c, s)]
        ELSE UNCHANGED <<opts, wanted>>
    BY DEF Written
<1>2. /\ stored' = [stored EXCEPT ![c.row] =
           IF status[c.row] = "live" THEN Patched(key, c.old, c.patch) ELSE @]
      /\ status' = status
    BY <1>0 DEF Written, Write
<1>3. c.row \in Rows /\ c.patch \in Patches
    BY <1>0 DEF Updates
<1>4. CASE status[c.row] # "live"
  <2>1. UNCHANGED <<opts, wanted, stored, status>>
      BY <1>0, <1>1, <1>2, <1>3, <1>4
  <2> QED BY <2>1 DEF Chosen, AsWanted, Live
<1>5. CASE status[c.row] = "live"
  <2>1. c.old = stored[c.row]
      BY <1>5 DEF TableInv, Apart, Exclusive
  <2>2. /\ stored'[c.row] = Patched(key, stored[c.row], c.patch)
        /\ opts'[c.row] = s.opts
        /\ wanted'[c.row] = Wanted(c.row, c, s)
      BY <1>0, <1>1, <1>2, <1>3, <1>5, <2>1
  <2>3. TextsOf(stored'[c.row]) = V!Applied(TextsOf(stored[c.row]), c.patch)
      BY <1>0, <1>3, <2>2, PatchedTexts
  <2>4. opts[c.row] = wanted[c.row].opts /\ TextsOf(stored[c.row]) = wanted[c.row].texts
      BY <1>3, <1>5 DEF Chosen, AsWanted, Live
  <2>5. ASSUME s.whole
        PROVE  opts'[c.row] = wanted'[c.row].opts /\ TextsOf(stored'[c.row]) = wanted'[c.row].texts
      BY <2>2, <2>3, <2>4, <2>5 DEF Wanted
  <2>6. ASSUME ~s.whole
        PROVE  opts'[c.row] = wanted'[c.row].opts /\ TextsOf(stored'[c.row]) = wanted'[c.row].texts
    <3>1. /\ c.patch = Masked(stored[c.row])
          /\ s.opts = [opts[c.row] EXCEPT !.enabled = s.opts.enabled]
        BY <1>5, <2>6 DEF Chosen, Faithful
    <3>2. TextsOf(stored'[c.row]) = TextsOf(stored[c.row])
        BY <2>3, <3>1, MaskApplied
    <3>3. /\ wanted'[c.row].texts = wanted[c.row].texts
          /\ wanted'[c.row].opts = [wanted[c.row].opts EXCEPT !.enabled = s.opts.enabled]
        BY <2>2, <2>6 DEF Wanted
    <3> QED BY <2>2, <2>4, <3>1, <3>2, <3>3
  <2>7. opts'[c.row] = wanted'[c.row].opts /\ TextsOf(stored'[c.row]) = wanted'[c.row].texts
      BY <2>5, <2>6
  <2>8. \A q \in Rows : q # c.row =>
          opts'[q] = opts[q] /\ wanted'[q] = wanted[q] /\ stored'[q] = stored[q]
      BY <1>0, <1>1, <1>2, <1>5
  <2>9. \A q \in Rows : status'[q] = "live" =>
          opts'[q] = wanted'[q].opts /\ TextsOf(stored'[q]) = wanted'[q].texts
      BY <1>2, <2>7, <2>8 DEF Chosen, AsWanted, Live
  <2> QED BY <2>9 DEF AsWanted, Live, TextsOf
<1> QED BY <1>4, <1>5

LEMMA AnswerChosen ==
  ASSUME PageInv, TableInv, Chosen, mishaps = {}, NEW k \in Clients, Answer(k)
  PROVE  Chosen'
<1>0. /\ cmd \in [Clients -> SUBSET Updates]
      /\ sent = [j \in Clients |-> sent[j]] /\ rows = [j \in Clients |-> rows[j]]
      /\ step = [j \in Clients |-> step[j]]
    BY DEF PageInv, StoreTypeOK, RequestsOK, ListingsOK
<1>1. step[k] # "idle"
    BY DEF Answer, Written, Write, Refused, UpdateFails, LoadReads, LoadAnswers, LoadFails,
           PageInv, RequestsOK
<1>2. /\ \A j \in Clients : j # k => step[j] = "idle" /\ cmd[j] = {}
    BY <1>1 DEF Chosen, Alone, PageInv, RequestsOK
<1>3. PICK to : Goes(k, to)
    BY DEF Answer, Written, Reloads, Refused, LoadReads, LoadAnswers, LoadFails
<1>4. /\ step'[k] = to /\ \A j \in Clients : j # k => step'[j] = "idle"
      /\ Alone'
  <2>1. step'[k] = to /\ \A j \in Clients : j # k => step'[j] = "idle"
      BY <1>0, <1>2, <1>3 DEF Goes
  <2> QED BY <2>1 DEF Alone
<1>5. \A j \in Clients : j # k => cmd'[j] = {}
    BY <1>0, <1>2
       DEF Answer, Written, Write, Refused, UpdateFails, LoadReads, LoadAnswers, LoadFails, storeVars
<1>6. CASE Written(k) \/ Refused(k)
  <2>1. cmd'[k] = {}
      BY <1>0, <1>6 DEF Written, Write, Refused, UpdateFails
  <2>2. \A j \in Clients : Faithful(j)'
      BY <1>5, <2>1 DEF Faithful
  <2>3. ~Quiet' /\ to # "answer"
    <3>1. ASSUME Reloads(k) PROVE ~Quiet' /\ step'[k] # "answer"
        BY <1>0, <3>1 DEF Reloads, Goes, Quiet
    <3>2. ASSUME Goes(k, "idle"), failed' = TRUE PROVE ~Quiet' /\ step'[k] # "answer"
        BY <1>0, <3>2 DEF Goes, Quiet
    <3> QED BY <1>4, <1>6, <3>1, <3>2 DEF Written, Refused
  <2>4. \A j \in Clients : step'[j] # "answer"
      BY <1>4, <2>3
  <2>5. AsWanted'
    <3>1. CASE Refused(k)
        BY <3>1 DEF Refused, UpdateFails, Chosen, AsWanted, Live
    <3> QED BY <1>6, <3>1, WrittenAsWanted
  <2> QED BY <1>4, <2>2, <2>3, <2>4, <2>5 DEF Chosen
<1>7. CASE LoadReads(k) \/ LoadAnswers(k) \/ LoadFails(k)
  <2>1. UNCHANGED <<status, stored, cmd, opts, sent, wanted>>
      BY <1>7 DEF LoadReads, LoadAnswers, LoadFails, storeVars
  <2>2. AsWanted' /\ \A j \in Clients : Faithful(j)'
      BY <2>1 DEF Chosen, AsWanted, Live, Faithful
  <2>3. CASE LoadReads(k)
    <3>1. AsStored(Listed)'
        BY DEF AsStored, Listed, Live
    <3>2. rows'[k] = Listed /\ UNCHANGED Listed
        BY <1>0, <2>1, <2>3 DEF LoadReads, Listed, Live
    <3>3. AsStored(rows[k])'
        BY <3>1, <3>2 DEF AsStored
    <3>4. ~Quiet'
        BY <1>0, <2>3 DEF LoadReads, Goes, Quiet
    <3> QED BY <1>4, <2>2, <3>3, <3>4 DEF Chosen
  <2>4. CASE LoadAnswers(k)
    <3>1. AsStored(rows[k]) /\ list' = rows[k] /\ step'[k] = "idle"
        BY <1>0, <2>4 DEF LoadAnswers, Goes, Chosen
    <3>2. AsStored(list)'
        BY <2>1, <3>1 DEF AsStored
    <3>3. \A j \in Clients : step'[j] # "answer"
        BY <1>4, <3>1
    <3> QED BY <1>4, <2>2, <3>2, <3>3 DEF Chosen
  <2>5. CASE LoadFails(k)
    <3>1. ~Quiet' /\ step'[k] = "idle"
        BY <1>0, <2>5 DEF LoadFails, Goes, Quiet
    <3>2. \A j \in Clients : step'[j] # "answer"
        BY <1>4, <3>1
    <3> QED BY <1>4, <2>2, <3>1, <3>2 DEF Chosen
  <2> QED BY <1>7, <2>3, <2>4, <2>5
<1> QED BY <1>6, <1>7 DEF Answer

LEMMA ChosenStep ==
  ASSUME PageInv, TableInv, ChosenInv, [ChannelNext]_channelVars
  PROVE  ChosenInv'
<1> SUFFICES ASSUME ~hasty', mishaps' = {} PROVE Chosen'
    BY DEF ChosenInv
<1>1. mishaps \subseteq mishaps'
    BY PageStepsStore
       DEF StoreNext, storeVars, remove, create, Write, UpdateFails, Fetch, Restart
<1>2. hasty => hasty'
    BY DEF ChannelNext, channelVars, Relaunch, Asks, OpenPage, toggleEnabled, Save, doDelete,
           AddChannel, Hurries, Answer, Written, Refused, LoadReads, LoadAnswers, LoadFails
<1>3. ~hasty /\ mishaps = {} /\ Chosen
    BY <1>1, <1>2 DEF ChosenInv
<1>4. CASE Relaunch
  <2>1. /\ UNCHANGED <<status, stored, opts, wanted>> /\ list' = {}
        /\ \A j \in Clients : step'[j] = "idle" /\ cmd'[j] = {}
      BY <1>4 DEF Relaunch, Restart
  <2>2. AsWanted' /\ Alone' /\ AsStored(list)' /\ \A j \in Clients : Faithful(j)'
      BY <1>3, <2>1 DEF Chosen, AsWanted, Live, Alone, AsStored, Faithful
  <2> QED BY <2>1, <2>2 DEF Chosen
<1>5. CASE UNCHANGED channelVars
    BY <1>3, <1>5 DEF channelVars, pageVars, storeVars, Chosen, AsWanted, Live, Alone, AsStored,
                      Faithful, Quiet
<1> QED BY <1>3, <1>4, <1>5, AskChosen, AnswerChosen DEF ChannelNext

LEMMA ChosenInitially == ChannelInit => ChosenInv
BY DEF ChannelInit, StoreInit, ChosenInv, Chosen, AsWanted, Live, Alone, AsStored, Faithful

\* As long as the user waits for answers, what is listed is what is stored, and
\* what is stored is what the user said.
THEOREM ChosenInvariant == ChannelSpec => []ChosenInv
<1>1. PageInv /\ TableInv /\ ChosenInv /\ [ChannelNext]_channelVars => ChosenInv'
    BY ChosenStep
<1> QED BY <1>1, ChosenInitially, PageInvariant, PageUsesTheStore, TableInvariant, PTL
        DEF ChannelSpec

\* ChannelsView.vue, toggleEnabled: no switch undoes an earlier edit; alerts go
\* where the user last said, with the secrets the user last entered.
THEOREM ChannelsAsChosen == ChannelSpec => []AlertsGoAsChosen
<1>1. PageInv /\ TableInv /\ ChosenInv => AlertsGoAsChosen
  <2> SUFFICES ASSUME PageInv, TableInv, ChosenInv, ~hasty, mishaps = {}, NEW r \in Live
               PROVE  /\ Revealed(key, stored[r]) = wanted[r].texts
                      /\ \A s \in Servers, a \in AlertTypes :
                           r \in match_channels(s, a) <=>
                             /\ wanted[r].opts.enabled
                             /\ wanted[r].opts.serverIds # {} => s \in wanted[r].opts.serverIds
                             /\ wanted[r].opts.alertTypes # {} => a \in wanted[r].opts.alertTypes
      BY DEF AlertsGoAsChosen
  <2>1. opts[r] = wanted[r].opts /\ TextsOf(stored[r]) = wanted[r].texts
      BY DEF ChosenInv, Chosen, AsWanted
  <2>2. Revealed(key, stored[r]) = TextsOf(stored[r])
    <3>1. Readable(stored[r])
        BY DEF TableInv, Kept, Undisturbed, Live
    <3> QED BY <3>1 DEF Revealed, TextsOf, Readable
  <2> QED BY <2>1, <2>2 DEF match_channels, Contains
<1> QED BY <1>1, PageInvariant, PageUsesTheStore, TableInvariant, ChosenInvariant, PTL
=============================================================================
