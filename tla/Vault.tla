-------------------------------- MODULE Vault --------------------------------
(***************************************************************************)
(* What the tables with secrets promise, whatever they store: a row holds  *)
(* the texts the user entered last; a change replaces the fields that were *)
(* entered and keeps the others as they are when it takes effect; it takes *)
(* effect at once, or it fails and leaves no trace.                        *)
(***************************************************************************)
CONSTANTS
  Rows,     \* ids, each given to one row only
  Fields,   \* secret fields of a row
  Texts,    \* texts a user enters
  NoText,   \* an empty field
  Keep,     \* the mask a form shows, and sends back, for a field left alone
  Clients   \* changes that may be under way at the same time

VARIABLES
  status,   \* row -> "new", "live" or "gone"
  kept,     \* row -> field -> its text
  asked     \* client -> its change under way, at most one: row and patch

vaultVars == <<status, kept, asked>>

Contents == [Fields -> Texts \cup {NoText}]
Patches == [Fields -> Texts \cup {NoText, Keep}]
Requests == [row : Rows, patch : Patches]

\* The texts after a change.
Applied(old, patch) ==
  [f \in Fields |-> IF patch[f] = Keep THEN old[f] ELSE patch[f]]

VaultInit ==
  /\ status \in [Rows -> {"new", "live"}]
  /\ kept \in [Rows -> Contents]
  /\ asked = [k \in Clients |-> {}]

Create(r, texts) ==
  /\ status[r] = "new"
  /\ status' = [status EXCEPT ![r] = "live"]
  /\ kept' = [kept EXCEPT ![r] = texts]
  /\ UNCHANGED asked

Remove(r) ==
  /\ status[r] = "live"
  /\ status' = [status EXCEPT ![r] = "gone"]
  /\ UNCHANGED <<kept, asked>>

Ask(k, q) ==
  /\ asked[k] = {} /\ status[q.row] = "live"
  /\ asked' = [asked EXCEPT ![k] = {q}]
  /\ UNCHANGED <<status, kept>>

Perform(k) ==
  /\ \E q \in asked[k] :
       /\ status[q.row] = "live"
       /\ kept' = [kept EXCEPT ![q.row] = Applied(kept[q.row], q.patch)]
  /\ asked' = [asked EXCEPT ![k] = {}]
  /\ UNCHANGED status

\* Changes end without an effect: an error, a row removed meanwhile, a restart.
Abandon(lost) ==
  /\ asked' = [k \in Clients |-> IF k \in lost THEN {} ELSE asked[k]]
  /\ UNCHANGED <<status, kept>>

VaultNext ==
  \/ \E r \in Rows : Remove(r) \/ \E texts \in Contents : Create(r, texts)
  \/ \E k \in Clients : Perform(k) \/ \E q \in Requests : Ask(k, q)
  \/ \E lost \in SUBSET Clients : Abandon(lost)

VaultSpec == VaultInit /\ [][VaultNext]_vaultVars
=============================================================================
