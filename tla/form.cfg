SPECIFICATION ServerSpec
CONSTANTS
  r1 = r1
  r2 = r2
  f1 = f1
  f2 = f2
  t1 = t1
  t2 = t2
  none = none
  mask = mask
  k1 = k1
  k2 = k2
  Rows = {r1}
  Fields = {f1, f2}
  Texts = {t1}
  NoText = none
  Keep = mask
  Clients = {k1, k2}
  MaxEdits = 2
  MaxStarts = 1
  Faults = {"rekeyed", "unsaved", "unread", "unanswered"}
  Add = Add
INVARIANTS
  SecretsOutliveRestart
PROPERTIES
  StoredWasTested
  ImplementsVault
SYMMETRY Symmetry
CHECK_DEADLOCK FALSE
