SPECIFICATION FairSubSpec
CONSTANTS
  s1 = s1
  s2 = s2
  Servers = {s1, s2}
  MaxHolders = 2
  MaxWire = 3
  MaxReloads = 1
INVARIANTS
  InStep
  HeldIsPolled
  NeverUndercounts
PROPERTY Converges
CHECK_DEADLOCK FALSE
