SPECIFICATION Spec
CONSTANTS
  c1 = c1
  c2 = c2
  l1 = l1
  l2 = l2
  l3 = l3
  l4 = l4
  boot = boot
  k1 = k1
  none = none
  Checks = {c1, c2}
  Loops = {l1, l2}
  NoLoop = none
  Clients = {boot}
  Boot = boot
  Threshold = 2
  MaxEdits = 3
  Faults = {"unlisted", "unrecorded", "unheard"}
  Broken = {}
SYMMETRY CheckLoopSymmetry
INVARIANTS
  InSync
  DisabledIsQuiet
  ActsAfterThreshold
  NoHalfRestart
PROPERTY ImplementsWatch
CHECK_DEADLOCK FALSE
