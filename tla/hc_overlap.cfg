SPECIFICATION FairSpec
CONSTANTS
  c1 = c1
  c2 = c2
  l1 = l1
  l2 = l2
  l3 = l3
  l4 = l4
  boot = boot
  k1 = k1
  none = none
  Checks = {c1}
  Loops = {l1, l2, l3, l4}
  NoLoop = none
  Clients = {boot, k1}
  Boot = boot
  Threshold = 2
  MaxEdits = 3
  Faults = {"overlap"}
  Broken = {c1}
INVARIANT NoneForgotten
PROPERTY BrokenChecksAct
CHECK_DEADLOCK FALSE
