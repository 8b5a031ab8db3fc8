SPECIFICATION ConfigSpec
CONSTANTS
  g1 = g1
  g2 = g2
  k1 = k1
  k2 = k2
  Groups = {g1, g2}
  Clients = {k1, k2}
  MaxEdits = 3
  MaxRepeats = 1
SYMMETRY ConfigSymmetry
INVARIANTS
  CleanReloadApplies
CHECK_DEADLOCK FALSE
