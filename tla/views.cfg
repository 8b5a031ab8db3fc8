SPECIFICATION ViewSpec
CONSTANTS
  s1 = s1
  s2 = s2
  p1 = p1
  p2 = p2
  p3 = p3
  panel = panel
  none = none
  Servers = {s1, s2}
  Pages = {p1, p2, p3}
  Panel = panel
  NoPage = none
  MaxHolders = 4
  MaxWire = 2
  MaxReloads = 0
  MaxEdits = 2
SYMMETRY ViewSymmetry
INVARIANTS
  CountsAreExact
  PolledIffShown
  PanelStaysLive
CHECK_DEADLOCK FALSE
