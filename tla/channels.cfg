SPECIFICATION ChannelSpec
CONSTANTS
  c1 = c1
  c2 = c2
  url = url
  t1 = t1
  none = none
  mask = mask
  k1 = k1
  k2 = k2
  s1 = s1
  s2 = s2
  fatal = fatal
  flapping = flapping
  Rows = {c1}
  Fields = {url}
  Texts = {t1}
  NoText = none
  Keep = mask
  Clients = {k1, k2}
  MaxEdits = 3
  MaxStarts = 1
  Faults = {}
  Servers = {s1}
  AlertTypes = {fatal}
INVARIANTS
  AlertsGoAsChosen
SYMMETRY Symmetry
CHECK_DEADLOCK FALSE
