SPECIFICATION FairAlertSpec
CONSTANTS
  Processes = {p}
  Channels = {c, d}
  Window = 2
  FlapCount = 2
  MaxDelay = 1
  MaxStarts = 3
  p = p
  c = c
  d = d
INVARIANTS
  RestartsAreReal
PROPERTIES
  OneAlertPerFall
  TellsOncePerWindow
  FallIsNoticed
  RoundsEnd
  FlappingEnds
