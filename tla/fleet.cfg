SPECIFICATION FleetSpec
CONSTANTS
  s1 = s1
  s2 = s2
  Servers = {s1, s2}
  Kinds <- MixedKinds
  MaxRuns = 2
SYMMETRY FleetSymmetry
INVARIANTS
  RollingKeepsOthersUp
  OkLeavesAsAsked
  ShownIsTrue
  NoRunStalls
PROPERTY ImplementsBatch
CHECK_DEADLOCK FALSE
