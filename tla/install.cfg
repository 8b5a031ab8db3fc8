SPECIFICATION InstallerSpec
CONSTANTS
  s1 = s1
  s2 = s2
  Sites = {s1, s2}
  Kinds <- MCKinds
  Found <- MCFound
  NoSite = NoSite
  MaxRuns = 2
  MaxAsks = 1
  Faults = {"full", "quiet", "switch"}
INVARIANTS
  ReportedStaysValid
  OffersWhatWasFound
PROPERTIES
  PanelIsFreed
CHECK_DEADLOCK FALSE
