SPECIFICATION FairLogSpec
CONSTANTS
  a = a
  b = b
  stdout = stdout
  stderr = stderr
  none = none
  Processes = {a, b}
  Channels = {stdout, stderr}
  NoProcess = none
  First = stdout
  TailLength = 1
  Window = 1
  MaxSize = 2
  MaxBytes = 2
  MaxCalls = 3
  MaxEvents = 1
  Docker = {b}
  Faults = {"closed"}
INVARIANTS
  LogStops
  OpenIsFollowed
  ShowsTheLog
PROPERTY CatchesUp
CHECK_DEADLOCK FALSE
