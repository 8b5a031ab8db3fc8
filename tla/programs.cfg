SPECIFICATION ProgramsSpec
CONSTANTS
  p1 = p1
  p2 = p2
  a = a
  b = b
  t1 = t1
  t2 = t2
  Paths = {p1, p2}
  Names = {a, b}
  FileOf <- MCFileOf
  Texts = {t1, t2}
  Before <- MCBefore
  NoPath = NoPath
  MaxChanges = 3
  Faults = {"unnoticed"}
INVARIANTS
  EditorIsCurrent
PROPERTIES
  EditKeepsTheRest
CHECK_DEADLOCK FALSE
