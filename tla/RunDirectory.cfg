SPECIFICATION LiveDirSpec
CONSTANTS
  Launchers = {p1, p2, p3}
  RunIds = {r1}
  None = None
  Unreadable = Unreadable
  TaskNames = {t1}
  MaxCalls = 1
  p1 = p1
  p2 = p2
  p3 = p3
  r1 = r1
  t1 = t1
CHECK_DEADLOCK FALSE
INVARIANTS
  OneMaker
  LocatedIsComplete
PROPERTIES
  RefinesIdentity
  CallsEnd
