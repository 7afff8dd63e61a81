CONSTANTS
  MaxLaunches = 3
  MaxRuns = 4
  MaxLost = 1
  MaxKills = 1
SPECIFICATION Spec
INVARIANTS
  NoLogIsLost
  JudgesItsOwnModel
PROPERTIES
  EditsFollowVerdicts
  ServingIsNotReinstalled
  ExecutorsEnd
CHECK_DEADLOCK FALSE
