SPECIFICATION LiveSpec
CONSTANTS
  Budget = 2
  Brains = {"rule", "command", "file"}
  Executors = {"RUN_TRIAGE"}
  Unserved = {"ROLLBACK"}
CHECK_DEADLOCK FALSE
INVARIANTS
  BudgetIsSpent
  RecoveredByRerun
  ActsOnAnswers
PROPERTIES
  RecoveryEnds
