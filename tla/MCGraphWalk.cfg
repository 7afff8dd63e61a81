SPECIFICATION LiveSpec
CONSTANTS
  Nodes <- Core
  OnSuccess <- CoreSuccess
  OnFailure <- CoreFailure
  Needs <- CoreNeeds
  Optional <- CoreOptional
  Entry = "proof"
  Prover = "proof"
  Plan = "plan"
  Triage = "triage"
  ModelScoped = {"proof"}
  FanOut = {}
  Fingerprints = {"e1", "e2"}
  Methods = {"m1", "m2"}
  VisitLimit = 2
  RecoveryBudget = 1
  Requests <- AskedFor
  Revisable = {"plan"}
  Fragile = {"triage"}
  MaxAstray = 1
CONSTRAINT AstrayWithinBound
INVARIANTS
  DeliveredOfOnePiece
PROPERTIES
  ReusedStandsOnItsInputs
  WalkEnds
