SPECIFICATION Spec
CONSTANTS
  Nodes <- Loop
  OnSuccess <- LoopSuccess
  OnFailure <- LoopFailure
  Needs <- LoopNeeds
  Optional <- LoopOptional
  Entry = "proof"
  Prover = "proof"
  Plan = "plan"
  Triage = "triage"
  ModelScoped = {"proof"}
  FanOut = {}
  Fingerprints = {"e1"}
  Methods = {"m1"}
  VisitLimit = 3
  RecoveryBudget = 1
  Requests <- Resumed
  Revisable = {}
  Fragile = {}
  MaxAstray = 0
INVARIANTS
  RepairIsBroughtUp
