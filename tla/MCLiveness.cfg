SPECIFICATION LiveSpec
CONSTANTS
  Names = {op}
  Fingerprints = {f1}
  NoFingerprint = NoFingerprint
  Workers = {w1}
  NoWorker = NoWorker
  Validators = {w1, v1}
  Modes = {"real"}
  GraphDriven = FALSE
  LeaseTerms = {1}
  ClaimLimits = {1}
  ClaimStages = {"any"}
  Faults = {}
  MaxAttempt = 2
  MaxWorkspaces = 2
  MaxClaims = 0
  MaxDisturbed = 0
  MaxElsewhere = 0
  op = op
  f1 = f1
  w1 = w1
  v1 = v1
PROPERTIES
  QueuedStageIsDecided
  FailureIsConcluded
