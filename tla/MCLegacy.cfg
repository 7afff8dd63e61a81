SPECIFICATION LegacyLive
CONSTANTS
  Names = {op}
  Fingerprints = {f1, f2}
  f2 = f2
  NoFingerprint = NoFingerprint
  Workers = {w1, w2}
  NoWorker = NoWorker
  Validators = {w1, w2}
  Modes = {"real", "simulation"}
  GraphDriven = TRUE
  LeaseTerms = {1}
  ClaimLimits = {1, 2}
  ClaimStages = {"any", "diagnosis"}
  Faults = {}
  MaxAttempt = 2
  MaxWorkspaces = 2
  MaxClaims = 2
  op = op
  f1 = f1
  w1 = w1
  w2 = w2
CONSTRAINT ShorterElsewhere
INVARIANTS
  IndependentHandOver
  OneEnvironment
PROPERTIES
  FailureIsDiagnosed
