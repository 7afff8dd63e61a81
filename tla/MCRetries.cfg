SPECIFICATION Spec
CONSTANTS
  Names = {op}
  Fingerprints = {f1}
  NoFingerprint = NoFingerprint
  Workers = {w1, w2}
  NoWorker = NoWorker
  Validators = {w1, w2}
  Modes = {"real", "simulation"}
  GraphDriven = TRUE
  LeaseTerms = {1}
  ClaimLimits = {1}
  ClaimStages = {"any"}
  Faults = {"claim", "PASS", "kept"}
  MaxAttempt = 2
  MaxWorkspaces = 2
  MaxClaims = 5
  MaxDisturbed = 3
  MaxElsewhere = 1
  op = op
  f1 = f1
  w1 = w1
  w2 = w2
SYMMETRY WorkerSymmetry
CONSTRAINT FewerWhenDisturbed
INVARIANTS
  DiagnosisTracksFailure
  NoMissingEdge
  AcceptedFromLastClaim
  WorkspacePerClaim
PROPERTIES
  RetryConsumesDiagnosis
  DecidedByLiveLease
  PastAttemptsFrozen
  RefinesPipeline
