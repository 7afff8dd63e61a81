SPECIFICATION Spec
CONSTANTS
  Shims = {"s1", "s2"}
  Files = {"a", "b"}
  MaxScans = 2
  MaxEdits = 5
  Gates = {"kernel_grade", "accuracy_regression"}
  Ids = {"i1", "i2"}
  Drafts <- UsualDrafts
  MaxFindings = 2
  MaxGradings = 2
  Archs = {"x1", "x2"}
  Installations <- SomeInstallations
  Checkpoints <- SomeCheckpoints
  Hbm = 8
  Weights = {3, 9, 30, 60}
  Heads = {4, 6, 8}
  Limits = {1, 5, 16}
  PerToken = 1
  Cards = {1, 2}
  Usages = {0, 3, 6, 8}
  Models = {"m1", "m2"}
  Updates = {"u1", "u2"}
CONSTRAINT Bounded
INVARIANTS
  OperatorsAccountedFor
  HandoffReachesItsOwner
  VerdictOnOwnEvidence
  ValidatedRowsAgreed
  StaticVerdictsAreTrue
  
  EveryRankFits
CHECK_DEADLOCK FALSE
