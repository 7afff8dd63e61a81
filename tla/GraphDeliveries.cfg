SPECIFICATION Spec
CONSTANTS
  Walks = {w1, w2}
  Proofs = {"p1", "p3"}
  NoProof = NoProof
  Fingerprints = {"a", "b"}
  NoFingerprint = NoFingerprint
  FingerprintOf <- Digests
  Ops = {"o1"}
  GapOps = {"o1"}
  ShimOps = {}
  Fragile <- Evidence
  FaultBudget = 1
  w1 = w1
  w2 = w2
SYMMETRY WalkSymmetry
CONSTRAINT FirstDelivery
INVARIANTS
  ReceiptAfterRegressions
  ReceiptOfOneEnvironment
PROPERTIES
  DeliveredAsReceived
