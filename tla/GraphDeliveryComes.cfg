SPECIFICATION LiveSpec
CONSTANTS
  Walks = {w1}
  Proofs = {"p1", "p2", "p3"}
  NoProof = NoProof
  Fingerprints = {"a", "b"}
  NoFingerprint = NoFingerprint
  FingerprintOf <- Digests
  Ops = {"o1", "o2"}
  GapOps = {"o1"}
  ShimOps = {"o2"}
  Fragile <- Evidence
  FaultBudget = 2
  w1 = w1
PROPERTIES
  DeliveryComes
