------------------------- MODULE MCLegacyReconcile -------------------------
(* Instances of LegacyReconcile for TLC. *)
EXTENDS LegacyReconcile, TLC, FiniteSetsExt

CONSTANTS MaxClaims  \* bound: claims of all rows of the run together

WorkerSymmetry == Permutations(Workers)

ClaimsWithinBound ==
  MapThenSumSet(LAMBDA id : Len(claimed[id]), TaskIds) <= MaxClaims

(* Bound: only real runs without a graph have a history, and the longest one. *)
ShorterElsewhere ==
  /\ ClaimsWithinBound
  /\ run.graph \/ run.mode = "simulation" =>
       era = "new" /\ \A id \in TaskIds : Len(claimed[id]) = 0
=============================================================================
