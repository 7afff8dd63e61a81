-------------------------- MODULE MCTaskScheduler --------------------------
(* Instances of TaskScheduler for TLC. *)
EXTENDS TaskScheduler, TLC, FiniteSetsExt

CONSTANTS MaxClaims, MaxDisturbed, MaxElsewhere  \* bounds: claims of all rows of the run

WorkerSymmetry == Permutations(Workers)

Claims == MapThenSumSet(LAMBDA id : Len(claimed[id]), TaskIds)

ClaimsWithinBound == Claims <= MaxClaims

(* A directory of a claim that rolled back, a verdict its row does not have, *)
(* a failure that could not be written down.                               *)
Disturbed ==
  \E id \in TaskIds :
    \/ run.artifacts /\ Len(disk[id]) > Len(claimed[id])
    \/ \E i \in DOMAIN disk[id] :
         disk[id][i] = "PASS" /\ ~(i = tasks[id].workspace /\ tasks[id].status = "succeeded")
    \/ /\ tasks[id].status = "failed" /\ tasks[id].workspace # 0
       /\ disk[id][tasks[id].workspace] = "open"

(* The longest runs are those without faults of a real run that no graph   *)
(* drives.                                                                 *)
FewerWhenDisturbed ==
  Claims <= (IF run.graph \/ run.mode = "simulation" THEN MaxElsewhere
             ELSE IF Disturbed THEN MaxDisturbed ELSE MaxClaims)
=============================================================================
