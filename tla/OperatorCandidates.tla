------------------------- MODULE OperatorCandidates -------------------------
(***************************************************************************)
(* The baseline that operator candidates are judged against (MAT-025) and  *)
(* the decision about one candidate (MAT-026), as they run without a       *)
(* scheduler: files in a directory that both commands may use again.       *)
(***************************************************************************)
EXTENDS Naturals, FiniteSets

CONSTANTS Gates   \* what a candidate has to pass, each with evidence

VARIABLES
  proofs,     \* the service and the accuracy report as they are now
  manifest,   \* baseline_manifest.json
  frozen,     \* baseline_status.json
  decision    \* integration_status.json

candidateVars == <<proofs, manifest, frozen, decision>>

Proofs == [service : {"DEPLOYMENT_READY", "other"}, accuracy : {"ACCURACY_PASS", "other"}]
Pass == [service |-> "DEPLOYMENT_READY", accuracy |-> "ACCURACY_PASS"]
Candidates == [passed : SUBSET Gates, shown : SUBSET Gates]

CandidatesInit ==
  /\ proofs \in Proofs
  /\ manifest = {}
  /\ frozen = "none"
  /\ decision = "none"

(* The service is proved again, or its answers are compared again. *)
ProveAgain(p) ==
  /\ proofs' = p
  /\ UNCHANGED <<manifest, frozen, decision>>

(* Defect: the manifest is written before the evidence is looked at. *)
BugFreezeBaseline ==
  /\ manifest' = {proofs}
  /\ frozen' = IF proofs = Pass THEN "BASELINE_FROZEN" ELSE "BASELINE_REJECTED"
  /\ UNCHANGED <<proofs, decision>>

(* A rejected baseline overwrites the status and not an earlier manifest.  *)
FreezeBaseline ==
  /\ IF proofs = Pass
     THEN /\ manifest' = {proofs}
          /\ frozen' = "BASELINE_FROZEN"
     ELSE /\ frozen' = "BASELINE_REJECTED"
          /\ UNCHANGED manifest
  /\ UNCHANGED <<proofs, decision>>

(* Without a candidate the command waits for one. *)
AwaitCandidate ==
  /\ manifest # {}
  /\ decision' = "WAITING_FOR_CANDIDATE"
  /\ UNCHANGED <<proofs, manifest, frozen>>

(* integration_decision: every gate passed, and a report for each of them. *)
(* The validator asks for the reports of a READY candidate once more.      *)
Decide(c) ==
  /\ manifest # {}
  /\ decision' = IF c.passed = Gates /\ c.shown = Gates
                  THEN "READY_FOR_INTEGRATION" ELSE "CANDIDATE_REJECTED"
  /\ UNCHANGED <<proofs, manifest, frozen>>

CandidatesNext ==
  \/ \E p \in Proofs : ProveAgain(p)
  \/ FreezeBaseline
  \/ AwaitCandidate
  \/ \E c \in Candidates : Decide(c)

CandidatesSpec == CandidatesInit /\ [][CandidatesNext]_candidateVars

-----------------------------------------------------------------------------
(* No candidate is ready on top of a service that never passed: a READY    *)
(* status has a baseline of passing evidence under it, even when a later   *)
(* freeze into the same directory was rejected (freeze_baseline,           *)
(* integration_decision).                                                  *)
ReadyHasPassingBaseline ==
  decision = "READY_FOR_INTEGRATION" => manifest = {Pass}
=============================================================================
