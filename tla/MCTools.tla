------------------------------ MODULE MCTools ------------------------------
(***************************************************************************)
(* One instance of every module of tools for TLC.  The tools share no      *)
(* state here, so that in each behaviour one of them moves.                *)
(***************************************************************************)
EXTENDS OperatorHandoff, OperatorCandidates, VendorHandoff, CorrectnessGrading,
        SupportClaims, ModelDiscovery, CapabilityEvaluation, DeploymentBudget, TLC

VARIABLE part   \* the tool of this behaviour

(* What is wrong with a finding. *)
Mistakes(f) ==
  {m \in {"owner", "evidence", "incomplete"} :
     \/ m = "owner" /\ ~OwnerFits(f)
     \/ m = "evidence" /\ f.evidence # IF f.kind = "observed_failure" THEN {"error"} ELSE {"blocked"}
     \/ m = "incomplete" /\ f.fields # "all"}

(* An author makes one mistake in a finding, if any. *)
UsualDrafts(f) ==
  /\ Cardinality(Mistakes(f)) <= 1
  /\ f.general => f.owner = "upstream"

(* What x1 may be: nowhere, upstream only, written for other hardware, or  *)
(* implemented; x2 is implemented in any case.                             *)
Found(x1) == [a \in Archs |-> IF a = "x1" THEN x1 ELSE {"vllm"}]

SomeInstallations ==
  {[found |-> Found({}), registry |-> TRUE, provides |-> {"attention", "moe"}],
   [found |-> Found({"main"}), registry |-> TRUE, provides |-> {"attention", "quantization", "moe"}],
   [found |-> Found({"pull request"}), registry |-> FALSE, provides |-> {"attention", "quantization"}],
   [found |-> Found({"vllm", "variants", "selects"}), registry |-> TRUE, provides |-> {}],
   [found |-> Found({"vllm", "variants", "depends"}), registry |-> TRUE, provides |-> {"attention"}],
   [found |-> Found({"oot"}), registry |-> TRUE, provides |-> {"attention", "quantization", "moe"}]}

SomeCheckpoints ==
  {[archs |-> <<"x2", "x1">>, known |-> TRUE, demands |-> {"quantization", "moe"}],
   [archs |-> <<"x1">>, known |-> TRUE, demands |-> {}],
   [archs |-> <<"x1">>, known |-> FALSE, demands |-> {"multimodal"}]}


Init ==
  /\ part \in {"shims", "candidates", "vendor", "grading", "claims", "discovery", "evaluation", "budget"}
  /\ HandoffInit /\ CandidatesInit /\ VendorInit /\ GradingInit
  /\ ClaimsInit /\ DiscoveryInit /\ EvaluationInit /\ BudgetInit

Next ==
  \/ /\ part = "shims" /\ ShimNext
     /\ UNCHANGED <<part, candidateVars, vendorVars, gradingVars, claimVars,
                    discoveryVars, evaluationVars, budgetVars>>
  \/ /\ part = "candidates" /\ CandidatesNext
     /\ UNCHANGED <<part, shimVars, vendorVars, gradingVars, claimVars,
                    discoveryVars, evaluationVars, budgetVars>>
  \/ /\ part = "vendor" /\ VendorNext
     /\ UNCHANGED <<part, shimVars, candidateVars, gradingVars, claimVars,
                    discoveryVars, evaluationVars, budgetVars>>
  \/ /\ part = "grading" /\ GradingNext
     /\ UNCHANGED <<part, shimVars, candidateVars, vendorVars, claimVars,
                    discoveryVars, evaluationVars, budgetVars>>
  \/ /\ part = "claims" /\ ClaimsNext
     /\ UNCHANGED <<part, shimVars, candidateVars, vendorVars, gradingVars,
                    discoveryVars, evaluationVars, budgetVars>>
  \/ /\ part = "discovery" /\ DiscoveryNext
     /\ UNCHANGED <<part, shimVars, candidateVars, vendorVars, gradingVars,
                    claimVars, evaluationVars, budgetVars>>
  \/ /\ part = "evaluation" /\ EvaluationNext
     /\ UNCHANGED <<part, shimVars, candidateVars, vendorVars, gradingVars,
                    claimVars, discoveryVars, budgetVars>>
  \/ /\ part = "budget" /\ BudgetNext
     /\ UNCHANGED <<part, shimVars, candidateVars, vendorVars, gradingVars,
                    claimVars, discoveryVars, evaluationVars>>

(* Bounds: no ticket is built once there are findings; the first has a     *)
(* given id; a model that serves has one; one mistake in all findings, and *)
(* one in the registry; one file that does not parse.                      *)
FewMistakes ==
  /\ document.findings = <<>> \/ (triage.state = "absent" /\ status.form # "ticket" /\ ticket = {})
  /\ document.findings # <<>> => document.findings[1].id = CHOOSE i \in Ids : TRUE
  /\ document.serves => Len(document.findings) <= 1
  /\ Cardinality({i \in DOMAIN document.findings : Mistakes(document.findings[i]) # {}}) <= 1
  /\ Cardinality({i \in DOMAIN registry : ~registry[i].facts}
                  \cup {i \in DOMAIN registry :
                           registry[i].status = "WAIVED" /\ ~registry[i].reason}) <= 1
  /\ Cardinality(unparsable) <= 1

(* Bounds: evidence is there of one of the models only, a differential of  *)
(* a service that runs, and one of the updates is of the other model; at   *)
(* most two dimensions that have a probe; throwaway pods are left before   *)
(* the first scan; pod and checkpoint change before the match, not after   *)
(* it; nothing follows a classification or a budget; either plan or        *)
(* budget.                                                                 *)
ShortHistories ==
  /\ deployments["m2"] = "none" /\ differentials["m2"] = NoDifferential
  /\ deployments["m1"] = "DEPLOYMENT_READY" \/ differentials["m1"] = NoDifferential
  /\ entries["u1"].model \subseteq {"m1"}
  /\ Cardinality(demanded \ {"multimodal"}) <= 2
  /\ probePods = {} \/ scan.state = "none"
  /\ matched.of \subseteq {pod} /\ matched.config \subseteq {checkpoint}
  /\ classified.class = "none"
  /\ budget.state = "none"
  /\ plan.tp = 0 \/ \A c \in Cards : used[c] = 0

(* What a tool that stands still starts from does not matter. *)
OneStart ==
  /\ part = "candidates" \/ proofs = Pass
  /\ part = "grading" \/ kernel = CHOOSE k \in Kernels : TRUE
  /\ part = "discovery" \/ /\ pod = CHOOSE p \in Installations : TRUE
                           /\ checkpoint = CHOOSE c \in Checkpoints : TRUE
  /\ part = "budget" \/ /\ logged = 0 /\ \A c \in Cards : used[c] = 0

Bounded == FewMistakes /\ ShortHistories /\ OneStart

Spec == Init /\ [][Next]_<<part, shimVars, candidateVars, vendorVars, gradingVars, claimVars,
                           discoveryVars, evaluationVars, budgetVars>>

-----------------------------------------------------------------------------
(* Operators leave a walk only handed over, and come back only with a      *)
(* baseline that passes (scan_torch_shims.execute, integration_decision).  *)
OperatorsAccountedFor == ClearIsHandedOver /\ ReadyHasPassingBaseline
=============================================================================
