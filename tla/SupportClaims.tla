--------------------------- MODULE SupportClaims ---------------------------
(***************************************************************************)
(* What the project claims of a model: the accuracy differential against a *)
(* reference on the CPU (MAT-013), and the row of the support matrix       *)
(* (MAT-016), one file that several updates read, change and write without *)
(* a lock.                                                                 *)
(***************************************************************************)
EXTENDS Naturals, FiniteSets

CONSTANTS
  Models,
  Updates     \* runs of the tool that updates the matrix

VARIABLES
  deployments,    \* deployment_status.json of each model
  differentials,  \* accuracy_differential.json of each model, or nothing
  entries,        \* of each update: the row it built and the matrix it read
  matrix          \* catalog/support_matrix.yaml: the row of each model

claimVars == <<deployments, differentials, entries, matrix>>

(* agreed: did the first tokens agree on every prompt.  backed: was the    *)
(* model served, and did it agree, in the evidence of the row.             *)
NoDifferential == [status |-> "none", agreed |-> FALSE]
NoRow    == [status |-> "absent", backed |-> FALSE]
NoEntry  == [model |-> {}, row |-> NoRow, read |-> {}]

ClaimsInit ==
  /\ deployments = [m \in Models |-> "none"]
  /\ differentials = [m \in Models |-> NoDifferential]
  /\ entries = [u \in Updates |-> NoEntry]
  /\ matrix = [m \in Models |-> NoRow]

(* The deployment proof ends again. *)
Deploy(m, state) ==
  /\ deployments' = [deployments EXCEPT ![m] = state]
  /\ UNCHANGED <<differentials, entries, matrix>>

-----------------------------------------------------------------------------
(* The accuracy differential. *)

Formats == {"unquantized", "int8", "unsupported", "unreadable"}

(* The reference refuses to run beside a visible accelerator, on a         *)
(* checkpoint it cannot read or scale, and when a forward pass raises.     *)
ReferenceReady(accelerator, checkpoint, scaled, raised) ==
  /\ ~accelerator /\ ~raised
  /\ \/ checkpoint = "unquantized"
     \/ checkpoint = "int8" /\ scaled

(* validate_accuracy_report of a report that claims to pass.  whole: each  *)
(* case names its tokens; close: on each prompt the best five overlap.     *)
PassAccepted(whole, agreed, close) == whole /\ agreed /\ close

(* Defect: the claim to pass is written before the gate may take it back. *)
BugDifferentialStatus(whole, agreed, close) == "ACCURACY_PASS"

(* The report claims to pass until the validator has objected. *)
DifferentialStatus(whole, agreed, close) ==
  IF PassAccepted(whole, agreed, close) THEN "ACCURACY_PASS" ELSE "ACCURACY_FAIL"

(* Without a reference, or an answer of the server, nothing is written. *)
Differential(m, whole, agreed, close) ==
  /\ \E accelerator, scaled, raised \in BOOLEAN, checkpoint \in Formats :
       ReferenceReady(accelerator, checkpoint, scaled, raised)
  /\ differentials' = [differentials EXCEPT ![m] =
       [status |-> DifferentialStatus(whole, agreed, close), agreed |-> agreed]]
  /\ UNCHANGED <<deployments, entries, matrix>>

-----------------------------------------------------------------------------
(* The matrix. *)

RowStatus(proof, report) ==
  IF proof = "DEPLOYMENT_READY"
  THEN IF report.status = "ACCURACY_PASS" THEN "validated" ELSE "runs_unverified_accuracy"
  ELSE "not_yet_validated"

(* pinned: revision and commit are known, from the plan or the accuracy    *)
(* report.  Evidence that a status requires is there by RowStatus.         *)
RowAccepted(row, pinned) == row.status = "not_yet_validated" \/ pinned

(* build_entry and its validator; evidence not named on the command line   *)
(* counts as none.  A refused entry is not applied.                        *)
BuildEntry(u, m, proof, report, pinned) ==
  LET row == [status |-> RowStatus(proof, report),
              backed |-> proof = "DEPLOYMENT_READY" /\ report.agreed]
  IN /\ entries[u] = NoEntry
     /\ RowAccepted(row, pinned)
     /\ entries' = [entries EXCEPT ![u] = [model |-> {m}, row |-> row, read |-> {}]]
     /\ UNCHANGED <<deployments, differentials, matrix>>

ReadMatrix(u) ==
  /\ entries[u].model # {} /\ entries[u].read = {}
  /\ entries' = [entries EXCEPT ![u].read = {matrix}]
  /\ UNCHANGED <<deployments, differentials, matrix>>

WriteMatrix(u) ==
  /\ \E m \in entries[u].model, read \in entries[u].read :
       matrix' = [read EXCEPT ![m] = entries[u].row]
  /\ entries' = [entries EXCEPT ![u] = NoEntry]
  /\ UNCHANGED <<deployments, differentials>>

ClaimsNext ==
  \/ \E m \in Models, state \in {"DEPLOYMENT_READY", "DEPLOYMENT_FAILED"} : Deploy(m, state)
  \/ \E m \in Models, whole, agreed, close \in BOOLEAN :
       Differential(m, whole, agreed, close)
  \/ \E u \in Updates, m \in Models, pinned \in BOOLEAN :
       \E proof \in {"none", deployments[m]}, report \in {NoDifferential, differentials[m]} :
         BuildEntry(u, m, proof, report, pinned)
  \/ \E u \in Updates : ReadMatrix(u) \/ WriteMatrix(u)

ClaimsSpec == ClaimsInit /\ [][ClaimsNext]_claimVars

-----------------------------------------------------------------------------
(* However updates overlap, no row says validated unless the model was     *)
(* served and agreed with the reference on every prompt: the matrix trusts *)
(* the status in the differential's report, which the validator has to     *)
(* have taken back in time (build_entry, accuracy_differential.execute).   *)
ValidatedRowsAgreed ==
  \A m \in Models : matrix[m].status = "validated" => matrix[m].backed
=============================================================================
