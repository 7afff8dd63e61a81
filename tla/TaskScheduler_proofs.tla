----------------------- MODULE TaskScheduler_proofs -----------------------
(***************************************************************************)
(* Proofs about TaskScheduler for every set of operators, workers and      *)
(* fingerprints, every lease term and limit, every fault and every bound.  *)
(*                                                                         *)
(* After the types come the rows: diagnoses track failures, and the        *)
(* pipeline has no missing edge.  Both rest on one observation: claims,    *)
(* renewals, recoveries and the clock move rows only between pending and   *)
(* running (QueueStep), so what is at rest, and every edge between rows at *)
(* rest, can change only by a discovery, a decision or an applied          *)
(* diagnosis.                                                              *)
(*                                                                         *)
(* Then the files and the environment.  Attempt directories are never      *)
(* rolled back, so what holds of them is an invariant of each row together *)
(* with its directories and its claims (FilesOK): the argument looks at    *)
(* the rows an action writes and at the directories it adds or marks.      *)
(*                                                                         *)
(* Last, the refinement of OperatorPipeline.  What an operator is promised *)
(* depends on the row of the stage it is at (AtStage); the steps of the    *)
(* scheduler are told apart by what they do to that row and to its         *)
(* diagnosis.                                                              *)
(***************************************************************************)
EXTENDS TaskScheduler, SequenceTheorems, TLAPS

-----------------------------------------------------------------------------
(* Rows and the helpers that build them *)

LEMMA NoWorkerIsTyped == NoOutput \in [worker : Workers \cup {NoWorker},
                                       attempt : Nat,
                                       next_action : NextActions \cup {"NONE"}]
  BY DEF NoOutput

LEMMA AbsentRowType == AbsentRow \in Rows
  BY NoWorkerIsTyped DEF AbsentRow, Rows

(* A row inserted in a table has the columns of a pending row. *)
LEMMA NewRowType ==
  ASSUME NEW n \in Nat, NEW a \in Nat
  PROVE  NewRow(n, a) \in Rows
  BY AbsentRowType DEF NewRow, AbsentRow, Rows

(* Clearing a lease keeps a row's columns typed. *)
LEMMA UnleasedType ==
  ASSUME NEW row \in Rows,
         NEW s \in {"absent", "pending", "running", "succeeded", "failed"}
  PROVE  Unleased(row, s) \in Rows
  BY DEF Unleased, Rows

LEMMA ClearedType ==
  ASSUME NEW row \in Rows,
         NEW s \in {"absent", "pending", "running", "succeeded", "failed"}
  PROVE  [Unleased(row, s) EXCEPT !.output = NoOutput] \in Rows
  BY NoWorkerIsTyped DEF Unleased, Rows

LEMMA LeasedType ==
  ASSUME NEW row \in Rows, NEW w \in Workers, NEW term \in Nat,
         NEW token \in Nat, NEW workspace \in Nat
  PROVE  Leased(row, w, term, token, workspace) \in Rows
  <1>1. row.attempt + 1 \in Nat
    BY DEF Rows
  <1> DEFINE next == row.attempt + 1
  <1>2. [row EXCEPT !.status = "running", !.attempt = next, !.token = token,
                    !.worker = w, !.expires = term, !.workspace = workspace]
          \in Rows
    <2> HIDE DEF next
    <2> QED  BY <1>1 DEF next, Rows
  <1>3. QED  BY <1>2 DEF Leased

LEMMA RequeuedType ==
  ASSUME TypeOK PROVE Requeued \in [TaskIds -> Rows]
  BY UnleasedType DEF TypeOK, Requeued

LEMMA RecordedType ==
  ASSUME TypeOK, NEW id \in TaskIds, NEW outcome \in {"PASS", "FAILED", "kept"}
  PROVE  Recorded(id, outcome) \in [TaskIds -> Seq({"open", "PASS", "FAILED"})]
  <1>1. CASE tasks[id].workspace = 0 \/ outcome = "kept"
    BY <1>1 DEF Recorded, TypeOK
  <1>2. CASE ~(tasks[id].workspace = 0 \/ outcome = "kept")
    <2>1. disk[id] \in Seq({"open", "PASS", "FAILED"})
      BY DEF TypeOK
    <2>2. [disk[id] EXCEPT ![tasks[id].workspace] = outcome]
            \in Seq({"open", "PASS", "FAILED"})
      <3> DEFINE s == disk[id]
                 n == tasks[id].workspace
      <3>1. CASE n \in 1 .. Len(s)
        BY <1>2, <2>1, <3>1, ExceptSeq
      <3>2. CASE n \notin 1 .. Len(s)
        <4>1. DOMAIN s = 1 .. Len(s) /\ s = [i \in DOMAIN s |-> s[i]]
          BY <2>1
        <4>2. [s EXCEPT ![n] = outcome] = s
          BY <3>2, <4>1
        <4>3. QED  BY <2>1, <4>2
      <3>3. QED  BY <3>1, <3>2
    <2>3. QED  BY <1>2, <2>2 DEF Recorded, TypeOK
  <1>3. QED  BY <1>1, <1>2

LEMMA AcceptedType ==
  ASSUME NEW row \in Rows, NEW w \in Workers, NEW result,
         result.next_action \in NextActions \cup {"NONE"}
  PROVE  Accepted(row, w, result) \in Rows
  BY DEF Accepted, Unleased, Rows

LEMMA ReopenedType ==
  ASSUME NEW row \in Rows, NEW a \in Nat
  PROVE  Reopened(row, a) \in Rows
  BY NoWorkerIsTyped DEF Reopened, Unleased, Rows

LEMMA ResultNextAction ==
  ASSUME NEW id \in TaskIds, NEW result \in Results(id)
  PROVE  result.next_action \in NextActions \cup {"NONE"}
  BY DEF Results

LEMMA OutcomeType ==
  ASSUME NEW outcome \in FailureOutcomes
  PROVE  outcome \in {"PASS", "FAILED", "kept"}
  BY DEF FailureOutcomes

LEMMA IdentityTypes ==
  ASSUME NEW id \in TaskIds
  PROVE  /\ DiagnosisOf(id) \in TaskIds /\ SourceOf(id) \in TaskIds
         /\ Successor(id) \in TaskIds /\ Previous(id) \in TaskIds
  BY DEF DiagnosisOf, SourceOf, Successor, Previous, StageAfter, StageBefore,
         TaskIds, Stages

-----------------------------------------------------------------------------
(* Type correctness, action by action *)

LEMMA RunStaysTyped ==
  ASSUME run \in Runs, Environment
  PROVE  run' \in Runs
  <1>1. ASSUME NEW mode \in Modes, NEW required \in BOOLEAN,
               NEW artifacts \in BOOLEAN, CreateRun(mode, required, artifacts)
        PROVE  run' \in Runs
    BY <1>1, InputAssumption DEF CreateRun, NoRun, Runs
  <1>2. ASSUME NEW mode \in Modes, NEW ready \in BOOLEAN,
               NEW fingerprint \in Fingerprints,
               BindEnvironment(mode, ready, fingerprint)
        PROVE  run' \in Runs
    BY <1>2 DEF BindEnvironment, Runs
  <1>3. CASE RecordEnvironmentFailure
    BY <1>3 DEF RecordEnvironmentFailure, Runs
  <1>4. CASE RequireGraphEnvironment
    BY <1>4 DEF RequireGraphEnvironment, Runs
  <1>5. QED  BY <1>1, <1>2, <1>3, <1>4 DEF Environment

LEMMA RunActionsType ==
  ASSUME TypeOK, Environment
  PROVE  TypeOK'
  <1>1. UNCHANGED <<tasks, inserted, claimed, applied, disk>>
    BY DEF Environment, CreateRun, BindEnvironment, RecordEnvironmentFailure,
       RequireGraphEnvironment
  <1>2. QED  BY <1>1, RunStaysTyped DEF TypeOK

LEMMA DiscoverType ==
  ASSUME TypeOK, NEW key \in Keys, DiscoverOperator(key)
  PROVE  TypeOK'
  <1>1. NewRow(inserted + 1, 0) \in Rows
    BY NewRowType DEF TypeOK
  <1> DEFINE row == NewRow(inserted + 1, 0)
             id == [key |-> key, stage |-> "torch", diagnosis |-> FALSE]
  <1>2. tasks' = [tasks EXCEPT ![id] = row]
    BY DEF DiscoverOperator
  <1>3. tasks' \in [TaskIds -> Rows]
    <2> HIDE DEF row, id
    <2> QED  BY <1>1, <1>2 DEF row, TypeOK
  <1>4. inserted' \in Nat
    BY DEF DiscoverOperator, TypeOK
  <1>5. QED  BY <1>3, <1>4 DEF DiscoverOperator, TypeOK

LEMMA ClaimType ==
  ASSUME TypeOK, Claim
  PROVE  TypeOK'
  <1>1. PICK w \in Workers, stage \in ClaimStages, limit \in ClaimLimits,
             term \in LeaseTerms : ClaimReady(w, stage, limit, term)
    BY DEF Claim
  <1> DEFINE picked == Oldest(Requeued, Claimable(Requeued, stage), limit)
  <1> HIDE DEF picked
  <1>2. tasks' \in [TaskIds -> Rows]
    <2>1. ASSUME NEW id \in TaskIds
          PROVE  Leased(Requeued[id], w, term, Len(claimed[id]) + 1,
                        FreshWorkspace(id)) \in Rows
      <3>1. Requeued[id] \in Rows
        BY RequeuedType
      <3>2. Len(claimed[id]) + 1 \in Nat /\ FreshWorkspace(id) \in Nat
        BY DEF TypeOK, FreshWorkspace
      <3>3. term \in Nat
        BY InputAssumption
      <3>4. QED  BY <3>1, <3>2, <3>3, LeasedType
    <2>2. QED  BY <1>1, <2>1, RequeuedType DEF ClaimReady, picked
  <1>3. claimed' \in [TaskIds -> Seq(Workers)]
    BY <1>1 DEF ClaimReady, TypeOK
  <1>4. disk' \in [TaskIds -> Seq({"open", "PASS", "FAILED"})]
    BY <1>1 DEF ClaimReady, TypeOK
  <1>5. QED  BY <1>1, <1>2, <1>3, <1>4 DEF ClaimReady, TypeOK

LEMMA RenewType ==
  ASSUME TypeOK, NEW id \in TaskIds, NEW w \in Workers,
         NEW token \in DOMAIN claimed[id], NEW term \in LeaseTerms,
         RenewLease(id, w, token, term)
  PROVE  TypeOK'
  <1>1. [tasks[id] EXCEPT !.expires = term] \in Rows
    <2>1. term \in Nat /\ tasks[id] \in Rows
      BY InputAssumption DEF TypeOK
    <2>2. QED  BY <2>1 DEF Rows
  <1>2. QED  BY <1>1 DEF RenewLease, TypeOK

LEMMA AcceptType ==
  ASSUME TypeOK, NEW id \in TaskIds, NEW w \in Workers,
         NEW result \in Results(id), Accept(id, w, result),
         UNCHANGED <<run, claimed, applied>>
  PROVE  TypeOK'
  <1>1. Accepted(tasks[id], w, result) \in Rows
    BY AcceptedType, ResultNextAction DEF TypeOK
  <1>2. NewRow(inserted + 1, 0) \in Rows
    BY NewRowType DEF TypeOK
  <1>3. tasks' \in [TaskIds -> Rows]
    BY <1>1, <1>2 DEF Accept, TypeOK
  <1>4. disk' \in [TaskIds -> Seq({"open", "PASS", "FAILED"})]
    BY RecordedType DEF Accept
  <1>5. QED  BY <1>3, <1>4 DEF Accept, TypeOK

LEMMA RejectType ==
  ASSUME TypeOK, NEW id \in TaskIds, NEW outcome \in FailureOutcomes,
         Reject(id, outcome), UNCHANGED <<run, claimed, applied>>
  PROVE  TypeOK'
  <1>1. tasks[id].attempt \in Nat
    BY DEF TypeOK, Rows
  <1>2. NewRow(inserted + 1, tasks[id].attempt) \in Rows
    BY <1>1, NewRowType DEF TypeOK
  <1>3. [Unleased(tasks[id], "failed") EXCEPT !.output = NoOutput] \in Rows
    BY ClearedType DEF TypeOK
  <1>4. \A t \in TaskIds : Reopened(tasks[t], tasks[id].attempt) \in Rows
    BY <1>1, ReopenedType DEF TypeOK
  <1>5. tasks' \in [TaskIds -> Rows]
    BY <1>2, <1>3, <1>4 DEF Reject, TypeOK
  <1>6. disk' \in [TaskIds -> Seq({"open", "PASS", "FAILED"})]
    BY RecordedType, OutcomeType DEF Reject
  <1>7. inserted' \in Nat
    BY DEF Reject, TypeOK
  <1>8. QED  BY <1>5, <1>6, <1>7 DEF TypeOK

LEMMA SubmitType ==
  ASSUME TypeOK, NEW id \in TaskIds, Submit(id)
  PROVE  TypeOK'
  <1>1. PICK w \in Workers, token \in DOMAIN claimed[id] :
          \/ \E result \in Results(id) : Complete(id, w, token, result)
          \/ Fail(id, w, token)
    BY DEF Submit
  <1>2. ASSUME NEW result \in Results(id), Complete(id, w, token, result)
        PROVE  TypeOK'
    BY <1>2, AcceptType, RejectType DEF Complete
  <1>3. CASE Fail(id, w, token)
    BY <1>3, RejectType DEF Fail
  <1>4. QED  BY <1>1, <1>2, <1>3

LEMMA ApplyType ==
  ASSUME TypeOK, NEW d \in TaskIds, ApplyDiagnosis(d)
  PROVE  TypeOK'
  <1>1. Application(d) \in Nat \X Nat
    BY DEF Application, TypeOK, Rows
  <1>2. applied' \in [TaskIds -> SUBSET (Nat \X Nat)]
    BY <1>1 DEF ApplyDiagnosis, TypeOK
  <1>3. [Unleased(tasks[SourceOf(d)], "pending") EXCEPT !.output = NoOutput]
          \in Rows
    BY IdentityTypes, ClearedType DEF TypeOK
  <1>4. tasks' \in [TaskIds -> Rows]
    BY <1>3 DEF ApplyDiagnosis, TypeOK
  <1>5. QED  BY <1>2, <1>4 DEF ApplyDiagnosis, TypeOK

LEMMA RecoverType ==
  ASSUME TypeOK, NEW force \in BOOLEAN, Recover(force)
  PROVE  TypeOK'
  BY UnleasedType DEF Recover, TypeOK

LEMMA AbortType ==
  ASSUME TypeOK, Abort
  PROVE  TypeOK'
  <1>1. ASSUME NEW stage \in ClaimStages, ClaimAborted(stage)
        PROVE  TypeOK'
    <2>1. PICK id \in TaskIds : disk' = [disk EXCEPT ![id] = Append(@, "open")]
      BY <1>1 DEF ClaimAborted, Oldest, Claimable
    <2>2. QED  BY <1>1, <2>1 DEF ClaimAborted, TypeOK
  <1>2. ASSUME NEW id \in TaskIds, NEW w \in Workers,
               NEW token \in DOMAIN claimed[id], NEW outcome \in {"PASS", "FAILED"},
               SubmissionAborted(id, w, token, outcome)
        PROVE  TypeOK'
    BY <1>2, RecordedType DEF SubmissionAborted, TypeOK
  <1>3. QED  BY <1>1, <1>2 DEF Abort

LEMMA TickType ==
  ASSUME TypeOK, Tick
  PROVE  TypeOK'
  <1>1. ASSUME NEW id \in TaskIds, tasks[id].expires > 0
        PROVE  [tasks[id] EXCEPT !.expires = @ - 1] \in Rows
    <2>1. tasks[id] \in Rows /\ tasks[id].expires \in Nat
      BY DEF TypeOK, Rows
    <2>2. tasks[id].expires - 1 \in Nat
      BY <1>1, <2>1
    <2>3. QED  BY <2>1, <2>2 DEF Rows
  <1>2. QED  BY <1>1 DEF Tick, TypeOK


LEMMA NextType ==
  ASSUME TypeOK, [Next]_vars
  PROVE  TypeOK'
  <1>1. CASE Environment
    BY <1>1, RunActionsType
  <1>2. ASSUME NEW key \in Keys, DiscoverOperator(key)
        PROVE  TypeOK'
    BY <1>2, DiscoverType
  <1>3. CASE Claim
    BY <1>3, ClaimType
  <1>4. ASSUME NEW id \in TaskIds, NEW w \in Workers,
               NEW token \in DOMAIN claimed[id], NEW term \in LeaseTerms,
               RenewLease(id, w, token, term)
        PROVE  TypeOK'
    BY <1>4, RenewType
  <1>5. ASSUME NEW id \in TaskIds, Submit(id)
        PROVE  TypeOK'
    BY <1>5, SubmitType
  <1>6. ASSUME NEW d \in TaskIds, ApplyDiagnosis(d)
        PROVE  TypeOK'
    BY <1>6, ApplyType
  <1>7. ASSUME NEW force \in BOOLEAN, Recover(force)
        PROVE  TypeOK'
    BY <1>7, RecoverType
  <1>8. CASE Abort
    BY <1>8, AbortType
  <1>9. CASE Tick
    BY <1>9, TickType
  <1>10. CASE UNCHANGED vars
    BY <1>10 DEF vars, TypeOK
  <1>11. QED
    BY <1>1, <1>2, <1>3, <1>4, <1>5, <1>6, <1>7, <1>8, <1>9, <1>10 DEF Next

(* Every reachable state has typed tables, whatever is submitted.          *)
THEOREM TypeCorrect == Spec => []TypeOK
  <1>1. Init => TypeOK
    BY AbsentRowType DEF Init, TypeOK, NoRun, Runs
  <1>2. TypeOK /\ [Next]_vars => TypeOK'
    BY NextType
  <1>3. QED  BY <1>1, <1>2, PTL DEF Spec

-----------------------------------------------------------------------------
(* Rows at rest *)

Queued == {"pending", "running"}

QueueStep ==
  /\ applied' = applied
  /\ \A id \in TaskIds :
       IF tasks[id].status \in Queued
       THEN /\ tasks'[id].status \in Queued
            /\ tasks'[id].source_attempt = tasks[id].source_attempt
       ELSE tasks'[id] = tasks[id]

LEMMA RequeuedAtRest ==
  ASSUME TypeOK, NEW id \in TaskIds
  PROVE  IF tasks[id].status \in Queued
         THEN /\ Requeued[id].status \in Queued
              /\ Requeued[id].source_attempt = tasks[id].source_attempt
         ELSE Requeued[id] = tasks[id]
  BY DEF TypeOK, Rows, Requeued, Lapsed, Unleased, Queued

LEMMA ClaimIsQueueStep ==
  ASSUME TypeOK, Claim
  PROVE  QueueStep
  <1>1. PICK w \in Workers, stage \in ClaimStages, limit \in ClaimLimits,
             term \in LeaseTerms : ClaimReady(w, stage, limit, term)
    BY DEF Claim
  <1> DEFINE picked == Oldest(Requeued, Claimable(Requeued, stage), limit)
  <1>2. \A id \in picked : id \in TaskIds /\ Requeued[id].status = "pending"
    BY DEF Oldest, Claimable
  <1> HIDE DEF picked
  <1>3. \A id \in TaskIds :
          tasks'[id] = IF id \in picked
                       THEN Leased(Requeued[id], w, term, Len(claimed[id]) + 1,
                                   FreshWorkspace(id))
                       ELSE Requeued[id]
    BY <1>1 DEF ClaimReady, picked
  <1>4. ASSUME NEW id \in TaskIds, NEW token, NEW workspace
        PROVE  LET r == Leased(Requeued[id], w, term, token, workspace)
               IN r.status = "running"
                    /\ r.source_attempt = Requeued[id].source_attempt
    <2>1. Requeued[id] \in Rows
      BY RequeuedType
    <2>2. QED  BY <2>1 DEF Leased, Rows
  <1>5. ASSUME NEW id \in TaskIds
        PROVE  IF tasks[id].status \in Queued
               THEN /\ tasks'[id].status \in Queued
                    /\ tasks'[id].source_attempt = tasks[id].source_attempt
               ELSE tasks'[id] = tasks[id]
    <2>1. CASE id \in picked
      <3>1. Requeued[id].status = "pending"
        BY <2>1, <1>2
      <3>2. tasks[id].status \in Queued
        BY <3>1, RequeuedAtRest DEF Queued
      <3>3. QED  BY <2>1, <3>2, <1>3, <1>4, RequeuedAtRest DEF Queued
    <2>2. CASE id \notin picked
      BY <2>2, <1>3, RequeuedAtRest
    <2>3. QED  BY <2>1, <2>2
  <1>6. applied' = applied
    BY <1>1 DEF ClaimReady
  <1>7. QED  BY <1>5, <1>6 DEF QueueStep

LEMMA RenewIsQueueStep ==
  ASSUME TypeOK, NEW id \in TaskIds, NEW w \in Workers,
         NEW token \in DOMAIN claimed[id], NEW term \in LeaseTerms,
         RenewLease(id, w, token, term)
  PROVE  QueueStep
  <1>1. \A t \in TaskIds : t # id => tasks'[t] = tasks[t]
    BY DEF RenewLease, TypeOK
  <1>2. /\ tasks[id].status = "running"
        /\ tasks'[id].status = tasks[id].status
        /\ tasks'[id].source_attempt = tasks[id].source_attempt
    <2>1. tasks[id] \in Rows /\ tasks'[id] = [tasks[id] EXCEPT !.expires = term]
      BY DEF RenewLease, TypeOK
    <2>2. QED  BY <2>1 DEF RenewLease, OwnedLease, Rows
  <1>3. QED  BY <1>1, <1>2 DEF RenewLease, QueueStep, Queued

LEMMA RecoverIsQueueStep ==
  ASSUME TypeOK, NEW force \in BOOLEAN, Recover(force)
  PROVE  QueueStep
  BY DEF Recover, QueueStep, Queued, TypeOK, Rows, Lapsed, Unleased

LEMMA TickIsQueueStep ==
  ASSUME TypeOK, LeaseOfLastClaim, Tick
  PROVE  QueueStep
  BY DEF Tick, LeaseOfLastClaim, QueueStep, Queued, TypeOK, Rows

-----------------------------------------------------------------------------
(* A lease is the last claim's *)

LeaseOK(row, workers) ==
  /\ row.attempt = Len(workers)
  /\ IF row.status = "running"
     THEN /\ row.attempt > 0
          /\ row.token = row.attempt
          /\ row.worker = workers[row.attempt]
     ELSE row.token = 0 /\ row.expires = 0
  /\ row.status = "absent" => row.attempt = 0

LEMMA LeaseByRow ==
  LeaseOfLastClaim <=> \A id \in TaskIds : LeaseOK(tasks[id], claimed[id])
  BY DEF LeaseOfLastClaim, LeaseOK

(* Clearing a lease, in whatever status the row ends and whatever else of  *)
(* its columns the statement writes, leaves the row with no lease.         *)
LEMMA ClearedLeaseOK ==
  ASSUME NEW row \in Rows, NEW workers, LeaseOK(row, workers),
         NEW s \in {"pending", "succeeded", "failed"}, NEW result, NEW w, NEW a
  PROVE  /\ LeaseOK(Unleased(row, s), workers)
         /\ LeaseOK([Unleased(row, s) EXCEPT !.output = NoOutput], workers)
         /\ LeaseOK(Accepted(row, w, result), workers)
         /\ LeaseOK(Reopened(row, a), workers)
  BY DEF LeaseOK, Unleased, Accepted, Reopened, Rows

LEMMA NewRowLeaseOK ==
  ASSUME NEW row, NEW workers, LeaseOK(row, workers), row.status = "absent",
         NEW n, NEW a
  PROVE  LeaseOK(NewRow(n, a), workers)
  BY DEF LeaseOK, NewRow, AbsentRow

LEMMA LeasedLeaseOK ==
  ASSUME NEW row \in Rows, NEW workers \in Seq(Workers), LeaseOK(row, workers),
         NEW w \in Workers, NEW term, NEW workspace
  PROVE  LeaseOK(Leased(row, w, term, Len(workers) + 1, workspace),
                 Append(workers, w))
  <1> DEFINE r == Leased(row, w, term, Len(workers) + 1, workspace)
             more == Append(workers, w)
  <1>1. /\ r.status = "running" /\ r.worker = w /\ r.token = Len(workers) + 1
        /\ r.attempt = row.attempt + 1
    BY DEF Leased, Rows
  <1>2. Len(more) = Len(workers) + 1 /\ more[Len(workers) + 1] = w
    BY AppendProperties
  <1>3. row.attempt = Len(workers) /\ Len(workers) \in Nat
    BY DEF LeaseOK
  <1> HIDE DEF r, more
  <1>4. LeaseOK(r, more)
    BY <1>1, <1>2, <1>3 DEF LeaseOK
  <1>5. QED  BY <1>4 DEF r, more

LEMMA ClaimKeepsLeases ==
  ASSUME TypeOK, LeaseOfLastClaim, Claim
  PROVE  LeaseOfLastClaim'
  <1>1. PICK w \in Workers, stage \in ClaimStages, limit \in ClaimLimits,
             term \in LeaseTerms : ClaimReady(w, stage, limit, term)
    BY DEF Claim
  <1> DEFINE picked == Oldest(Requeued, Claimable(Requeued, stage), limit)
  <1> HIDE DEF picked
  <1>2. ASSUME NEW id \in TaskIds
        PROVE  LeaseOK(tasks'[id], claimed'[id])
    <2>1. Requeued[id] \in Rows /\ LeaseOK(Requeued[id], claimed[id])
      <3>1. tasks[id] \in Rows /\ LeaseOK(tasks[id], claimed[id])
        BY LeaseByRow DEF TypeOK
      <3>2. LeaseOK(Unleased(tasks[id], "pending"), claimed[id])
        BY <3>1, ClearedLeaseOK
      <3>3. QED  BY <3>1, <3>2, RequeuedType DEF Requeued
    <2>2. claimed[id] \in Seq(Workers)
      BY DEF TypeOK
    <2>3. CASE id \in picked
      <3>1. /\ tasks'[id] = Leased(Requeued[id], w, term, Len(claimed[id]) + 1,
                                   FreshWorkspace(id))
            /\ claimed'[id] = Append(claimed[id], w)
        BY <1>1, <2>3 DEF ClaimReady, picked
      <3>2. QED  BY <2>1, <2>2, <3>1, LeasedLeaseOK
    <2>4. CASE id \notin picked
      <3>1. tasks'[id] = Requeued[id] /\ claimed'[id] = claimed[id]
        BY <1>1, <2>4 DEF ClaimReady, picked
      <3>2. QED  BY <2>1, <3>1
    <2>5. QED  BY <2>3, <2>4
  <1>3. QED  BY <1>2 DEF LeaseOfLastClaim, LeaseOK

(* Every other action leaves the claims alone: it is enough to look at the *)
(* rows it writes.                                                         *)
LEMMA RowsKeepLeases ==
  ASSUME claimed' = claimed,
         \A id \in TaskIds : LeaseOK(tasks'[id], claimed[id])
  PROVE  LeaseOfLastClaim'
  BY DEF LeaseOfLastClaim, LeaseOK

LEMMA RejectKeepsLeases ==
  ASSUME TypeOK, LeaseOfLastClaim, NEW id \in TaskIds, NEW outcome,
         Reject(id, outcome), claimed' = claimed
  PROVE  LeaseOfLastClaim'
  <1>1. ASSUME NEW t \in TaskIds
        PROVE  LeaseOK(tasks'[t], claimed[t])
    <2>1. tasks[t] \in Rows /\ LeaseOK(tasks[t], claimed[t])
      BY LeaseByRow DEF TypeOK
    <2>2. LeaseOK([Unleased(tasks[t], "failed") EXCEPT !.output = NoOutput],
                  claimed[t])
      BY <2>1, ClearedLeaseOK
    <2>3. LeaseOK(Reopened(tasks[t], tasks[id].attempt), claimed[t])
      BY <2>1, ClearedLeaseOK
    <2>4. tasks[t].status = "absent" =>
            LeaseOK(NewRow(inserted + 1, tasks[id].attempt), claimed[t])
      BY <2>1, NewRowLeaseOK
    <2>5. QED  BY <2>1, <2>2, <2>3, <2>4 DEF Reject, CreatesDiagnosis
  <1>2. QED  BY <1>1, RowsKeepLeases

LEMMA AcceptKeepsLeases ==
  ASSUME TypeOK, LeaseOfLastClaim, NEW id \in TaskIds, NEW w, NEW result,
         Accept(id, w, result), claimed' = claimed
  PROVE  LeaseOfLastClaim'
  <1>1. ASSUME NEW t \in TaskIds
        PROVE  LeaseOK(tasks'[t], claimed[t])
    <2>1. tasks[t] \in Rows /\ LeaseOK(tasks[t], claimed[t])
      BY LeaseByRow DEF TypeOK
    <2>2. LeaseOK(Accepted(tasks[t], w, result), claimed[t])
      BY <2>1, ClearedLeaseOK
    <2>3. tasks[t].status = "absent" =>
            LeaseOK(NewRow(inserted + 1, 0), claimed[t])
      BY <2>1, NewRowLeaseOK
    <2>4. QED  BY <2>1, <2>2, <2>3 DEF Accept, CreatesNext
  <1>2. QED  BY <1>1, RowsKeepLeases


LEMMA SubmitKeepsLeases ==
  ASSUME TypeOK, LeaseOfLastClaim, NEW id \in TaskIds, Submit(id)
  PROVE  LeaseOfLastClaim'
  BY AcceptKeepsLeases, RejectKeepsLeases DEF Submit, Complete, Fail

LEMMA DiscoverKeepsLeases ==
  ASSUME TypeOK, LeaseOfLastClaim, NEW key \in Keys, DiscoverOperator(key)
  PROVE  LeaseOfLastClaim'
  <1> DEFINE id == [key |-> key, stage |-> "torch", diagnosis |-> FALSE]
             row == NewRow(inserted + 1, 0)
  <1>1. tasks[id].status = "absent" /\ tasks' = [tasks EXCEPT ![id] = row]
    BY DEF DiscoverOperator
  <1> HIDE DEF id
  <1>2. ASSUME NEW t \in TaskIds
        PROVE  LeaseOK(tasks'[t], claimed[t])
    <2>1. LeaseOK(tasks[t], claimed[t])
      BY LeaseByRow
    <2>2. tasks[t].status = "absent" => LeaseOK(row, claimed[t])
      BY <2>1, NewRowLeaseOK
    <2> HIDE DEF row
    <2>3. QED  BY <1>1, <2>1, <2>2 DEF TypeOK
  <1>3. QED  BY <1>2, RowsKeepLeases DEF DiscoverOperator

LEMMA RenewKeepsLeases ==
  ASSUME TypeOK, LeaseOfLastClaim, NEW id \in TaskIds, NEW w \in Workers,
         NEW token \in DOMAIN claimed[id], NEW term \in LeaseTerms,
         RenewLease(id, w, token, term)
  PROVE  LeaseOfLastClaim'
  <1>1. ASSUME NEW t \in TaskIds
        PROVE  LeaseOK(tasks'[t], claimed[t])
    <2>1. tasks[t] \in Rows /\ LeaseOK(tasks[t], claimed[t])
      BY LeaseByRow DEF TypeOK
    <2>2. CASE t = id
      <3>1. /\ tasks[id].status = "running"
            /\ tasks'[id] = [tasks[id] EXCEPT !.expires = term]
        BY DEF RenewLease, OwnedLease, TypeOK
      <3>2. QED  BY <2>1, <2>2, <3>1 DEF LeaseOK, Rows
    <2>3. CASE t # id
      BY <2>1, <2>3 DEF RenewLease, TypeOK
    <2>4. QED  BY <2>2, <2>3
  <1>2. QED  BY <1>1, RowsKeepLeases DEF RenewLease

LEMMA ApplyKeepsLeases ==
  ASSUME TypeOK, LeaseOfLastClaim, NEW d \in TaskIds, ApplyDiagnosis(d)
  PROVE  LeaseOfLastClaim'
  <1>1. ASSUME NEW t \in TaskIds
        PROVE  LeaseOK(tasks'[t], claimed[t])
    <2>1. tasks[t] \in Rows /\ LeaseOK(tasks[t], claimed[t])
      BY LeaseByRow DEF TypeOK
    <2>2. LeaseOK([Unleased(tasks[t], "pending") EXCEPT !.output = NoOutput],
                  claimed[t])
      BY <2>1, ClearedLeaseOK
    <2>3. QED  BY <2>1, <2>2 DEF ApplyDiagnosis, TypeOK
  <1>2. QED  BY <1>1, RowsKeepLeases DEF ApplyDiagnosis

LEMMA RecoverKeepsLeases ==
  ASSUME TypeOK, LeaseOfLastClaim, NEW force \in BOOLEAN, Recover(force)
  PROVE  LeaseOfLastClaim'
  <1>1. ASSUME NEW t \in TaskIds
        PROVE  LeaseOK(tasks'[t], claimed[t])
    <2>1. tasks[t] \in Rows /\ LeaseOK(tasks[t], claimed[t])
      BY LeaseByRow DEF TypeOK
    <2>2. LeaseOK(Unleased(tasks[t], "pending"), claimed[t])
      BY <2>1, ClearedLeaseOK
    <2>3. QED  BY <2>1, <2>2 DEF Recover
  <1>2. QED  BY <1>1, RowsKeepLeases DEF Recover

LEMMA TickKeepsLeases ==
  ASSUME TypeOK, LeaseOfLastClaim, Tick
  PROVE  LeaseOfLastClaim'
  <1>1. ASSUME NEW t \in TaskIds
        PROVE  LeaseOK(tasks'[t], claimed[t])
    <2>1. tasks[t] \in Rows /\ LeaseOK(tasks[t], claimed[t])
      BY LeaseByRow DEF TypeOK
    <2>2. tasks[t].expires > 0 =>
            LeaseOK([tasks[t] EXCEPT !.expires = @ - 1], claimed[t])
      BY <2>1 DEF LeaseOK, Rows
    <2>3. QED  BY <2>1, <2>2 DEF Tick
  <1>2. QED  BY <1>1, RowsKeepLeases DEF Tick

(* Actions that write no row and record no claim.                          *)
RowsUnchanged == tasks' = tasks /\ claimed' = claimed /\ applied' = applied

LEMMA RowFreeActions ==
  /\ Environment => RowsUnchanged
  /\ Abort => RowsUnchanged
  /\ UNCHANGED vars => RowsUnchanged
  BY DEF Environment, CreateRun, BindEnvironment, RecordEnvironmentFailure,
         RequireGraphEnvironment, Abort, ClaimAborted, SubmissionAborted, vars,
         RowsUnchanged

LEMMA NextKeepsLeases ==
  ASSUME TypeOK, LeaseOfLastClaim, [Next]_vars
  PROVE  LeaseOfLastClaim'
  <1>1. CASE RowsUnchanged
    BY <1>1 DEF RowsUnchanged, LeaseOfLastClaim
  <1>2. ASSUME NEW key \in Keys, DiscoverOperator(key)
        PROVE  LeaseOfLastClaim'
    BY <1>2, DiscoverKeepsLeases
  <1>3. CASE Claim
    BY <1>3, ClaimKeepsLeases
  <1>4. ASSUME NEW id \in TaskIds, NEW w \in Workers,
               NEW token \in DOMAIN claimed[id], NEW term \in LeaseTerms,
               RenewLease(id, w, token, term)
        PROVE  LeaseOfLastClaim'
    BY <1>4, RenewKeepsLeases
  <1>5. ASSUME NEW id \in TaskIds, Submit(id)
        PROVE  LeaseOfLastClaim'
    BY <1>5, SubmitKeepsLeases
  <1>6. ASSUME NEW d \in TaskIds, ApplyDiagnosis(d)
        PROVE  LeaseOfLastClaim'
    BY <1>6, ApplyKeepsLeases
  <1>7. ASSUME NEW force \in BOOLEAN, Recover(force)
        PROVE  LeaseOfLastClaim'
    BY <1>7, RecoverKeepsLeases
  <1>8. CASE Tick
    BY <1>8, TickKeepsLeases
  <1>9. QED
    BY <1>1, <1>2, <1>3, <1>4, <1>5, <1>6, <1>7, <1>8, RowFreeActions DEF Next

(* Whatever workers crash, claims race and tokens are replayed, a live     *)
(* lease is the one the last task_claimed event granted.                   *)
THEOREM LeasesAreLastClaims == Spec => []LeaseOfLastClaim
  <1>1. Init => LeaseOfLastClaim
    BY DEF Init, LeaseOfLastClaim, AbsentRow
  <1>2. TypeOK /\ LeaseOfLastClaim /\ [Next]_vars => LeaseOfLastClaim'
    BY NextKeepsLeases
  <1>3. QED  BY <1>1, <1>2, TypeCorrect, PTL DEF Spec


-----------------------------------------------------------------------------
(* Identities of rows *)

LEMMA DiagnosisIdentity ==
  ASSUME NEW d \in TaskIds, d.diagnosis
  PROVE  /\ ~SourceOf(d).diagnosis
         /\ DiagnosisOf(SourceOf(d)) = d
         /\ SourceOf(d) # d
  BY DEF TaskIds, SourceOf, DiagnosisOf

LEMMA SourceIdentity ==
  ASSUME NEW id \in TaskIds, ~id.diagnosis
  PROVE  /\ DiagnosisOf(id).diagnosis
         /\ SourceOf(DiagnosisOf(id)) = id
         /\ DiagnosisOf(id) # id
  BY DEF TaskIds, SourceOf, DiagnosisOf

LEMMA StageIdentity ==
  ASSUME NEW id \in TaskIds, ~id.diagnosis, id.stage # "integration"
  PROVE  /\ ~Successor(id).diagnosis
         /\ Successor(id).stage # "torch"
         /\ Previous(Successor(id)) = id
         /\ Successor(id) # id
  BY DEF TaskIds, Stages, Successor, StageAfter, Previous, StageBefore

LEMMA PreviousIdentity ==
  ASSUME NEW id \in TaskIds, ~id.diagnosis, id.stage # "torch"
  PROVE  /\ ~Previous(id).diagnosis
         /\ Previous(id).stage # "integration"
         /\ Successor(Previous(id)) = id
  BY DEF TaskIds, Stages, Successor, StageAfter, Previous, StageBefore

-----------------------------------------------------------------------------
(* Diagnoses track failures *)

LEMMA QueueStepTracks ==
  ASSUME TypeOK, DiagnosisTracksFailure, QueueStep
  PROVE  DiagnosisTracksFailure'
  <1>1. SUFFICES ASSUME NEW d \in TaskIds, OpenDiagnosis(d)'
                 PROVE  /\ tasks'[SourceOf(d)].status = "failed"
                        /\ tasks'[SourceOf(d)].attempt = tasks'[d].source_attempt
    BY DEF DiagnosisTracksFailure
  <1>2. OpenDiagnosis(d)
    BY <1>1 DEF OpenDiagnosis, QueueStep, Queued, Application
  <1>3. /\ tasks[SourceOf(d)].status = "failed"
        /\ tasks[SourceOf(d)].attempt = tasks[d].source_attempt
    BY <1>2 DEF DiagnosisTracksFailure
  <1>4. SourceOf(d) \in TaskIds
    BY IdentityTypes
  <1>5. QED  BY <1>3, <1>4 DEF QueueStep, Queued

LEMMA DiscoverTracks ==
  ASSUME TypeOK, DiagnosisTracksFailure, NEW key \in Keys, DiscoverOperator(key)
  PROVE  DiagnosisTracksFailure'
  <1> DEFINE id == [key |-> key, stage |-> "torch", diagnosis |-> FALSE]
  <1>1. /\ id \in TaskIds /\ ~id.diagnosis /\ tasks[id].status = "absent"
        /\ \A t \in TaskIds : t # id => tasks'[t] = tasks[t]
        /\ applied' = applied
    BY DEF DiscoverOperator, TypeOK, TaskIds, Stages
  <1> HIDE DEF id
  <1>2. SUFFICES ASSUME NEW d \in TaskIds, OpenDiagnosis(d)'
                 PROVE  /\ tasks'[SourceOf(d)].status = "failed"
                        /\ tasks'[SourceOf(d)].attempt = tasks'[d].source_attempt
    BY DEF DiagnosisTracksFailure
  <1>3. d # id /\ tasks'[d] = tasks[d]
    BY <1>1, <1>2 DEF OpenDiagnosis
  <1>4. OpenDiagnosis(d)
    BY <1>1, <1>2, <1>3 DEF OpenDiagnosis, Application
  <1>5. SourceOf(d) \in TaskIds /\ SourceOf(d) # id
    BY <1>1, <1>4, IdentityTypes DEF DiagnosisTracksFailure
  <1>6. QED  BY <1>1, <1>3, <1>4, <1>5 DEF DiagnosisTracksFailure

LEMMA AcceptTracks ==
  ASSUME TypeOK, DiagnosisTracksFailure, NEW id \in TaskIds,
         tasks[id].status = "running", NEW w, NEW result,
         Accept(id, w, result), applied' = applied
  PROVE  DiagnosisTracksFailure'
  <1>1. SUFFICES ASSUME NEW d \in TaskIds, OpenDiagnosis(d)'
                 PROVE  /\ tasks'[SourceOf(d)].status = "failed"
                        /\ tasks'[SourceOf(d)].attempt = tasks'[d].source_attempt
    BY DEF DiagnosisTracksFailure
  <1>2. d.diagnosis /\ SourceOf(d) \in TaskIds
    BY <1>1, IdentityTypes DEF OpenDiagnosis
  <1>3. \A t \in TaskIds : t # id /\ ~(CreatesNext(id) /\ t = Successor(id))
                             => tasks'[t] = tasks[t]
    BY DEF Accept
  <1>4. ~(CreatesNext(id) /\ d = Successor(id))
    BY <1>2, StageIdentity DEF CreatesNext
  <1>5. /\ OpenDiagnosis(d)
        /\ tasks'[d].source_attempt = tasks[d].source_attempt
    <2>1. CASE d = id
      <3>1. tasks'[d] = Accepted(tasks[d], w, result) /\ tasks[d] \in Rows
        BY <2>1 DEF Accept, TypeOK
      <3>2. QED  BY <1>2, <2>1, <3>1 DEF OpenDiagnosis, Accepted, Unleased, Rows
    <2>2. CASE d # id
      BY <1>1, <1>3, <1>4, <2>2 DEF OpenDiagnosis, Application
    <2>3. QED  BY <2>1, <2>2
  <1>6. /\ tasks[SourceOf(d)].status = "failed"
        /\ tasks[SourceOf(d)].attempt = tasks[d].source_attempt
    BY <1>5 DEF DiagnosisTracksFailure
  <1>7. tasks'[SourceOf(d)] = tasks[SourceOf(d)]
    BY <1>2, <1>3, <1>6 DEF CreatesNext
  <1>8. QED  BY <1>5, <1>6, <1>7

LEMMA RejectTracks ==
  ASSUME TypeOK, DiagnosisTracksFailure, NEW id \in TaskIds,
         tasks[id].status = "running", NEW outcome,
         Reject(id, outcome), applied' = applied
  PROVE  DiagnosisTracksFailure'
  <1>1. SUFFICES ASSUME NEW d \in TaskIds, OpenDiagnosis(d)'
                 PROVE  /\ tasks'[SourceOf(d)].status = "failed"
                        /\ tasks'[SourceOf(d)].attempt = tasks'[d].source_attempt
    BY DEF DiagnosisTracksFailure
  <1>2. d.diagnosis /\ SourceOf(d) \in TaskIds
    BY <1>1, IdentityTypes DEF OpenDiagnosis
  <1>3. /\ tasks'[id].status = "failed"
        /\ tasks'[id].attempt = tasks[id].attempt
        /\ tasks'[id].source_attempt = tasks[id].source_attempt
    <2>1. /\ tasks'[id] = [Unleased(tasks[id], "failed") EXCEPT !.output = NoOutput]
          /\ tasks[id] \in Rows
      BY DEF Reject, TypeOK
    <2>2. QED  BY <2>1 DEF Unleased, Rows
  <1>4. CASE SourceOf(d) = id
    <2>1. ~id.diagnosis /\ d = DiagnosisOf(id) /\ d # id
      BY <1>2, <1>4, DiagnosisIdentity
    <2>2. CASE CreatesDiagnosis(id)
      <3>1. tasks'[d] = NewRow(inserted + 1, tasks[id].attempt)
        BY <2>1, <2>2 DEF Reject
      <3>2. tasks'[d].source_attempt = tasks[id].attempt
        BY <3>1 DEF NewRow, AbsentRow
      <3>3. QED  BY <1>3, <1>4, <3>2
    <2>3. CASE ReopensDiagnosis(id)
      <3>1. tasks'[d] = Reopened(tasks[d], tasks[id].attempt) /\ tasks[d] \in Rows
        BY <2>1, <2>3 DEF Reject, ReopensDiagnosis, TypeOK
      <3>2. tasks'[d].source_attempt = tasks[id].attempt
        BY <3>1 DEF Reopened, Unleased, Rows
      <3>3. QED  BY <1>3, <1>4, <3>2
    <2>4. CASE ~CreatesDiagnosis(id) /\ ~ReopensDiagnosis(id)
      <3>1. tasks'[d] = tasks[d]
        BY <2>1, <2>4 DEF Reject
      <3>2. OpenDiagnosis(d)
        BY <1>1, <3>1 DEF OpenDiagnosis, Application
      <3>3. QED  BY <1>4, <3>2 DEF DiagnosisTracksFailure
    <2>5. QED  BY <2>2, <2>3, <2>4
  <1>5. CASE SourceOf(d) # id
    <2>1. \/ d = id
          \/ tasks'[d] = tasks[d]
      <3>1. d = DiagnosisOf(id) => id.diagnosis
        BY <1>5, SourceIdentity
      <3>2. QED  BY <3>1 DEF Reject, CreatesDiagnosis, ReopensDiagnosis
    <2>2. /\ OpenDiagnosis(d)
          /\ tasks'[d].source_attempt = tasks[d].source_attempt
      BY <1>1, <1>2, <1>3, <2>1 DEF OpenDiagnosis, Application
    <2>3. tasks'[SourceOf(d)] = tasks[SourceOf(d)]
      <3>1. SourceOf(d) = DiagnosisOf(id) => id.diagnosis
        BY <1>2, DiagnosisIdentity, SourceIdentity
      <3>2. QED
        BY <1>2, <1>5, <3>1 DEF Reject, CreatesDiagnosis, ReopensDiagnosis
    <2>4. QED  BY <2>2, <2>3 DEF DiagnosisTracksFailure
  <1>6. QED  BY <1>4, <1>5

LEMMA ApplyTracks ==
  ASSUME TypeOK, DiagnosisTracksFailure, NEW a \in TaskIds, ApplyDiagnosis(a)
  PROVE  DiagnosisTracksFailure'
  <1>1. SUFFICES ASSUME NEW d \in TaskIds, OpenDiagnosis(d)'
                 PROVE  /\ tasks'[SourceOf(d)].status = "failed"
                        /\ tasks'[SourceOf(d)].attempt = tasks'[d].source_attempt
    BY DEF DiagnosisTracksFailure
  <1>2. /\ d.diagnosis /\ SourceOf(d) \in TaskIds
        /\ a.diagnosis /\ SourceOf(a) \in TaskIds
    BY <1>1, IdentityTypes DEF OpenDiagnosis, ApplyDiagnosis
  <1>3. \A t \in TaskIds : t # SourceOf(a) => tasks'[t] = tasks[t]
    BY <1>2 DEF ApplyDiagnosis, TypeOK
  <1>4. d # SourceOf(a) /\ a # SourceOf(a)
    BY <1>2, DiagnosisIdentity
  <1>5. tasks'[d] = tasks[d] /\ tasks'[a] = tasks[a]
    BY <1>3, <1>4
  <1>6. /\ Application(a) \in applied'[a]
        /\ applied[d] \subseteq applied'[d]
    BY DEF ApplyDiagnosis, TypeOK
  <1>7. d # a
    <2>1. SUFFICES ASSUME d = a PROVE FALSE
      OBVIOUS
    <2>2. tasks'[a].status = "succeeded" /\ Application(a)' = Application(a)
      BY <1>5 DEF ApplyDiagnosis, Application
    <2>3. QED  BY <1>1, <1>6, <2>1, <2>2 DEF OpenDiagnosis
  <1>8. OpenDiagnosis(d)
    BY <1>1, <1>5, <1>6 DEF OpenDiagnosis, Application
  <1>9. SourceOf(d) # SourceOf(a)
    BY <1>2, <1>7, DiagnosisIdentity
  <1>10. QED  BY <1>2, <1>3, <1>5, <1>8, <1>9 DEF DiagnosisTracksFailure

LEMMA NextTracks ==
  ASSUME TypeOK, LeaseOfLastClaim, DiagnosisTracksFailure, [Next]_vars
  PROVE  DiagnosisTracksFailure'
  <1>1. CASE RowsUnchanged
    BY <1>1 DEF RowsUnchanged, DiagnosisTracksFailure, OpenDiagnosis, Application
  <1>2. CASE QueueStep
    BY <1>2, QueueStepTracks
  <1>3. ASSUME NEW key \in Keys, DiscoverOperator(key)
        PROVE  DiagnosisTracksFailure'
    BY <1>3, DiscoverTracks
  <1>4. ASSUME NEW id \in TaskIds, Submit(id)
        PROVE  DiagnosisTracksFailure'
    BY <1>4, AcceptTracks, RejectTracks DEF Submit, Complete, Fail, OwnedLease
  <1>5. ASSUME NEW d \in TaskIds, ApplyDiagnosis(d)
        PROVE  DiagnosisTracksFailure'
    BY <1>5, ApplyTracks
  <1>6. QED
    BY <1>1, <1>2, <1>3, <1>4, <1>5, RowFreeActions, ClaimIsQueueStep,
       RenewIsQueueStep, RecoverIsQueueStep, TickIsQueueStep DEF Next

(* However claims, failures and retries interleave, an open diagnosis is   *)
(* about the attempt its source failed in.                                 *)
THEOREM DiagnosesTrackFailures == Spec => []DiagnosisTracksFailure
  <1>1. Init => DiagnosisTracksFailure
    BY DEF Init, DiagnosisTracksFailure, OpenDiagnosis, AbsentRow
  <1>2. TypeOK /\ LeaseOfLastClaim /\ DiagnosisTracksFailure /\ [Next]_vars
          => DiagnosisTracksFailure'
    BY NextTracks
  <1>3. QED  BY <1>1, <1>2, TypeCorrect, LeasesAreLastClaims, PTL DEF Spec


-----------------------------------------------------------------------------
(* No missing edge *)

LEMMA QueueStepEdges ==
  ASSUME TypeOK, NoMissingEdge, QueueStep
  PROVE  NoMissingEdge'
  <1>1. \A t \in TaskIds : \A s \in {"absent", "succeeded", "failed"} :
          tasks'[t].status = s <=> tasks[t].status = s
    BY DEF QueueStep, Queued
  <1>2. QED  BY <1>1, IdentityTypes DEF NoMissingEdge

LEMMA DiscoverEdges ==
  ASSUME TypeOK, NoMissingEdge, NEW key \in Keys, DiscoverOperator(key)
  PROVE  NoMissingEdge'
  <1> DEFINE id == [key |-> key, stage |-> "torch", diagnosis |-> FALSE]
  <1>1. /\ id \in TaskIds /\ ~id.diagnosis /\ id.stage = "torch"
        /\ tasks[id].status = "absent" /\ tasks'[id].status = "pending"
        /\ \A t \in TaskIds : t # id => tasks'[t] = tasks[t]
    BY DEF DiscoverOperator, TypeOK, TaskIds, Stages, NewRow, AbsentRow
  <1> HIDE DEF id
  <1>2. QED  BY <1>1, IdentityTypes DEF NoMissingEdge

LEMMA AcceptEdges ==
  ASSUME TypeOK, NoMissingEdge, NEW id \in TaskIds,
         tasks[id].status = "running", NEW w, NEW result, Accept(id, w, result)
  PROVE  NoMissingEdge'
  <1>1. tasks'[id].status = "succeeded"
    <2>1. tasks'[id] = Accepted(tasks[id], w, result) /\ tasks[id] \in Rows
      BY DEF Accept, TypeOK
    <2>2. QED  BY <2>1 DEF Accepted, Unleased, Rows
  <1>2. \A t \in TaskIds : t # id /\ ~(CreatesNext(id) /\ t = Successor(id))
                             => tasks'[t] = tasks[t]
    BY DEF Accept
  <1>3. CreatesNext(id) => /\ tasks'[Successor(id)].status = "pending"
                           /\ tasks[Successor(id)].status = "absent"
    BY IdentityTypes, StageIdentity DEF Accept, CreatesNext, NewRow, AbsentRow
  <1>4. SUFFICES ASSUME NEW t \in TaskIds, ~t.diagnosis
                 PROVE  /\ t.stage # "torch" =>
                             (tasks'[t].status # "absent"
                                <=> tasks'[Previous(t)].status = "succeeded")
                        /\ tasks'[t].status = "failed" =>
                             tasks'[DiagnosisOf(t)].status # "absent"
    BY DEF NoMissingEdge
  <1>5. ASSUME t.stage # "torch"
        PROVE  tasks'[t].status # "absent"
                 <=> tasks'[Previous(t)].status = "succeeded"
    <2>1. /\ Previous(t) \in TaskIds /\ ~Previous(t).diagnosis
          /\ Previous(t).stage # "integration" /\ Successor(Previous(t)) = t
      BY <1>4, <1>5, IdentityTypes, PreviousIdentity
    <2>2. tasks[t].status # "absent" <=> tasks[Previous(t)].status = "succeeded"
      BY <1>4, <1>5 DEF NoMissingEdge
    <2>3. CASE Previous(t) = id
      <3>1. CreatesNext(id) /\ t = Successor(id)
        BY <2>1, <2>2, <2>3 DEF CreatesNext
      <3>2. QED  BY <1>1, <1>3, <2>3, <3>1
    <2>4. CASE Previous(t) # id
      <3>1. ~(CreatesNext(id) /\ t = Successor(id))
        BY <2>4, StageIdentity DEF CreatesNext
      <3>2. tasks'[t].status # "absent" <=> tasks[t].status # "absent"
        BY <1>1, <1>2, <3>1
      <3>3. tasks'[Previous(t)].status = "succeeded"
              <=> tasks[Previous(t)].status = "succeeded"
        BY <1>2, <1>3, <2>1, <2>4
      <3>4. QED  BY <2>2, <3>2, <3>3
    <2>5. QED  BY <2>3, <2>4
  <1>6. ASSUME tasks'[t].status = "failed"
        PROVE  tasks'[DiagnosisOf(t)].status # "absent"
    <2>1. tasks[t].status = "failed"
      BY <1>1, <1>2, <1>3, <1>6
    <2>2. tasks[DiagnosisOf(t)].status # "absent" /\ DiagnosisOf(t) \in TaskIds
      BY <1>4, <2>1, IdentityTypes DEF NoMissingEdge
    <2>3. QED  BY <1>1, <1>2, <1>3, <2>2
  <1>7. QED  BY <1>5, <1>6

LEMMA RejectEdges ==
  ASSUME TypeOK, NoMissingEdge, NEW id \in TaskIds,
         tasks[id].status = "running", NEW outcome, Reject(id, outcome)
  PROVE  NoMissingEdge'
  <1>1. tasks'[id].status = "failed"
    <2>1. /\ tasks'[id] = [Unleased(tasks[id], "failed") EXCEPT !.output = NoOutput]
          /\ tasks[id] \in Rows
      BY DEF Reject, TypeOK
    <2>2. QED  BY <2>1 DEF Unleased, Rows
  <1>2. \A t \in TaskIds : t # id /\ (id.diagnosis \/ t # DiagnosisOf(id))
                             => tasks'[t] = tasks[t]
    BY DEF Reject, CreatesDiagnosis, ReopensDiagnosis
  <1>3. ~id.diagnosis => tasks'[DiagnosisOf(id)].status # "absent"
    <2>1. SUFFICES ASSUME ~id.diagnosis
                   PROVE  tasks'[DiagnosisOf(id)].status # "absent"
      OBVIOUS
    <2>2. DiagnosisOf(id) \in TaskIds /\ DiagnosisOf(id) # id
      BY <2>1, IdentityTypes, SourceIdentity
    <2>3. NewRow(inserted + 1, tasks[id].attempt).status = "pending"
      BY DEF NewRow, AbsentRow
    <2>4. Reopened(tasks[DiagnosisOf(id)], tasks[id].attempt).status = "pending"
      BY <2>2 DEF Reopened, Unleased, TypeOK, Rows
    <2>5. QED  BY <2>1, <2>2, <2>3, <2>4 DEF Reject, CreatesDiagnosis
  <1>4. \A t \in TaskIds : ~t.diagnosis => t # DiagnosisOf(id)
    BY DEF DiagnosisOf, TaskIds
  <1>5. \A t \in TaskIds : ~t.diagnosis =>
          /\ tasks'[t].status = "absent" <=> tasks[t].status = "absent"
          /\ tasks'[t].status = "succeeded" <=> tasks[t].status = "succeeded"
    BY <1>1, <1>2, <1>4
  <1>6. ASSUME NEW t \in TaskIds, ~t.diagnosis, tasks'[t].status = "failed"
        PROVE  tasks'[DiagnosisOf(t)].status # "absent"
    <2>1. CASE t = id
      BY <1>3, <1>6, <2>1
    <2>2. CASE t # id
      <3>1. tasks[t].status = "failed"
        BY <1>2, <1>4, <1>6, <2>2
      <3>2. DiagnosisOf(t) \in TaskIds /\ tasks[DiagnosisOf(t)].status # "absent"
        BY <1>6, <3>1, IdentityTypes DEF NoMissingEdge
      <3>3. DiagnosisOf(t) = DiagnosisOf(id) => id.diagnosis \/ t = id
        BY <1>6, SourceIdentity
      <3>4. QED  BY <1>1, <1>2, <2>2, <3>2, <3>3
    <2>3. QED  BY <2>1, <2>2
  <1>7. ASSUME NEW t \in TaskIds, ~t.diagnosis, t.stage # "torch"
        PROVE  tasks'[t].status # "absent"
                 <=> tasks'[Previous(t)].status = "succeeded"
    <2>1. Previous(t) \in TaskIds /\ ~Previous(t).diagnosis
      BY <1>7, IdentityTypes, PreviousIdentity
    <2>2. QED  BY <1>5, <1>7, <2>1 DEF NoMissingEdge
  <1>8. QED  BY <1>6, <1>7 DEF NoMissingEdge

LEMMA ApplyEdges ==
  ASSUME TypeOK, NoMissingEdge, NEW d \in TaskIds, ApplyDiagnosis(d)
  PROVE  NoMissingEdge'
  <1>1. CASE tasks' = tasks
    BY <1>1 DEF NoMissingEdge
  <1>2. CASE tasks' # tasks
    <2>1. SourceOf(d) \in TaskIds
      BY IdentityTypes
    <2>2. /\ tasks[SourceOf(d)].status = "failed"
          /\ \A t \in TaskIds : t # SourceOf(d) => tasks'[t] = tasks[t]
          /\ tasks'[SourceOf(d)] =
               [Unleased(tasks[SourceOf(d)], "pending") EXCEPT !.output = NoOutput]
      BY <1>2, <2>1 DEF ApplyDiagnosis, TypeOK
    <2>3. tasks'[SourceOf(d)].status = "pending"
      BY <2>1, <2>2 DEF TypeOK, Unleased, Rows
    <2>4. \A t \in TaskIds :
            /\ tasks'[t].status = "absent" <=> tasks[t].status = "absent"
            /\ tasks'[t].status = "succeeded" <=> tasks[t].status = "succeeded"
            /\ tasks'[t].status = "failed" => tasks[t].status = "failed"
      BY <2>2, <2>3
    <2>5. QED  BY <2>4, IdentityTypes DEF NoMissingEdge
  <1>3. QED  BY <1>1, <1>2

LEMMA NextEdges ==
  ASSUME TypeOK, LeaseOfLastClaim, NoMissingEdge, [Next]_vars
  PROVE  NoMissingEdge'
  <1>1. CASE RowsUnchanged
    BY <1>1 DEF RowsUnchanged, NoMissingEdge
  <1>2. CASE QueueStep
    BY <1>2, QueueStepEdges
  <1>3. ASSUME NEW key \in Keys, DiscoverOperator(key)
        PROVE  NoMissingEdge'
    BY <1>3, DiscoverEdges
  <1>4. ASSUME NEW id \in TaskIds, Submit(id)
        PROVE  NoMissingEdge'
    BY <1>4, AcceptEdges, RejectEdges DEF Submit, Complete, Fail, OwnedLease
  <1>5. ASSUME NEW d \in TaskIds, ApplyDiagnosis(d)
        PROVE  NoMissingEdge'
    BY <1>5, ApplyEdges
  <1>6. QED
    BY <1>1, <1>2, <1>3, <1>4, <1>5, RowFreeActions, ClaimIsQueueStep,
       RenewIsQueueStep, RecoverIsQueueStep, TickIsQueueStep DEF Next

(* A run this code made never needs reconcile: every stage has a row       *)
(* exactly when the one before it succeeded, every failure a diagnosis.    *)
THEOREM NoEdgeMissing == Spec => []NoMissingEdge
  <1>1. Init => NoMissingEdge
    <2>1. SUFFICES ASSUME Init PROVE NoMissingEdge
      OBVIOUS
    <2>2. \A t \in TaskIds : tasks[t].status = "absent"
      BY <2>1 DEF Init, AbsentRow
    <2>3. QED  BY <2>2, IdentityTypes DEF NoMissingEdge
  <1>2. TypeOK /\ LeaseOfLastClaim /\ NoMissingEdge /\ [Next]_vars
          => NoMissingEdge'
    BY NextEdges
  <1>3. QED  BY <1>1, <1>2, TypeCorrect, LeasesAreLastClaims, PTL DEF Spec


-----------------------------------------------------------------------------
(* Who decides, and what a retry consumes *)

(* A submission ends in one row succeeded or failed; other rows it writes  *)
(* are queued by it.                                                       *)
LEMMA SubmissionDecidesOne ==
  ASSUME TypeOK, NEW id \in TaskIds, NEW w, NEW result, NEW outcome,
         Accept(id, w, result) \/ Reject(id, outcome)
  PROVE  \A t \in TaskIds : t # id =>
           tasks'[t] = tasks[t] \/ tasks'[t].status = "pending"
  <1>1. \A n, a : NewRow(n, a).status = "pending"
    BY DEF NewRow, AbsentRow
  <1>2. \A t \in TaskIds : \A a : Reopened(tasks[t], a).status = "pending"
    BY DEF Reopened, Unleased, TypeOK, Rows
  <1>3. QED  BY <1>1, <1>2 DEF Accept, Reject

LEMMA RejectFails ==
  ASSUME TypeOK, NEW id \in TaskIds, NEW outcome, Reject(id, outcome)
  PROVE  tasks'[id].status = "failed"
  <1>1. /\ tasks'[id] = [Unleased(tasks[id], "failed") EXCEPT !.output = NoOutput]
        /\ tasks[id] \in Rows
    BY DEF Reject, TypeOK
  <1>2. QED  BY <1>1 DEF Unleased, Rows

DecidedAtRow(t) ==
  tasks'[t].status # tasks[t].status
    /\ tasks'[t].status \in {"succeeded", "failed"}
  => /\ tasks[t].status = "running"
     /\ tasks[t].expires > 0
     /\ tasks[t].worker = claimed[t][Len(claimed[t])]
     /\ (tasks'[t].status = "succeeded" /\ ~t.diagnosis /\ run.mode = "real")
        => run.status = "ENVIRONMENT_READY"

LEMMA LiveLeaseOfWorker ==
  ASSUME LeaseOfLastClaim, NEW id \in TaskIds, NEW w, NEW token,
         OwnedLease(id, w, token)
  PROVE  /\ tasks[id].status = "running" /\ tasks[id].expires > 0
         /\ tasks[id].worker = claimed[id][Len(claimed[id])]
  BY DEF OwnedLease, LeaseOfLastClaim

LEMMA SubmitDecides ==
  ASSUME TypeOK, LeaseOfLastClaim, NEW id \in TaskIds, Submit(id),
         NEW t \in TaskIds
  PROVE  DecidedAtRow(t)
  <1>1. PICK w \in Workers, token \in DOMAIN claimed[id] :
          \/ \E result \in Results(id) : Complete(id, w, token, result)
          \/ Fail(id, w, token)
    BY DEF Submit
  <1>2. OwnedLease(id, w, token)
    BY <1>1 DEF Complete, Fail
  <1>3. CASE t = id
    <2>1. \/ \E outcome \in FailureOutcomes : Reject(id, outcome)
          \/ \E result \in Results(id) : ValidResult(id, result, w)
      BY <1>1 DEF Complete, Fail
    <2>2. CASE \E outcome \in FailureOutcomes : Reject(id, outcome)
      BY <1>2, <1>3, <2>2, RejectFails, LiveLeaseOfWorker DEF DecidedAtRow
    <2>3. CASE \E result \in Results(id) : ValidResult(id, result, w)
      BY <1>2, <1>3, <2>3, LiveLeaseOfWorker DEF DecidedAtRow, ValidResult
    <2>4. QED  BY <2>1, <2>2, <2>3
  <1>4. CASE t # id
    BY <1>1, <1>4, SubmissionDecidesOne DEF Complete, Fail, DecidedAtRow
  <1>5. QED  BY <1>3, <1>4

LEMMA ApplyQueues ==
  ASSUME TypeOK, NEW d \in TaskIds, ApplyDiagnosis(d)
  PROVE  \A t \in TaskIds :
           \/ tasks'[t] = tasks[t]
           \/ /\ t = SourceOf(d) /\ tasks'[t].status = "pending"
              /\ tasks[d].output.next_action = "RETRY"
  <1>1. SourceOf(d) \in TaskIds
    BY IdentityTypes
  <1>2. [Unleased(tasks[SourceOf(d)], "pending") EXCEPT !.output = NoOutput].status
          = "pending"
    BY <1>1 DEF TypeOK, Unleased, Rows
  <1>3. QED  BY <1>1, <1>2 DEF ApplyDiagnosis, TypeOK

LEMMA DiscoverQueues ==
  ASSUME TypeOK, NEW key \in Keys, DiscoverOperator(key)
  PROVE  \A t \in TaskIds :
           tasks'[t] = tasks[t]
             \/ (tasks[t].status = "absent" /\ tasks'[t].status = "pending")
  BY DEF DiscoverOperator, TypeOK, NewRow, AbsentRow

LEMMA NextDecides ==
  ASSUME TypeOK, LeaseOfLastClaim, [Next]_vars, NEW t \in TaskIds
  PROVE  DecidedAtRow(t)
  <1>1. CASE RowsUnchanged
    BY <1>1 DEF RowsUnchanged, DecidedAtRow
  <1>2. CASE QueueStep
    BY <1>2 DEF QueueStep, Queued, DecidedAtRow
  <1>3. ASSUME NEW key \in Keys, DiscoverOperator(key)
        PROVE  DecidedAtRow(t)
    BY <1>3, DiscoverQueues DEF DecidedAtRow
  <1>4. ASSUME NEW id \in TaskIds, Submit(id)
        PROVE  DecidedAtRow(t)
    BY <1>4, SubmitDecides
  <1>5. ASSUME NEW d \in TaskIds, ApplyDiagnosis(d)
        PROVE  DecidedAtRow(t)
    BY <1>5, ApplyQueues DEF DecidedAtRow
  <1>6. QED
    BY <1>1, <1>2, <1>3, <1>4, <1>5, RowFreeActions, ClaimIsQueueStep,
       RenewIsQueueStep, RecoverIsQueueStep, TickIsQueueStep DEF Next

(* Only the worker of the last claim, while its lease is live, decides a   *)
(* row, and a real run's stage is accepted only in a ready environment.    *)
THEOREM OnlyLiveLeasesDecide == Spec => DecidedByLiveLease
  <1>1. TypeOK /\ LeaseOfLastClaim /\ [Next]_vars
          => [\A t \in TaskIds : DecidedAtRow(t)]_vars
    BY NextDecides
  <1>2. (\A t \in TaskIds : DecidedAtRow(t)) =>
          \A id \in TaskIds :
            tasks'[id].status # tasks[id].status
              /\ tasks'[id].status \in {"succeeded", "failed"}
            => /\ tasks[id].status = "running"
               /\ tasks[id].expires > 0
               /\ tasks[id].worker = claimed[id][Len(claimed[id])]
               /\ (tasks'[id].status = "succeeded" /\ ~id.diagnosis
                     /\ run.mode = "real")
                  => run.status = "ENVIRONMENT_READY"
    BY DEF DecidedAtRow
  <1>3. QED
    BY <1>1, <1>2, TypeCorrect, LeasesAreLastClaims, PTL
       DEF Spec, DecidedByLiveLease


RetriedAtRow(t) ==
  ~t.diagnosis /\ tasks[t].status = "failed" /\ tasks'[t].status # "failed"
  => LET d == DiagnosisOf(t)
     IN /\ tasks'[t].status = "pending"
        /\ tasks[d].status = "succeeded"
        /\ tasks[d].output.next_action = "RETRY"
        /\ tasks[d].source_attempt = tasks[t].attempt
        /\ applied'[d] = applied[d] \cup {Application(d)}
        /\ applied'[d] # applied[d]

LEMMA SubmitLeavesFailures ==
  ASSUME TypeOK, NEW id \in TaskIds, Submit(id), NEW t \in TaskIds,
         ~t.diagnosis, tasks[t].status = "failed"
  PROVE  tasks'[t] = tasks[t]
  <1>1. PICK w \in Workers, token \in DOMAIN claimed[id] :
          \/ \E result \in Results(id) : Complete(id, w, token, result)
          \/ Fail(id, w, token)
    BY DEF Submit
  <1>2. t # id
    BY <1>1 DEF Complete, Fail, OwnedLease
  <1>3. ASSUME NEW result, Accept(id, w, result)
        PROVE  tasks'[t] = tasks[t]
    BY <1>2, <1>3 DEF Accept, CreatesNext
  <1>4. ASSUME NEW outcome, Reject(id, outcome)
        PROVE  tasks'[t] = tasks[t]
    <2>1. t # DiagnosisOf(id)
      BY DEF DiagnosisOf, TaskIds
    <2>2. QED  BY <1>2, <1>4, <2>1 DEF Reject
  <1>5. QED  BY <1>1, <1>3, <1>4 DEF Complete, Fail

LEMMA ApplyRetries ==
  ASSUME TypeOK, DiagnosisTracksFailure, NEW d \in TaskIds, ApplyDiagnosis(d),
         NEW t \in TaskIds
  PROVE  RetriedAtRow(t)
  <1>1. SUFFICES ASSUME ~t.diagnosis, tasks[t].status = "failed",
                        tasks'[t].status # "failed"
                 PROVE  RetriedAtRow(t)
    BY DEF RetriedAtRow
  <1>2. /\ t = SourceOf(d) /\ tasks'[t].status = "pending"
        /\ tasks[d].output.next_action = "RETRY"
    BY <1>1, ApplyQueues
  <1>3. d = DiagnosisOf(t) /\ tasks[d].status = "succeeded"
    BY <1>2, DiagnosisIdentity DEF ApplyDiagnosis
  <1>4. Application(d) \notin applied[d]
    BY DEF ApplyDiagnosis
  <1>5. tasks[d].source_attempt = tasks[t].attempt
    BY <1>2, <1>3, <1>4 DEF DiagnosisTracksFailure, OpenDiagnosis, ApplyDiagnosis
  <1>6. applied'[d] = applied[d] \cup {Application(d)}
    BY DEF ApplyDiagnosis, TypeOK
  <1>7. applied'[d] # applied[d]
    BY <1>4, <1>6
  <1>8. QED  BY <1>2, <1>3, <1>5, <1>6, <1>7 DEF RetriedAtRow

LEMMA NextRetries ==
  ASSUME TypeOK, LeaseOfLastClaim, DiagnosisTracksFailure, [Next]_vars,
         NEW t \in TaskIds
  PROVE  RetriedAtRow(t)
  <1>1. CASE RowsUnchanged
    BY <1>1 DEF RowsUnchanged, RetriedAtRow
  <1>2. CASE QueueStep
    BY <1>2 DEF QueueStep, Queued, RetriedAtRow
  <1>3. ASSUME NEW key \in Keys, DiscoverOperator(key)
        PROVE  RetriedAtRow(t)
    BY <1>3, DiscoverQueues DEF RetriedAtRow
  <1>4. ASSUME NEW id \in TaskIds, Submit(id)
        PROVE  RetriedAtRow(t)
    BY <1>4, SubmitLeavesFailures DEF RetriedAtRow
  <1>5. ASSUME NEW d \in TaskIds, ApplyDiagnosis(d)
        PROVE  RetriedAtRow(t)
    BY <1>5, ApplyRetries
  <1>6. QED
    BY <1>1, <1>2, <1>3, <1>4, <1>5, RowFreeActions, ClaimIsQueueStep,
       RenewIsQueueStep, RecoverIsQueueStep, TickIsQueueStep DEF Next

(* A failed stage is requeued only by a RETRY about the attempt that       *)
(* failed, and that step spends the diagnosis: no stale or double retry.   *)
THEOREM RetriesConsumeDiagnoses == Spec => RetryConsumesDiagnosis
  <1>1. TypeOK /\ LeaseOfLastClaim /\ DiagnosisTracksFailure /\ [Next]_vars
          => [\A t \in TaskIds : RetriedAtRow(t)]_vars
    BY NextRetries
  <1>2. (\A t \in TaskIds : RetriedAtRow(t)) =>
          \A id \in TaskIds :
            ~id.diagnosis /\ tasks[id].status = "failed"
              /\ tasks'[id].status # "failed"
            => LET d == DiagnosisOf(id)
               IN /\ tasks'[id].status = "pending"
                  /\ tasks[d].status = "succeeded"
                  /\ tasks[d].output.next_action = "RETRY"
                  /\ tasks[d].source_attempt = tasks[id].attempt
                  /\ applied'[d] = applied[d] \cup {Application(d)}
                  /\ applied'[d] # applied[d]
    BY DEF RetriedAtRow
  <1>3. QED
    BY <1>1, <1>2, TypeCorrect, LeasesAreLastClaims, DiagnosesTrackFailures, PTL
       DEF Spec, RetryConsumesDiagnosis

-----------------------------------------------------------------------------
(* Attempt directories and the environment *)

Outcomes == {"open", "PASS", "FAILED"}

OwnsDirectory(row, files) ==
  /\ row.attempt <= row.workspace
  /\ row.workspace <= Len(files)
  /\ row.expires > 0 => row.workspace = Len(files)

FilesOK(row, files, workers, artifacts) ==
  /\ row.status = "absent" => row.workspace = 0
  /\ artifacts => OwnsDirectory(row, files)
  /\ row.status = "succeeded" =>
       /\ row.output.attempt = Len(workers)
       /\ row.output.worker = workers[Len(workers)]
       /\ artifacts => files[row.workspace] = "PASS"

(* Nothing is queued before there is a run. *)
Unborn == run.status = "absent" => \A id \in TaskIds : tasks[id].status = "absent"

FilesInv ==
  /\ Unborn
  /\ \A id \in TaskIds : FilesOK(tasks[id], disk[id], claimed[id], run.artifacts)

(* Whatever ends a lease leaves the row with the directory it had. *)
LEMMA ClearedFilesOK ==
  ASSUME NEW row \in Rows, NEW files, NEW workers, NEW artifacts,
         FilesOK(row, files, workers, artifacts),
         NEW s \in {"pending", "failed"}, NEW a \in Nat
  PROVE  /\ FilesOK(Unleased(row, s), files, workers, artifacts)
         /\ FilesOK([Unleased(row, s) EXCEPT !.output = NoOutput], files, workers, artifacts)
         /\ FilesOK(Reopened(row, a), files, workers, artifacts)
  BY DEF FilesOK, OwnsDirectory, Unleased, Reopened, Rows

LEMMA NewRowFilesOK ==
  ASSUME NEW n, NEW a, NEW files \in Seq(Outcomes), NEW workers, NEW artifacts
  PROVE  FilesOK(NewRow(n, a), files, workers, artifacts)
  BY DEF FilesOK, OwnsDirectory, NewRow, AbsentRow

(* A claim owns the directory it adds, and none of it is older. *)
LEMMA LeasedFilesOK ==
  ASSUME NEW row \in Rows, NEW files \in Seq(Outcomes), NEW workers, NEW artifacts \in BOOLEAN,
         FilesOK(row, files, workers, artifacts),
         NEW w, NEW term, NEW token, NEW more
  PROVE  FilesOK(Leased(row, w, term, token, IF artifacts THEN Len(files) + 1 ELSE 0),
                 IF artifacts THEN Append(files, "open") ELSE files, more, artifacts)
  <1> DEFINE r == Leased(row, w, term, token, IF artifacts THEN Len(files) + 1 ELSE 0)
  <1>1. /\ r.status = "running" /\ r.attempt = row.attempt + 1
        /\ artifacts => r.workspace = Len(files) + 1
    BY DEF Leased, Rows
  <1>2. row.attempt \in Nat /\ row.workspace \in Nat /\ Len(files) \in Nat
    BY DEF Rows
  <1>3. Len(Append(files, "open")) = Len(files) + 1
    BY DEF Outcomes
  <1> HIDE DEF r
  <1>4. artifacts => OwnsDirectory(r, Append(files, "open"))
    BY <1>1, <1>2, <1>3 DEF FilesOK, OwnsDirectory
  <1> QED
    BY <1>1, <1>4 DEF FilesOK, r

(* A row that has not succeeded does not look into its directories. *)
LEMMA MarkedFilesOK ==
  ASSUME NEW row, NEW files, NEW marked, NEW workers, NEW artifacts,
         FilesOK(row, files, workers, artifacts), row.status # "succeeded",
         Len(marked) = Len(files)
  PROVE  FilesOK(row, marked, workers, artifacts)
  BY DEF FilesOK, OwnsDirectory

(* What a dead claim adds belongs to nobody: its row had no live lease. *)
LEMMA LitteredFilesOK ==
  ASSUME NEW row \in Rows, NEW files \in Seq(Outcomes), NEW workers, NEW artifacts,
         FilesOK(row, files, workers, artifacts), row.status # "succeeded", row.expires <= 0
  PROVE  FilesOK(row, Append(files, "open"), workers, artifacts)
  BY DEF FilesOK, OwnsDirectory, Outcomes, Rows

(* A mark changes one outcome and adds no directory. *)
LEMMA RecordedFiles ==
  ASSUME TypeOK, NEW id \in TaskIds, NEW outcome \in {"PASS", "FAILED", "kept"}, NEW t \in TaskIds
  PROVE  /\ Len(Recorded(id, outcome)[t]) = Len(disk[t])
         /\ \A n \in DOMAIN disk[t] :
              /\ n \in DOMAIN Recorded(id, outcome)[t]
              /\ t # id \/ n # tasks[id].workspace => Recorded(id, outcome)[t][n] = disk[t][n]
         /\ t # id => Recorded(id, outcome)[t] = disk[t]
         /\ tasks[id].workspace \in 1..Len(disk[id]) /\ outcome # "kept" =>
              Recorded(id, outcome)[id][tasks[id].workspace] = outcome
  <1> DEFINE n == tasks[id].workspace
             marked == [disk[id] EXCEPT ![n] = outcome]
  <1>1. disk[id] \in Seq(Outcomes) /\ disk[t] \in Seq(Outcomes) /\ n \in Nat
    BY DEF TypeOK, Outcomes, Rows
  <1>2. /\ DOMAIN marked = DOMAIN disk[id] /\ DOMAIN disk[id] = 1..Len(disk[id])
        /\ \A i \in DOMAIN disk[id] : i # n => marked[i] = disk[id][i]
        /\ n \in DOMAIN disk[id] => marked[n] = outcome
    BY <1>1
  <1>3. Len(marked) = Len(disk[id])
    BY <1>1, <1>2, LenProperties
  <1>4. Recorded(id, outcome) = IF n = 0 \/ outcome = "kept" THEN disk
                                ELSE [disk EXCEPT ![id] = marked]
    BY DEF Recorded
  <1>5. DOMAIN disk = TaskIds
    BY DEF TypeOK
  <1> HIDE DEF n, marked
  <1>6. CASE n = 0 \/ outcome = "kept"
    BY <1>1, <1>4, <1>6 DEF n
  <1>7. CASE ~(n = 0 \/ outcome = "kept") /\ t # id
    BY <1>2, <1>3, <1>4, <1>5, <1>7 DEF n
  <1>8. CASE ~(n = 0 \/ outcome = "kept") /\ t = id
    BY <1>1, <1>2, <1>3, <1>4, <1>5, <1>8 DEF n
  <1> QED
    BY <1>6, <1>7, <1>8

-----------------------------------------------------------------------------
(* FilesInv, action by action *)

(* For an action that neither claims nor touches a directory, it is enough *)
(* to look at the rows it writes.                                          *)
LEMMA RowsKeepFiles ==
  ASSUME FilesInv, UNCHANGED <<run, claimed, disk>>,
         run.status = "absent" => tasks' = tasks,
         \A t \in TaskIds : FilesOK(tasks'[t], disk[t], claimed[t], run.artifacts)
  PROVE  FilesInv'
  BY DEF FilesInv, Unborn

LEMMA EnvironmentKeepsFiles ==
  ASSUME TypeOK, LeaseOfLastClaim, FilesInv, Environment
  PROVE  FilesInv'
  <1>1. ASSUME NEW mode \in Modes, NEW required \in BOOLEAN,
               NEW artifacts \in BOOLEAN, CreateRun(mode, required, artifacts)
        PROVE  FilesInv'
    <2>1. run'.artifacts = artifacts /\ UNCHANGED <<tasks, claimed, disk>>
      BY <1>1 DEF CreateRun, NoRun
    <2>2. ASSUME NEW t \in TaskIds
          PROVE  FilesOK(tasks[t], disk[t], claimed[t], artifacts)
      <3>1. tasks[t].status = "absent"
        BY <1>1 DEF CreateRun, FilesInv, Unborn
      <3>2. tasks[t].workspace = 0 /\ tasks[t].attempt = 0 /\ tasks[t].expires = 0
        BY <3>1 DEF FilesInv, FilesOK, LeaseOfLastClaim
      <3>3. Len(disk[t]) \in Nat
        BY DEF TypeOK
      <3> QED
        BY <3>1, <3>2, <3>3 DEF FilesOK, OwnsDirectory
    <2>3. \A t \in TaskIds : tasks[t].status = "absent"
      BY <1>1 DEF CreateRun, FilesInv, Unborn
    <2> QED
      BY <2>1, <2>2, <2>3 DEF FilesInv, Unborn
  <1>2. CASE ~\E mode \in Modes, required, artifacts \in BOOLEAN :
                CreateRun(mode, required, artifacts)
    <2>1. /\ run.status # "absent" /\ run'.status # "absent"
          /\ run'.artifacts = run.artifacts
          /\ UNCHANGED <<tasks, claimed, disk>>
      BY <1>2 DEF Environment, BindEnvironment, RecordEnvironmentFailure, RequireGraphEnvironment,
           TypeOK, Runs
    <2> QED
      BY <2>1 DEF FilesInv, Unborn
  <1> QED
    BY <1>1, <1>2

LEMMA DiscoverKeepsFiles ==
  ASSUME TypeOK, FilesInv, NEW key \in Keys, DiscoverOperator(key)
  PROVE  FilesInv'
  <1> DEFINE id == [key |-> key, stage |-> "torch", diagnosis |-> FALSE]
             row == NewRow(inserted + 1, 0)
  <1>1. run.status # "absent" /\ tasks' = [tasks EXCEPT ![id] = row]
    BY DEF DiscoverOperator
  <1> HIDE DEF id
  <1>2. ASSUME NEW t \in TaskIds
        PROVE  FilesOK(tasks'[t], disk[t], claimed[t], run.artifacts)
    <2>1. FilesOK(row, disk[t], claimed[t], run.artifacts)
      BY NewRowFilesOK DEF TypeOK, Outcomes
    <2> HIDE DEF row
    <2> QED
      BY <1>1, <2>1 DEF FilesInv, TypeOK
  <1> QED
    BY <1>1, <1>2, RowsKeepFiles DEF DiscoverOperator

LEMMA ClaimKeepsFiles ==
  ASSUME TypeOK, FilesInv, Claim
  PROVE  FilesInv'
  <1>1. PICK w \in Workers, stage \in ClaimStages, limit \in ClaimLimits,
             term \in LeaseTerms : ClaimReady(w, stage, limit, term)
    BY DEF Claim
  <1> DEFINE picked == Oldest(Requeued, Claimable(Requeued, stage), limit)
  <1>2. \A id \in picked : id \in TaskIds /\ Requeued[id].status = "pending"
    BY DEF Oldest, Claimable
  <1> HIDE DEF picked
  <1>3. ASSUME NEW id \in TaskIds
        PROVE  FilesOK(tasks'[id], disk'[id], claimed'[id], run.artifacts)
    <2>1. Requeued[id] \in Rows /\ disk[id] \in Seq(Outcomes) /\ run.artifacts \in BOOLEAN
      BY RequeuedType DEF TypeOK, Outcomes, Runs
    <2>2. FilesOK(Requeued[id], disk[id], claimed[id], run.artifacts)
      BY ClearedFilesOK DEF Requeued, FilesInv, TypeOK
    <2>3. CASE id \in picked
      <3>1. /\ tasks'[id] = Leased(Requeued[id], w, term, Len(claimed[id]) + 1, FreshWorkspace(id))
            /\ disk'[id] = IF run.artifacts THEN Append(disk[id], "open") ELSE disk[id]
        BY <1>1, <2>3 DEF ClaimReady, picked
      <3>2. FreshWorkspace(id) = IF run.artifacts THEN Len(disk[id]) + 1 ELSE 0
        BY DEF FreshWorkspace
      <3> QED
        BY <2>1, <2>2, <3>1, <3>2, LeasedFilesOK
    <2>4. CASE id \notin picked
      BY <1>1, <2>2, <2>4 DEF ClaimReady, picked
    <2> QED
      BY <2>3, <2>4
  <1>4. run.status = "absent" => \A id \in TaskIds : tasks'[id].status = "absent"
    <2> SUFFICES ASSUME run.status = "absent", NEW id \in TaskIds
                 PROVE  tasks'[id].status = "absent"
      OBVIOUS
    <2>1. Requeued[id] = tasks[id] /\ tasks[id].status = "absent"
      BY DEF Requeued, Lapsed, FilesInv, Unborn
    <2>2. id \notin picked
      BY <1>2, <2>1
    <2> QED
      BY <1>1, <2>1, <2>2 DEF ClaimReady, picked
  <1> QED
    BY <1>1, <1>3, <1>4 DEF ClaimReady, FilesInv, Unborn

LEMMA RenewKeepsFiles ==
  ASSUME TypeOK, FilesInv, NEW id \in TaskIds, NEW w \in Workers,
         NEW token \in DOMAIN claimed[id], NEW term \in LeaseTerms,
         RenewLease(id, w, token, term)
  PROVE  FilesInv'
  <1>1. /\ tasks[id].status = "running" /\ tasks[id].expires > 0
        /\ tasks'[id] = [tasks[id] EXCEPT !.expires = term]
        /\ \A t \in TaskIds : t # id => tasks'[t] = tasks[t]
    BY DEF RenewLease, OwnedLease, TypeOK
  <1>2. FilesOK(tasks'[id], disk[id], claimed[id], run.artifacts)
    <2>1. tasks[id] \in Rows /\ FilesOK(tasks[id], disk[id], claimed[id], run.artifacts)
      BY DEF TypeOK, FilesInv
    <2> QED
      BY <1>1, <2>1 DEF FilesOK, OwnsDirectory, Rows
  <1>3. \A t \in TaskIds : FilesOK(tasks'[t], disk[t], claimed[t], run.artifacts)
    BY <1>1, <1>2 DEF FilesInv
  <1>4. run.status # "absent"
    BY <1>1 DEF FilesInv, Unborn
  <1> QED
    BY <1>3, <1>4, RowsKeepFiles DEF RenewLease

LEMMA ApplyKeepsFiles ==
  ASSUME TypeOK, FilesInv, NEW d \in TaskIds, ApplyDiagnosis(d)
  PROVE  FilesInv'
  <1>1. ASSUME NEW t \in TaskIds
        PROVE  FilesOK(tasks'[t], disk[t], claimed[t], run.artifacts)
    <2>1. tasks[t] \in Rows /\ FilesOK(tasks[t], disk[t], claimed[t], run.artifacts)
      BY DEF TypeOK, FilesInv
    <2>2. FilesOK([Unleased(tasks[t], "pending") EXCEPT !.output = NoOutput],
                  disk[t], claimed[t], run.artifacts)
      BY <2>1, ClearedFilesOK
    <2> QED
      BY <2>1, <2>2 DEF ApplyDiagnosis, TypeOK
  <1>2. run.status # "absent"
    BY DEF ApplyDiagnosis, FilesInv, Unborn
  <1> QED
    BY <1>1, <1>2, RowsKeepFiles DEF ApplyDiagnosis

LEMMA RecoverKeepsFiles ==
  ASSUME TypeOK, FilesInv, NEW force \in BOOLEAN, Recover(force)
  PROVE  FilesInv'
  <1>1. ASSUME NEW t \in TaskIds
        PROVE  FilesOK(tasks'[t], disk[t], claimed[t], run.artifacts)
    <2>1. tasks[t] \in Rows /\ FilesOK(tasks[t], disk[t], claimed[t], run.artifacts)
      BY DEF TypeOK, FilesInv
    <2>2. FilesOK(Unleased(tasks[t], "pending"), disk[t], claimed[t], run.artifacts)
      BY <2>1, ClearedFilesOK
    <2> QED
      BY <2>1, <2>2 DEF Recover
  <1>2. run.status = "absent" => tasks' = tasks
    BY DEF Recover, Lapsed, FilesInv, Unborn, TypeOK
  <1> QED
    BY <1>1, <1>2, RowsKeepFiles DEF Recover

LEMMA TickKeepsFiles ==
  ASSUME TypeOK, LeaseOfLastClaim, FilesInv, Tick
  PROVE  FilesInv'
  <1>1. ASSUME NEW t \in TaskIds
        PROVE  FilesOK(tasks'[t], disk[t], claimed[t], run.artifacts)
    <2>1. tasks[t] \in Rows /\ FilesOK(tasks[t], disk[t], claimed[t], run.artifacts)
      BY DEF TypeOK, FilesInv
    <2>2. tasks[t].expires > 0 =>
            FilesOK([tasks[t] EXCEPT !.expires = @ - 1], disk[t], claimed[t], run.artifacts)
      BY <2>1 DEF FilesOK, OwnsDirectory, Rows
    <2> QED
      BY <2>1, <2>2 DEF Tick
  <1>2. run.status = "absent" => tasks' = tasks
    <2> SUFFICES ASSUME run.status = "absent" PROVE tasks' = tasks
      OBVIOUS
    <2>1. \A t \in TaskIds : tasks[t].expires = 0
      BY DEF LeaseOfLastClaim, FilesInv, Unborn
    <2>2. tasks' = [t \in TaskIds |-> tasks[t]]
      BY <2>1 DEF Tick
    <2> QED
      BY <2>2 DEF TypeOK
  <1> QED
    BY <1>1, <1>2, RowsKeepFiles DEF Tick

(* A decision marks the directory its lease owns, and only that. *)
LEMMA LeasedDirectory ==
  ASSUME TypeOK, LeaseOfLastClaim, FilesInv, NEW id \in TaskIds, NEW w \in Workers,
         NEW token \in DOMAIN claimed[id], OwnedLease(id, w, token)
  PROVE  /\ run.status # "absent" /\ tasks[id].status = "running"
         /\ tasks[id].attempt = Len(claimed[id]) /\ w = claimed[id][Len(claimed[id])]
         /\ run.artifacts => tasks[id].workspace \in 1..Len(disk[id])
  <1>1. /\ tasks[id].status = "running" /\ tasks[id].token = token /\ claimed[id][token] = w
        /\ run.status # "absent"
    BY DEF OwnedLease, FilesInv, Unborn
  <1>2. LeaseOK(tasks[id], claimed[id]) /\ FilesOK(tasks[id], disk[id], claimed[id], run.artifacts)
    BY LeaseByRow DEF FilesInv
  <1>3. /\ tasks[id].attempt = Len(claimed[id]) /\ tasks[id].attempt > 0
        /\ token = tasks[id].attempt
    BY <1>1, <1>2 DEF LeaseOK
  <1>4. /\ tasks[id].attempt \in Nat /\ tasks[id].workspace \in Nat /\ Len(disk[id]) \in Nat
    BY DEF TypeOK, Rows
  <1> QED
    BY <1>1, <1>2, <1>3, <1>4 DEF FilesOK, OwnsDirectory

LEMMA AcceptKeepsFiles ==
  ASSUME TypeOK, LeaseOfLastClaim, FilesInv, NEW id \in TaskIds, NEW w \in Workers,
         NEW token \in DOMAIN claimed[id], OwnedLease(id, w, token),
         NEW result, Accept(id, w, result), UNCHANGED <<run, claimed>>
  PROVE  FilesInv'
  <1>1. ASSUME NEW t \in TaskIds
        PROVE  FilesOK(tasks'[t], disk'[t], claimed[t], run.artifacts)
    <2>1. /\ tasks[t] \in Rows /\ FilesOK(tasks[t], disk[t], claimed[t], run.artifacts)
          /\ disk[t] \in Seq(Outcomes)
      BY DEF TypeOK, FilesInv, Outcomes
    <2>2. CASE t = id
      <3>1. tasks'[id] = Accepted(tasks[id], w, result) /\ disk'[id] = Recorded(id, "PASS")[id]
        BY DEF Accept
      <3>2. /\ Len(disk'[id]) = Len(disk[id])
            /\ run.artifacts => disk'[id][tasks[id].workspace] = "PASS"
        BY <3>1, LeasedDirectory, RecordedFiles
      <3> DEFINE r == Accepted(tasks[id], w, result)
      <3>3. /\ r.status = "succeeded" /\ r.attempt = tasks[id].attempt /\ r.expires = 0
            /\ r.workspace = tasks[id].workspace
            /\ r.output.attempt = tasks[id].attempt /\ r.output.worker = w
        BY <2>1, <2>2 DEF Accepted, Unleased, Rows
      <3> HIDE DEF r
      <3>4. FilesOK(r, disk'[id], claimed[id], run.artifacts)
        BY <2>1, <2>2, <3>2, <3>3, LeasedDirectory DEF FilesOK, OwnsDirectory
      <3> QED
        BY <2>2, <3>1, <3>4 DEF r
    <2>3. CASE t # id
      <3>1. disk'[t] = disk[t]
        BY <2>3, RecordedFiles DEF Accept
      <3>2. FilesOK(NewRow(inserted + 1, 0), disk[t], claimed[t], run.artifacts)
        BY <2>1, NewRowFilesOK
      <3>3. tasks'[t] \in {NewRow(inserted + 1, 0), tasks[t]}
        BY <2>3 DEF Accept
      <3> QED
        BY <2>1, <3>1, <3>2, <3>3
    <2> QED
      BY <2>2, <2>3
  <1>2. run.status # "absent"
    BY LeasedDirectory
  <1> QED
    BY <1>1, <1>2 DEF FilesInv, Unborn

LEMMA RejectKeepsFiles ==
  ASSUME TypeOK, LeaseOfLastClaim, FilesInv, NEW id \in TaskIds, NEW w \in Workers,
         NEW token \in DOMAIN claimed[id], OwnedLease(id, w, token),
         NEW outcome \in FailureOutcomes, Reject(id, outcome), UNCHANGED <<run, claimed>>
  PROVE  FilesInv'
  <1>1. ASSUME NEW t \in TaskIds
        PROVE  FilesOK(tasks'[t], disk'[t], claimed[t], run.artifacts)
    <2>1. /\ tasks[t] \in Rows /\ FilesOK(tasks[t], disk[t], claimed[t], run.artifacts)
          /\ disk[t] \in Seq(Outcomes) /\ tasks[id].attempt \in Nat
      BY DEF TypeOK, FilesInv, Outcomes, Rows
    <2>2. CASE t = id
      <3> DEFINE r == [Unleased(tasks[id], "failed") EXCEPT !.output = NoOutput]
      <3>1. tasks'[id] = r /\ disk'[id] = Recorded(id, outcome)[id]
        BY DEF Reject
      <3>2. Len(disk'[id]) = Len(disk[id])
        BY <3>1, RecordedFiles, OutcomeType
      <3>3. FilesOK(r, disk[id], claimed[id], run.artifacts)
        BY <2>1, <2>2, ClearedFilesOK
      <3>4. r.status = "failed"
        BY <2>1, <2>2 DEF Unleased, Rows
      <3> HIDE DEF r
      <3> QED
        BY <2>2, <3>1, <3>2, <3>3, <3>4, MarkedFilesOK
    <2>3. CASE t # id
      <3>1. disk'[t] = disk[t]
        BY <2>3, RecordedFiles, OutcomeType DEF Reject
      <3>2. /\ FilesOK(NewRow(inserted + 1, tasks[id].attempt), disk[t], claimed[t], run.artifacts)
            /\ FilesOK(Reopened(tasks[t], tasks[id].attempt), disk[t], claimed[t], run.artifacts)
        BY <2>1, NewRowFilesOK, ClearedFilesOK
      <3>3. tasks'[t] \in {NewRow(inserted + 1, tasks[id].attempt),
                           Reopened(tasks[t], tasks[id].attempt), tasks[t]}
        BY <2>3 DEF Reject
      <3> QED
        BY <2>1, <3>1, <3>2, <3>3
    <2> QED
      BY <2>2, <2>3
  <1>2. run.status # "absent"
    BY LeasedDirectory
  <1> QED
    BY <1>1, <1>2 DEF FilesInv, Unborn

LEMMA SubmitKeepsFiles ==
  ASSUME TypeOK, LeaseOfLastClaim, FilesInv, NEW id \in TaskIds, Submit(id)
  PROVE  FilesInv'
  <1>1. PICK w \in Workers, token \in DOMAIN claimed[id] :
          \/ \E result \in Results(id) : Complete(id, w, token, result)
          \/ Fail(id, w, token)
    BY DEF Submit
  <1>2. OwnedLease(id, w, token) /\ UNCHANGED <<run, claimed>>
    BY <1>1 DEF Complete, Fail
  <1>3. \/ \E result : Accept(id, w, result)
        \/ \E outcome \in FailureOutcomes : Reject(id, outcome)
    BY <1>1 DEF Complete, Fail
  <1> QED
    BY <1>2, <1>3, AcceptKeepsFiles, RejectKeepsFiles

LEMMA AbortKeepsFiles ==
  ASSUME TypeOK, LeaseOfLastClaim, FilesInv, Abort
  PROVE  FilesInv'
  <1>1. ASSUME NEW stage \in ClaimStages, ClaimAborted(stage)
        PROVE  FilesInv'
    <2>1. PICK id \in Oldest(Requeued, Claimable(Requeued, stage), 1) :
            disk' = [disk EXCEPT ![id] = Append(@, "open")]
      BY <1>1 DEF ClaimAborted
    <2>2. id \in TaskIds /\ Requeued[id].status = "pending"
      BY DEF Oldest, Claimable
    <2>3. tasks[id].status # "succeeded" /\ tasks[id].expires <= 0
      BY <2>2 DEF Requeued, Lapsed, LeaseOfLastClaim
    <2>4. ASSUME NEW t \in TaskIds
          PROVE  FilesOK(tasks[t], disk'[t], claimed[t], run.artifacts)
      <3>1. /\ tasks[t] \in Rows /\ FilesOK(tasks[t], disk[t], claimed[t], run.artifacts)
            /\ disk[t] \in Seq(Outcomes)
        BY DEF TypeOK, FilesInv, Outcomes
      <3>2. CASE t = id
        <4>1. disk'[t] = Append(disk[t], "open")
          BY <2>1, <2>2, <3>2 DEF TypeOK
        <4> QED
          BY <2>3, <3>1, <3>2, <4>1, LitteredFilesOK
      <3>3. CASE t # id
        BY <2>1, <3>1, <3>3 DEF TypeOK
      <3> QED
        BY <3>2, <3>3
    <2> QED
      BY <1>1, <2>4 DEF ClaimAborted, FilesInv, Unborn
  <1>2. ASSUME NEW id \in TaskIds, NEW w \in Workers,
               NEW token \in DOMAIN claimed[id], NEW outcome \in {"PASS", "FAILED"},
               SubmissionAborted(id, w, token, outcome)
        PROVE  FilesInv'
    <2>1. tasks[id].status = "running" /\ disk' = Recorded(id, outcome)
      BY <1>2 DEF SubmissionAborted, OwnedLease
    <2>2. ASSUME NEW t \in TaskIds
          PROVE  FilesOK(tasks[t], disk'[t], claimed[t], run.artifacts)
      <3>1. FilesOK(tasks[t], disk[t], claimed[t], run.artifacts)
        BY DEF FilesInv
      <3>2. Len(disk'[t]) = Len(disk[t]) /\ (t # id => disk'[t] = disk[t])
        BY <2>1, RecordedFiles
      <3> QED
        BY <2>1, <3>1, <3>2, MarkedFilesOK
    <2> QED
      BY <1>2, <2>2 DEF SubmissionAborted, FilesInv, Unborn
  <1> QED
    BY <1>1, <1>2 DEF Abort

LEMMA NextKeepsFiles ==
  ASSUME TypeOK, LeaseOfLastClaim, FilesInv, [Next]_vars
  PROVE  FilesInv'
  <1>1. CASE UNCHANGED vars
    BY <1>1 DEF vars, FilesInv, Unborn
  <1>2. CASE Next
    BY <1>2, EnvironmentKeepsFiles, DiscoverKeepsFiles, ClaimKeepsFiles, RenewKeepsFiles,
       SubmitKeepsFiles, ApplyKeepsFiles, RecoverKeepsFiles, AbortKeepsFiles, TickKeepsFiles
    DEF Next
  <1> QED
    BY <1>1, <1>2

LEMMA FilesAreOK == Spec => [](TypeOK /\ LeaseOfLastClaim /\ FilesInv)
  <1>1. Init => FilesInv
    BY DEF Init, FilesInv, Unborn, FilesOK, OwnsDirectory, AbsentRow, NoRun
  <1>2. TypeOK /\ LeaseOfLastClaim /\ FilesInv /\ [Next]_vars => FilesInv'
    BY NextKeepsFiles
  <1> QED
    BY <1>1, <1>2, TypeCorrect, LeasesAreLastClaims, PTL DEF Spec

(* No two claims of a row share an attempt directory, however many claims  *)
(* rolled back after they made one (claim_ready, allocate_attempt).        *)
THEOREM ClaimsOwnTheirDirectories == Spec => []WorkspacePerClaim
  <1>1. FilesInv => WorkspacePerClaim
    BY DEF FilesInv, FilesOK, OwnsDirectory, WorkspacePerClaim
  <1> QED
    BY <1>1, FilesAreOK, PTL

(* An accepted result is that of the last claim, and its directory holds   *)
(* the manifest of a PASS (complete, _record_attempt).                     *)
THEOREM AcceptedIsTheLastClaim == Spec => []AcceptedFromLastClaim
  <1>1. FilesInv => AcceptedFromLastClaim
    BY DEF FilesInv, FilesOK, AcceptedFromLastClaim
  <1> QED
    BY <1>1, FilesAreOK, PTL

(* Late, dying and repeated submissions leave the manifests of other       *)
(* attempts as they were (_record_attempt).                                *)
THEOREM OtherAttemptsAreFrozen == Spec => PastAttemptsFrozen
  <1> DEFINE Frozen ==
        \A id \in TaskIds : \A n \in DOMAIN disk[id] :
          /\ n \in DOMAIN disk'[id]
          /\ n # tasks[id].workspace => disk'[id][n] = disk[id][n]
  <1>1. ASSUME TypeOK, [Next]_vars PROVE Frozen
    <2>1. CASE disk' = disk
      BY <2>1
    <2>2. CASE Claim
      <3>1. PICK w \in Workers, stage \in ClaimStages, limit \in ClaimLimits,
                 term \in LeaseTerms : ClaimReady(w, stage, limit, term)
        BY <2>2 DEF Claim
      <3>2. \A id \in TaskIds : disk'[id] = disk[id] \/ disk'[id] = Append(disk[id], "open")
        BY <3>1 DEF ClaimReady
      <3>3. \A id \in TaskIds : disk[id] \in Seq(Outcomes)
        BY <1>1 DEF TypeOK, Outcomes
      <3> QED
        BY <3>2, <3>3 DEF Outcomes
    <2>3. ASSUME NEW stage \in ClaimStages, ClaimAborted(stage) PROVE Frozen
      <3>1. PICK id : disk' = [disk EXCEPT ![id] = Append(@, "open")]
        BY <2>3 DEF ClaimAborted
      <3>2. \A t \in TaskIds : disk'[t] = disk[t] \/ disk'[t] = Append(disk[t], "open")
        BY <1>1, <3>1 DEF TypeOK
      <3>3. \A t \in TaskIds : disk[t] \in Seq(Outcomes)
        BY <1>1 DEF TypeOK, Outcomes
      <3> QED
        BY <3>2, <3>3 DEF Outcomes
    <2>4. ASSUME NEW id \in TaskIds, NEW outcome \in {"PASS", "FAILED", "kept"},
                 disk' = Recorded(id, outcome)
          PROVE  Frozen
      BY <1>1, <2>4, RecordedFiles
    <2> QED
      BY <1>1, <2>1, <2>2, <2>3, <2>4, OutcomeType
      DEF Next, Environment, CreateRun, BindEnvironment, RecordEnvironmentFailure,
          RequireGraphEnvironment, DiscoverOperator, RenewLease, Submit, Complete, Fail, Accept,
          Reject, ApplyDiagnosis, Recover, Abort, SubmissionAborted, Tick, vars
  <1> QED
    BY <1>1, TypeCorrect, PTL DEF Spec, PastAttemptsFrozen

-----------------------------------------------------------------------------
(* One environment *)

(* Real rows are discovered in a bound environment, and a bound one is not *)
(* replaced as long as there are rows.                                     *)
BoundWithRows ==
  /\ Unborn
  /\ run.mode = "real" =>
       \A id \in TaskIds : tasks[id].status # "absent" =>
         id.key.fingerprint = run.fingerprint /\ run.fingerprint # NoFingerprint

(* New rows are of an operator that has one already. *)
LEMMA RowsKeepBound ==
  ASSUME BoundWithRows, run' = run,
         \A t \in TaskIds : tasks'[t].status # "absent" =>
           \E id \in TaskIds : tasks[id].status # "absent" /\ id.key = t.key
  PROVE  BoundWithRows'
  BY DEF BoundWithRows, Unborn

LEMMA QueueKeepsBound ==
  ASSUME BoundWithRows, QueueStep, run' = run
  PROVE  BoundWithRows'
  <1>1. \A t \in TaskIds : tasks'[t].status # "absent" => tasks[t].status # "absent"
    BY DEF QueueStep, Queued
  <1> QED
    BY <1>1, RowsKeepBound

LEMMA EnvironmentKeepsBound ==
  ASSUME run \in Runs, BoundWithRows, Environment
  PROVE  BoundWithRows'
  <1>1. ASSUME NEW mode \in Modes, NEW required \in BOOLEAN,
               NEW artifacts \in BOOLEAN, CreateRun(mode, required, artifacts)
        PROVE  BoundWithRows'
    BY <1>1 DEF CreateRun, BoundWithRows, Unborn
  <1>2. ASSUME NEW mode \in Modes, NEW ready \in BOOLEAN,
               NEW fingerprint \in Fingerprints, BindEnvironment(mode, ready, fingerprint)
        PROVE  BoundWithRows'
    <2>1. /\ tasks' = tasks /\ run'.mode = run.mode /\ run'.fingerprint = fingerprint
          /\ run'.status # "absent"
      BY <1>2 DEF BindEnvironment, Runs
    <2>2. fingerprint # NoFingerprint
      BY NullAssumption
    <2>3. run.mode = "real" =>
            fingerprint = run.fingerprint \/ \A id \in TaskIds : tasks[id].status = "absent"
      BY <1>2 DEF BindEnvironment, MayBind, BoundWithRows
    <2> QED
      BY <2>1, <2>2, <2>3 DEF BoundWithRows, Unborn
  <1>3. CASE RecordEnvironmentFailure \/ RequireGraphEnvironment
    <2>1. /\ tasks' = tasks /\ run'.mode = run.mode /\ run'.fingerprint = run.fingerprint
          /\ run'.status # "absent"
      BY <1>3 DEF RecordEnvironmentFailure, RequireGraphEnvironment, Runs
    <2> QED
      BY <2>1 DEF BoundWithRows, Unborn
  <1> QED
    BY <1>1, <1>2, <1>3 DEF Environment

LEMMA DiscoverKeepsBound ==
  ASSUME TypeOK, BoundWithRows, NEW key \in Keys, DiscoverOperator(key)
  PROVE  BoundWithRows'
  <1> DEFINE id == [key |-> key, stage |-> "torch", diagnosis |-> FALSE]
  <1>1. /\ \A t \in TaskIds : t # id => tasks'[t] = tasks[t]
        /\ run' = run /\ run.status # "absent" /\ id.key = key
        /\ run.mode = "real" => key.fingerprint = run.fingerprint /\ run.fingerprint # NoFingerprint
    BY DEF DiscoverOperator, EnvironmentRequired, EnvironmentReadyFor, TypeOK
  <1> HIDE DEF id
  <1> QED
    BY <1>1 DEF BoundWithRows, Unborn

LEMMA SubmitKeepsBound ==
  ASSUME TypeOK, BoundWithRows, NEW id \in TaskIds, Submit(id)
  PROVE  BoundWithRows'
  <1>1. /\ run' = run /\ tasks[id].status = "running"
        /\ \/ \E w, result : Accept(id, w, result)
           \/ \E outcome : Reject(id, outcome)
    BY DEF Submit, Complete, Fail, OwnedLease
  <1>2. DiagnosisOf(id).key = id.key /\ Successor(id).key = id.key
    BY DEF DiagnosisOf, Successor, TaskIds
  <1>3. \A t \in TaskIds \ {id, DiagnosisOf(id), Successor(id)} : tasks'[t] = tasks[t]
    BY <1>1 DEF Accept, Reject
  <1> QED
    BY <1>1, <1>2, <1>3, RowsKeepBound

LEMMA ApplyKeepsBound ==
  ASSUME TypeOK, BoundWithRows, NEW d \in TaskIds, ApplyDiagnosis(d)
  PROVE  BoundWithRows'
  <1>1. \A t \in TaskIds : tasks'[t] = tasks[t] \/ tasks[t].status = "failed"
    BY DEF ApplyDiagnosis, TypeOK
  <1> QED
    BY <1>1, RowsKeepBound DEF ApplyDiagnosis

LEMMA NextKeepsBound ==
  ASSUME TypeOK, LeaseOfLastClaim, BoundWithRows, [Next]_vars
  PROVE  BoundWithRows'
  <1>1. CASE Abort \/ UNCHANGED vars
    BY <1>1 DEF Abort, ClaimAborted, SubmissionAborted, vars, BoundWithRows, Unborn
  <1>2. CASE Claim
    BY <1>2, ClaimIsQueueStep, QueueKeepsBound DEF Claim, ClaimReady
  <1>3. CASE Tick
    BY <1>3, TickIsQueueStep, QueueKeepsBound DEF Tick
  <1>4. ASSUME NEW force \in BOOLEAN, Recover(force) PROVE BoundWithRows'
    BY <1>4, RecoverIsQueueStep, QueueKeepsBound DEF Recover
  <1>5. ASSUME NEW id \in TaskIds, NEW w \in Workers, NEW token \in DOMAIN claimed[id],
               NEW term \in LeaseTerms, RenewLease(id, w, token, term)
        PROVE  BoundWithRows'
    BY <1>5, RenewIsQueueStep, QueueKeepsBound DEF RenewLease
  <1> QED
    BY <1>1, <1>2, <1>3, <1>4, <1>5, EnvironmentKeepsBound, DiscoverKeepsBound,
       SubmitKeepsBound, ApplyKeepsBound
    DEF Next, TypeOK

(* Every task of a real run was discovered in the environment now bound,   *)
(* whatever failed and was bound again (bind_environment).                 *)
THEOREM RealRunsHaveOneEnvironment == Spec => []OneEnvironment
  <1>1. Init => BoundWithRows
    BY DEF Init, BoundWithRows, Unborn, AbsentRow
  <1>2. TypeOK /\ LeaseOfLastClaim /\ BoundWithRows /\ [Next]_vars => BoundWithRows'
    BY NextKeepsBound
  <1>3. BoundWithRows => OneEnvironment
    BY DEF BoundWithRows, OneEnvironment
  <1> QED
    BY <1>1, <1>2, <1>3, TypeCorrect, LeasesAreLastClaims, PTL DEF Spec

-----------------------------------------------------------------------------
(* A decided attempt is newer than what its diagnosis knows *)

(* A diagnosis is about an attempt of its source that is over.  So the     *)
(* next failure reopens it (_ensure_diagnosis).                            *)
OlderSource(id) ==
  LET d == DiagnosisOf(id) IN
  tasks[d].status # "absent" =>
    /\ tasks[d].source_attempt <= tasks[id].attempt
    /\ tasks[id].status = "running" => tasks[d].source_attempt < tasks[id].attempt

DiagnosesAreOlder == \A id \in TaskIds : ~id.diagnosis => OlderSource(id)

LEMMA RequeuedAttempt ==
  ASSUME TypeOK, NEW id \in TaskIds
  PROVE  /\ Requeued[id].attempt = tasks[id].attempt
         /\ Requeued[id].source_attempt = tasks[id].source_attempt
         /\ Requeued[id].status = "absent" <=> tasks[id].status = "absent"
         /\ Requeued[id].status = "running" => tasks[id].status = "running"
  BY DEF TypeOK, Rows, Requeued, Lapsed, Unleased

LEMMA ClaimKeepsOlder ==
  ASSUME TypeOK, DiagnosesAreOlder, Claim
  PROVE  DiagnosesAreOlder'
  <1>1. PICK w \in Workers, stage \in ClaimStages, limit \in ClaimLimits,
             term \in LeaseTerms : ClaimReady(w, stage, limit, term)
    BY DEF Claim
  <1> DEFINE picked == Oldest(Requeued, Claimable(Requeued, stage), limit)
  <1>2. \A id \in picked : Requeued[id].status = "pending"
    BY DEF Oldest, Claimable
  <1> HIDE DEF picked
  <1>3. ASSUME NEW id \in TaskIds
        PROVE  /\ tasks'[id].source_attempt = tasks[id].source_attempt
               /\ tasks'[id].status = "absent" <=> tasks[id].status = "absent"
               /\ \/ /\ tasks'[id].attempt = tasks[id].attempt
                     /\ tasks'[id].status = "running" => tasks[id].status = "running"
                  \/ tasks'[id].attempt = tasks[id].attempt + 1
    <2>1. Requeued[id] \in Rows
      BY RequeuedType
    <2>2. CASE id \in picked
      <3> DEFINE r == Leased(Requeued[id], w, term, Len(claimed[id]) + 1, FreshWorkspace(id))
      <3>1. /\ r.status = "running" /\ r.source_attempt = Requeued[id].source_attempt
            /\ r.attempt = Requeued[id].attempt + 1
        BY <2>1 DEF Leased, Rows
      <3>2. tasks'[id] = r
        BY <1>1, <2>2 DEF ClaimReady, picked
      <3> HIDE DEF r
      <3> QED
        BY <1>2, <2>2, <3>1, <3>2, RequeuedAttempt
    <2>3. CASE id \notin picked
      <3>1. tasks'[id] = Requeued[id]
        BY <1>1, <2>3 DEF ClaimReady, picked
      <3> QED
        BY <3>1, RequeuedAttempt
    <2> QED
      BY <2>2, <2>3
  <1>4. ASSUME NEW id \in TaskIds, ~id.diagnosis PROVE OlderSource(id)'
    <2>1. OlderSource(id) /\ DiagnosisOf(id) \in TaskIds
      BY <1>4, IdentityTypes DEF DiagnosesAreOlder
    <2>2. tasks[id].attempt \in Nat /\ tasks[DiagnosisOf(id)].source_attempt \in Nat
      BY <2>1 DEF TypeOK, Rows
    <2> QED
      BY <1>3, <2>1, <2>2 DEF OlderSource
  <1> QED
    BY <1>4 DEF DiagnosesAreOlder

(* Steps that leave attempts alone and put nothing under work. *)
LEMMA StillOlder ==
  ASSUME DiagnosesAreOlder,
         \A t \in TaskIds :
           /\ tasks'[t].attempt = tasks[t].attempt
           /\ tasks'[t].source_attempt = tasks[t].source_attempt
           /\ tasks'[t].status = "absent" => tasks[t].status = "absent"
           /\ tasks[t].status = "absent" => tasks'[t].status = "absent" \/ ~t.diagnosis
           /\ tasks'[t].status = "running" => tasks[t].status = "running"
  PROVE  DiagnosesAreOlder'
  <1>1. ASSUME NEW id \in TaskIds, ~id.diagnosis PROVE OlderSource(id)'
    <2>1. OlderSource(id) /\ DiagnosisOf(id) \in TaskIds /\ DiagnosisOf(id).diagnosis
      BY <1>1, IdentityTypes, SourceIdentity DEF DiagnosesAreOlder
    <2> QED
      BY <2>1 DEF OlderSource
  <1> QED
    BY <1>1 DEF DiagnosesAreOlder

LEMMA NewRowOf ==
  ASSUME NEW n, NEW a
  PROVE  /\ NewRow(n, a).status = "pending" /\ NewRow(n, a).attempt = 0
         /\ NewRow(n, a).source_attempt = a
  BY DEF NewRow, AbsentRow

-----------------------------------------------------------------------------
(* What the decisions do to rows *)

LEMMA AcceptEffect ==
  ASSUME TypeOK, LeaseOfLastClaim, NEW id \in TaskIds,
         tasks[id].status = "running", NEW w, NEW result, Accept(id, w, result)
  PROVE  /\ tasks'[id].status = "succeeded"
         /\ tasks'[id].attempt = tasks[id].attempt
         /\ tasks'[id].source_attempt = tasks[id].source_attempt
         /\ tasks'[id].output.next_action = result.next_action
         /\ \A t \in TaskIds :
              t # id /\ ~(CreatesNext(id) /\ t = Successor(id)) => tasks'[t] = tasks[t]
         /\ CreatesNext(id) =>
              /\ tasks'[Successor(id)].status = "pending"
              /\ tasks'[Successor(id)].attempt = tasks[Successor(id)].attempt
  <1>1. tasks[id] \in Rows /\ tasks'[id] = Accepted(tasks[id], w, result)
    BY DEF Accept, TypeOK
  <1>2. CreatesNext(id) =>
          /\ Successor(id) \in TaskIds /\ Successor(id) # id
          /\ tasks[Successor(id)].attempt = 0
          /\ tasks'[Successor(id)] = NewRow(inserted + 1, 0)
    BY IdentityTypes, StageIdentity DEF Accept, CreatesNext, LeaseOfLastClaim
  <1>3. /\ tasks'[id].status = "succeeded"
        /\ tasks'[id].attempt = tasks[id].attempt
        /\ tasks'[id].source_attempt = tasks[id].source_attempt
        /\ tasks'[id].output.next_action = result.next_action
    BY <1>1 DEF Accepted, Unleased, Rows
  <1>4. \A t \in TaskIds :
          t # id /\ ~(CreatesNext(id) /\ t = Successor(id)) => tasks'[t] = tasks[t]
    BY DEF Accept
  <1> QED
    BY <1>2, <1>3, <1>4, NewRowOf

LEMMA RejectEffect ==
  ASSUME TypeOK, LeaseOfLastClaim, DiagnosesAreOlder, NEW id \in TaskIds,
         tasks[id].status = "running", NEW outcome, Reject(id, outcome)
  PROVE  LET d == DiagnosisOf(id) IN
         /\ tasks'[id].status = "failed"
         /\ tasks'[id].attempt = tasks[id].attempt
         /\ tasks'[id].source_attempt = tasks[id].source_attempt
         /\ \A t \in TaskIds : t \notin {id, d} => tasks'[t] = tasks[t]
         /\ ~id.diagnosis =>
              /\ tasks'[d].status = "pending"
              /\ tasks'[d].source_attempt = tasks[id].attempt
         /\ id.diagnosis => d = id
  <1> DEFINE d == DiagnosisOf(id)
  <1>1. /\ tasks[id] \in Rows
        /\ tasks'[id] = [Unleased(tasks[id], "failed") EXCEPT !.output = NoOutput]
    BY DEF Reject, TypeOK
  <1>2. id.diagnosis => d = id
    BY DEF DiagnosisOf, TaskIds
  <1>3. ASSUME ~id.diagnosis
        PROVE  /\ tasks'[d].status = "pending"
               /\ tasks'[d].source_attempt = tasks[id].attempt
    <2>1. d \in TaskIds /\ d # id /\ tasks[d] \in Rows
      BY <1>3, IdentityTypes, SourceIdentity DEF TypeOK
    <2>2. CASE CreatesDiagnosis(id)
      BY <2>1, <2>2, NewRowOf DEF Reject
    <2>3. CASE ~CreatesDiagnosis(id)
      <3>1. ReopensDiagnosis(id)
        BY <1>3, <2>3 DEF DiagnosesAreOlder, OlderSource, CreatesDiagnosis, ReopensDiagnosis
      <3>2. tasks'[d] = Reopened(tasks[d], tasks[id].attempt)
        BY <2>1, <2>3, <3>1 DEF Reject
      <3> QED
        BY <2>1, <3>2 DEF Reopened, Unleased, Rows
    <2> QED
      BY <2>2, <2>3
  <1> QED
    BY <1>1, <1>2, <1>3 DEF Reject, Unleased, Rows

LEMMA ApplyEffect ==
  ASSUME TypeOK, NEW d \in TaskIds, ApplyDiagnosis(d)
  PROVE  \/ tasks' = tasks
         \/ LET id == SourceOf(d) IN
            /\ ~id.diagnosis /\ id \in TaskIds /\ d = DiagnosisOf(id)
            /\ tasks[d].status = "succeeded" /\ tasks[d].output.next_action = "RETRY"
            /\ tasks[id].status = "failed" /\ tasks'[id].status = "pending"
            /\ tasks'[id].attempt = tasks[id].attempt
            /\ tasks'[id].source_attempt = tasks[id].source_attempt
            /\ \A t \in TaskIds : t # id => tasks'[t] = tasks[t]
  <1> DEFINE id == SourceOf(d)
  <1>1. /\ d.diagnosis /\ ~id.diagnosis /\ id \in TaskIds /\ d = DiagnosisOf(id)
        /\ tasks[id] \in Rows
    BY IdentityTypes, DiagnosisIdentity DEF ApplyDiagnosis, TypeOK
  <1>2. CASE tasks' # tasks
    <2>1. /\ tasks[d].status = "succeeded" /\ tasks[d].output.next_action = "RETRY"
          /\ tasks[id].status = "failed"
          /\ tasks'[id] = [Unleased(tasks[id], "pending") EXCEPT !.output = NoOutput]
          /\ \A t \in TaskIds : t # id => tasks'[t] = tasks[t]
      BY <1>1, <1>2 DEF ApplyDiagnosis, TypeOK
    <2> QED
      BY <1>1, <2>1 DEF Unleased, Rows
  <1> QED
    BY <1>2

LEMMA DiscoverEffect ==
  ASSUME TypeOK, LeaseOfLastClaim, NEW key \in Keys, DiscoverOperator(key)
  PROVE  LET id == [key |-> key, stage |-> "torch", diagnosis |-> FALSE] IN
         /\ id \in TaskIds
         /\ tasks[id].status = "absent" /\ tasks'[id].status = "pending"
         /\ tasks'[id].attempt = tasks[id].attempt
         /\ \A t \in TaskIds : t # id => tasks'[t] = tasks[t]
  <1> DEFINE id == [key |-> key, stage |-> "torch", diagnosis |-> FALSE]
  <1>1. id \in TaskIds
    BY DEF TaskIds, Stages
  <1>2. /\ tasks[id].status = "absent" /\ tasks[id].attempt = 0
        /\ tasks'[id] = NewRow(inserted + 1, 0)
        /\ \A t \in TaskIds : t # id => tasks'[t] = tasks[t]
    BY <1>1 DEF DiscoverOperator, TypeOK, LeaseOfLastClaim
  <1> QED
    BY <1>1, <1>2, NewRowOf

(* The ends of a submission: its lease was live and alone decides.         *)
LEMMA SubmitEnds ==
  ASSUME NEW id \in TaskIds, Submit(id)
  PROVE  /\ tasks[id].status = "running"
         /\ \/ \E w, outcome : Reject(id, outcome)
            \/ \E w : \E result \in Results(id) :
                 ValidResult(id, result, w) /\ Accept(id, w, result)
  BY DEF Submit, Complete, Fail, OwnedLease

(* Diagnoses about attempts that are over *)

LEMMA AcceptKeepsOlder ==
  ASSUME TypeOK, LeaseOfLastClaim, DiagnosesAreOlder, NEW id \in TaskIds,
         tasks[id].status = "running", NEW w, NEW result, Accept(id, w, result)
  PROVE  DiagnosesAreOlder'
  <1>1. ASSUME NEW t \in TaskIds
        PROVE  /\ tasks'[t].attempt = tasks[t].attempt
               /\ tasks'[t].status = "running" => tasks[t].status = "running"
    BY AcceptEffect
  <1>2. ASSUME NEW t \in TaskIds, t.diagnosis
        PROVE  /\ tasks'[t].source_attempt = tasks[t].source_attempt
               /\ tasks[t].status = "absent" => tasks'[t].status = "absent"
    BY <1>2, AcceptEffect, StageIdentity DEF CreatesNext
  <1>3. ASSUME NEW t \in TaskIds, ~t.diagnosis PROVE OlderSource(t)'
    <2>1. OlderSource(t) /\ DiagnosisOf(t) \in TaskIds /\ DiagnosisOf(t).diagnosis
      BY <1>3, IdentityTypes, SourceIdentity DEF DiagnosesAreOlder
    <2> QED
      BY <1>1, <1>2, <2>1 DEF OlderSource
  <1> QED
    BY <1>3 DEF DiagnosesAreOlder

LEMMA RejectKeepsOlder ==
  ASSUME TypeOK, LeaseOfLastClaim, DiagnosesAreOlder, NEW id \in TaskIds,
         tasks[id].status = "running", NEW outcome, Reject(id, outcome)
  PROVE  DiagnosesAreOlder'
  <1> DEFINE d == DiagnosisOf(id)
  <1>1. ASSUME NEW t \in TaskIds, ~t.diagnosis PROVE OlderSource(t)'
    <2>1. OlderSource(t) /\ DiagnosisOf(t) \in TaskIds /\ DiagnosisOf(t).diagnosis
      BY <1>1, IdentityTypes, SourceIdentity DEF DiagnosesAreOlder
    <2>2. CASE t = id
      <3>1. /\ tasks'[id].status = "failed" /\ tasks'[id].attempt = tasks[id].attempt
            /\ tasks'[DiagnosisOf(id)].source_attempt = tasks[id].attempt
        BY <1>1, <2>2, RejectEffect
      <3>2. tasks[id].attempt \in Nat
        BY DEF TypeOK, Rows
      <3> QED
        BY <2>2, <3>1, <3>2 DEF OlderSource
    <2>3. CASE t # id
      <3>1. tasks'[t] = tasks[t]
        <4>1. t # DiagnosisOf(id)
          BY <1>1, <2>3, RejectEffect, SourceIdentity
        <4> QED
          BY <2>3, <4>1, RejectEffect
      <3>2. CASE DiagnosisOf(t) = id
        <4>1. id.diagnosis
          BY <2>1, <3>2
        <4>2. tasks'[id].source_attempt = tasks[id].source_attempt /\ tasks[id].status # "absent"
          BY RejectEffect
        <4> QED
          BY <2>1, <3>1, <3>2, <4>2 DEF OlderSource
      <3>3. CASE DiagnosisOf(t) # id
        <4>1. DiagnosisOf(t) # DiagnosisOf(id)
          BY <1>1, <2>3, <3>3, RejectEffect, SourceIdentity
        <4>2. tasks'[DiagnosisOf(t)] = tasks[DiagnosisOf(t)]
          BY <2>1, <3>3, <4>1, RejectEffect
        <4> QED
          BY <2>1, <3>1, <4>2 DEF OlderSource
      <3> QED
        BY <3>2, <3>3
    <2> QED
      BY <2>2, <2>3
  <1> QED
    BY <1>1 DEF DiagnosesAreOlder

LEMMA OthersKeepOlder ==
  ASSUME TypeOK, LeaseOfLastClaim, DiagnosesAreOlder
  PROVE  /\ RowsUnchanged => DiagnosesAreOlder'
         /\ \A key \in Keys : DiscoverOperator(key) => DiagnosesAreOlder'
         /\ \A id \in TaskIds : \A w \in Workers, token \in DOMAIN claimed[id],
              term \in LeaseTerms : RenewLease(id, w, token, term) => DiagnosesAreOlder'
         /\ \A d \in TaskIds : ApplyDiagnosis(d) => DiagnosesAreOlder'
         /\ \A force \in BOOLEAN : Recover(force) => DiagnosesAreOlder'
         /\ Tick => DiagnosesAreOlder'
  <1>1. ASSUME RowsUnchanged PROVE DiagnosesAreOlder'
    BY <1>1 DEF RowsUnchanged, DiagnosesAreOlder, OlderSource
  <1>2. ASSUME NEW key \in Keys, DiscoverOperator(key) PROVE DiagnosesAreOlder'
    <2> DEFINE id == [key |-> key, stage |-> "torch", diagnosis |-> FALSE]
    <2>1. ~id.diagnosis
      OBVIOUS
    <2>2. /\ tasks'[id].status = "pending"
          /\ tasks'[id].attempt = tasks[id].attempt
          /\ \A t \in TaskIds : t # id => tasks'[t] = tasks[t]
      BY <1>2, DiscoverEffect
    <2>3. ASSUME NEW t \in TaskIds, ~t.diagnosis PROVE OlderSource(t)'
      <3>1. OlderSource(t) /\ DiagnosisOf(t) \in TaskIds /\ DiagnosisOf(t).diagnosis
        BY <2>3, IdentityTypes, SourceIdentity DEF DiagnosesAreOlder
      <3>2. tasks'[DiagnosisOf(t)] = tasks[DiagnosisOf(t)]
        BY <2>1, <2>2, <3>1
      <3> QED
        BY <2>2, <3>1, <3>2 DEF OlderSource
    <2> QED
      BY <2>3 DEF DiagnosesAreOlder
  <1>3. ASSUME NEW id \in TaskIds, NEW w \in Workers, NEW token \in DOMAIN claimed[id],
               NEW term \in LeaseTerms, RenewLease(id, w, token, term)
        PROVE  DiagnosesAreOlder'
    <2>1. \A t \in TaskIds : t # id => tasks'[t] = tasks[t]
      BY <1>3 DEF RenewLease, TypeOK
    <2>2. /\ tasks'[id].status = tasks[id].status /\ tasks'[id].attempt = tasks[id].attempt
          /\ tasks'[id].source_attempt = tasks[id].source_attempt
      BY <1>3 DEF RenewLease, TypeOK, Rows
    <2> QED
      BY <2>1, <2>2, StillOlder
  <1>4. ASSUME NEW d \in TaskIds, ApplyDiagnosis(d) PROVE DiagnosesAreOlder'
    <2>1. CASE tasks' = tasks
      BY <2>1, StillOlder
    <2>2. CASE tasks' # tasks
      <3>1. SourceOf(d) \in TaskIds
        BY IdentityTypes
      <3> QED
        BY <1>4, <2>2, <3>1, ApplyEffect, StillOlder
    <2> QED
      BY <2>1, <2>2
  <1>5. ASSUME NEW force \in BOOLEAN, Recover(force) PROVE DiagnosesAreOlder'
    <2>1. ASSUME NEW t \in TaskIds
          PROVE  /\ tasks'[t].attempt = tasks[t].attempt
                 /\ tasks'[t].source_attempt = tasks[t].source_attempt
                 /\ tasks'[t].status = "absent" <=> tasks[t].status = "absent"
                 /\ tasks'[t].status = "running" => tasks[t].status = "running"
      BY <1>5 DEF Recover, TypeOK, Rows, Lapsed, Unleased
    <2> QED
      BY <2>1, StillOlder
  <1>6. ASSUME Tick PROVE DiagnosesAreOlder'
    <2>1. ASSUME NEW t \in TaskIds
          PROVE  /\ tasks'[t].attempt = tasks[t].attempt
                 /\ tasks'[t].source_attempt = tasks[t].source_attempt
                 /\ tasks'[t].status = tasks[t].status
      BY <1>6 DEF Tick, TypeOK, Rows
    <2> QED
      BY <2>1, StillOlder
  <1> QED
    BY <1>1, <1>2, <1>3, <1>4, <1>5, <1>6

LEMMA NextKeepsOlder ==
  ASSUME TypeOK, LeaseOfLastClaim, DiagnosesAreOlder, [Next]_vars
  PROVE  DiagnosesAreOlder'
  <1>1. ASSUME NEW id \in TaskIds, Submit(id) PROVE DiagnosesAreOlder'
    BY <1>1, SubmitEnds, AcceptKeepsOlder, RejectKeepsOlder
  <1> QED
    BY <1>1, ClaimKeepsOlder, OthersKeepOlder, RowFreeActions DEF Next

(* What a diagnosis knows of its source is over.                           *)
LEMMA DiagnosesStayOlder == Spec => []DiagnosesAreOlder
  <1>1. Init => DiagnosesAreOlder
    <2>1. ASSUME Init, NEW id \in TaskIds PROVE OlderSource(id)
      BY <2>1, IdentityTypes DEF Init, AbsentRow, OlderSource
    <2> QED
      BY <2>1 DEF DiagnosesAreOlder
  <1>2. TypeOK /\ LeaseOfLastClaim /\ DiagnosesAreOlder /\ [Next]_vars => DiagnosesAreOlder'
    BY NextKeepsOlder
  <1> QED
    BY <1>1, <1>2, TypeCorrect, LeasesAreLastClaims, PTL DEF Spec

-----------------------------------------------------------------------------
(* What an operator sees *)

Seen(key, p, c, l) == Position(key) = p /\ Condition(key) = c /\ Conclusion(key) = l

StageCondition(id) ==
  CASE tasks[id].status = "running" -> "held"
    [] tasks[id].status = "failed" -> "rejected"
    [] OTHER -> "idle"

StageConclusion(id) ==
  IF tasks[id].status # "failed" THEN "none"
  ELSE IF tasks[DiagnosisOf(id)].status = "succeeded"
       THEN tasks[DiagnosisOf(id)].output.next_action ELSE "open"

(* A row that is open is where its operator is.                            *)
AtStage(id) ==
  /\ tasks[id].status \in {"pending", "running", "failed"} =>
       Seen(id.key, id.stage, StageCondition(id), StageConclusion(id))
  /\ tasks[id].status = "absent" /\ id.stage = "torch" =>
       Seen(id.key, "unknown", "idle", "none")
  /\ tasks[id].status = "succeeded" /\ id.stage = "integration" =>
       Seen(id.key, "done", "idle", "none")

AtStages == \A id \in TaskIds : ~id.diagnosis => AtStage(id)

LEMMA SameIdentity ==
  ASSUME NEW s \in TaskIds, NEW t \in TaskIds,
         s.key = t.key, s.stage = t.stage, s.diagnosis = t.diagnosis
  PROVE  s = t
  BY DEF TaskIds

LEMMA RowsAreSeen == TypeOK /\ NoMissingEdge => AtStages
  <1> SUFFICES ASSUME TypeOK, NoMissingEdge, NEW id \in TaskIds, ~id.diagnosis
               PROVE  AtStage(id)
    BY DEF AtStages
  <1> DEFINE at(stage) == [key |-> id.key, stage |-> stage, diagnosis |-> FALSE]
  <1>1. /\ at("torch") \in TaskIds /\ at("xpu") \in TaskIds /\ at("integration") \in TaskIds
        /\ ~at("torch").diagnosis /\ ~at("xpu").diagnosis /\ ~at("integration").diagnosis
        /\ id = at(id.stage) /\ id.stage \in Stages
    BY DEF TaskIds, Stages
  <1>2. /\ Previous(at("xpu")) = at("torch")
        /\ Previous(at("integration")) = at("xpu")
    <2>1. /\ Previous(at("xpu")) \in TaskIds /\ Previous(at("xpu")).diagnosis = FALSE
          /\ Previous(at("xpu")).key = id.key /\ Previous(at("xpu")).stage = "torch"
      BY <1>1, IdentityTypes DEF Previous, StageBefore
    <2>2. /\ Previous(at("integration")) \in TaskIds /\ Previous(at("integration")).diagnosis = FALSE
          /\ Previous(at("integration")).key = id.key /\ Previous(at("integration")).stage = "xpu"
      BY <1>1, IdentityTypes DEF Previous, StageBefore
    <2> QED
      BY <1>1, <2>1, <2>2, SameIdentity
  <1>3. /\ Row(id.key, "xpu").status # "absent" <=> Row(id.key, "torch").status = "succeeded"
        /\ Row(id.key, "integration").status # "absent" <=> Row(id.key, "xpu").status = "succeeded"
    BY <1>1, <1>2 DEF NoMissingEdge, Row
  <1>4. tasks[id] = Row(id.key, id.stage)
    BY <1>1 DEF Row
  <1>5. DiagnosisOf(id) = [key |-> id.key, stage |-> id.stage, diagnosis |-> TRUE]
    <2>1. [key |-> id.key, stage |-> id.stage, diagnosis |-> TRUE] \in TaskIds
      BY DEF TaskIds
    <2>2. /\ DiagnosisOf(id) \in TaskIds /\ DiagnosisOf(id).diagnosis = TRUE
          /\ DiagnosisOf(id).key = id.key /\ DiagnosisOf(id).stage = id.stage
      BY IdentityTypes DEF DiagnosisOf, TaskIds
    <2> QED
      BY <2>1, <2>2, SameIdentity
  <1>6. CASE tasks[id].status \in {"pending", "running", "failed"}
    <2>1. Position(id.key) = id.stage
      BY <1>1, <1>3, <1>4, <1>6 DEF Position, Stages
    <2>2. Condition(id.key) = StageCondition(id)
      BY <1>1, <1>4, <1>6, <2>1 DEF Condition, StageCondition, Stages
    <2>3. Conclusion(id.key) = StageConclusion(id)
      BY <1>5, <1>6, <2>1, <2>2 DEF Conclusion, StageCondition, StageConclusion
    <2> QED
      BY <1>6, <2>1, <2>2, <2>3 DEF AtStage, Seen
  <1>7. CASE tasks[id].status = "absent"
    BY <1>4, <1>7 DEF AtStage, Seen, Position, Condition, Conclusion
  <1>8. CASE tasks[id].status = "succeeded"
    BY <1>3, <1>4, <1>8 DEF AtStage, Seen, Position, Condition, Conclusion
  <1> QED
    BY <1>6, <1>7, <1>8 DEF TypeOK, Rows

LEMMA RowsAreSeenAfter == TypeOK' /\ NoMissingEdge' => AtStages'
  BY RowsAreSeen, PTL

position == [key \in Keys |-> Position(key)]
condition == [key \in Keys |-> Condition(key)]
conclusion == [key \in Keys |-> Conclusion(key)]

Untouched(key) == \A t \in TaskIds : t.key = key => tasks'[t] = tasks[t]

LEMMA UntouchedIsSeen ==
  ASSUME NEW key \in Keys, Untouched(key)
  PROVE  /\ Position(key)' = Position(key)
         /\ Condition(key)' = Condition(key)
         /\ Conclusion(key)' = Conclusion(key)
  <1>1. \A stage \in Stages, diagnosis \in BOOLEAN :
          LET t == [key |-> key, stage |-> stage, diagnosis |-> diagnosis]
          IN  tasks'[t] = tasks[t]
    BY DEF Untouched, TaskIds
  <1>2. \A stage \in Stages : Row(key, stage)' = Row(key, stage)
    BY <1>1 DEF Row
  <1>3. Position(key)' = Position(key)
    BY <1>2 DEF Position, Stages
  <1>4. Position(key) \in Stages \cup {"unknown", "done"}
    BY DEF Position, Stages
  <1>5. Condition(key)' = Condition(key)
    BY <1>2, <1>3, <1>4 DEF Condition
  <1>6. Condition(key) = "rejected" => Position(key) \in Stages
    BY <1>4 DEF Condition
  <1> QED
    BY <1>1, <1>3, <1>5, <1>6 DEF Conclusion

LEMMA OneOperatorMoves ==
  ASSUME NEW key \in Keys, NEW p, NEW c, NEW l, Seen(key, p, c, l)',
         \A k \in Keys : k # key => Untouched(k)
  PROVE  /\ position' = [position EXCEPT ![key] = p]
         /\ condition' = [condition EXCEPT ![key] = c]
         /\ conclusion' = [conclusion EXCEPT ![key] = l]
  BY UntouchedIsSeen DEF Seen, position, condition, conclusion

Stutters == position' = position /\ condition' = condition /\ conclusion' = conclusion

LEMMA NobodyMoves ==
  ASSUME \A k \in Keys : Untouched(k)
  PROVE  Stutters
  BY UntouchedIsSeen DEF Stutters, position, condition, conclusion

-----------------------------------------------------------------------------
(* Every step is one of the pipeline or none *)

Moves == Pipeline!PipelineNext \/ Stutters

(* Claims, renewals, recoveries and time: stages are taken up or put back, *)
(* in any number at once.                                                  *)
LEMMA QueueStepMoves ==
  ASSUME TypeOK, QueueStep
  PROVE  Moves
  <1> DEFINE back == {key \in Keys : Condition(key) = "held" /\ Condition(key)' = "idle"}
             taken == {key \in Keys : Condition(key) = "idle" /\ Condition(key)' = "held"}
  <1>1. ASSUME NEW key \in Keys
        PROVE  /\ Position(key)' = Position(key)
               /\ Position(key) \in Stages \cup {"unknown", "done"}
               /\ Conclusion(key)' = Conclusion(key)
               /\ \/ Condition(key)' = Condition(key)
                  \/ Condition(key) = "held" /\ Condition(key)' = "idle"
                  \/ /\ Condition(key) = "idle" /\ Condition(key)' = "held"
                     /\ Position(key) \in Stages
    <2>1. \A stage \in Stages, diagnosis \in BOOLEAN :
            [key |-> key, stage |-> stage, diagnosis |-> diagnosis] \in TaskIds
      BY DEF TaskIds
    <2>2. ASSUME NEW stage \in Stages
          PROVE  IF Row(key, stage).status \in Queued
                 THEN Row(key, stage)'.status \in Queued
                 ELSE Row(key, stage)' = Row(key, stage)
      BY <2>1 DEF QueueStep, Row
    <2>3. Position(key)' = Position(key) /\ Position(key) \in Stages \cup {"unknown", "done"}
      BY <2>2 DEF Position, Stages, Queued
    <2>4. \/ Condition(key)' = Condition(key)
          \/ Condition(key) = "held" /\ Condition(key)' = "idle"
          \/ /\ Condition(key) = "idle" /\ Condition(key)' = "held"
             /\ Position(key) \in Stages
      <3>1. CASE Position(key) \in {"unknown", "done"}
        BY <2>3, <3>1 DEF Condition
      <3>2. CASE Position(key) \in Stages /\ Position(key) \notin {"unknown", "done"}
        BY <2>2, <2>3, <3>2 DEF Condition, Queued
      <3> QED
        BY <2>3, <3>1, <3>2
    <2>5. Conclusion(key)' = Conclusion(key)
      <3>1. CASE Condition(key) # "rejected"
        <4>1. Condition(key)' # "rejected"
          BY <2>4, <3>1
        <4> QED
          BY <3>1, <4>1 DEF Conclusion
      <3>2. CASE Condition(key) = "rejected"
        <4> DEFINE d == [key |-> key, stage |-> Position(key), diagnosis |-> TRUE]
        <4>1. Position(key) \in Stages /\ Condition(key)' = "rejected"
          BY <2>3, <2>4, <3>2 DEF Condition
        <4>2. d \in TaskIds
          BY <2>1, <4>1
        <4>3. /\ tasks'[d].status = "succeeded" <=> tasks[d].status = "succeeded"
              /\ tasks[d].status = "succeeded" => tasks'[d] = tasks[d]
          BY <4>2 DEF QueueStep, Queued
        <4> QED
          BY <2>3, <3>2, <4>1, <4>3 DEF Conclusion
      <3> QED
        BY <3>1, <3>2
    <2> QED
      BY <2>3, <2>4, <2>5
  <1>2. position' = position /\ conclusion' = conclusion
    BY <1>1 DEF position, conclusion
  <1>3. \A key \in back : condition[key] = "held"
    BY DEF condition
  <1>4. \A key \in taken : position[key] \in DOMAIN Pipeline!Order /\ condition[key] = "idle"
    <2>1. DOMAIN Pipeline!Order = Stages
      BY DEF Pipeline!Order, Stages
    <2> QED
      BY <1>1, <2>1 DEF position, condition
  <1>5. condition' = [key \in Keys |-> IF key \in taken THEN "held"
                                       ELSE IF key \in back THEN "idle" ELSE condition[key]]
    <2>1. \A key \in Keys :
            Condition(key)' = IF key \in taken THEN "held"
                              ELSE IF key \in back THEN "idle" ELSE Condition(key)
      BY <1>1
    <2> QED
      BY <2>1 DEF condition
  <1> HIDE DEF back, taken
  <1>6. back \in SUBSET Keys /\ taken \in SUBSET Keys
    BY DEF back, taken
  <1>7. Pipeline!Schedule(back, taken)
    BY <1>2, <1>3, <1>4, <1>5 DEF Pipeline!Schedule, position, condition, conclusion
  <1> QED
    BY <1>6, <1>7 DEF Moves, Pipeline!PipelineNext

LEMMA DiscoverMoves ==
  ASSUME TypeOK, LeaseOfLastClaim, AtStages, AtStages', NEW key \in Keys, DiscoverOperator(key)
  PROVE  Moves
  <1> DEFINE id == [key |-> key, stage |-> "torch", diagnosis |-> FALSE]
  <1>1. /\ id \in TaskIds /\ ~id.diagnosis /\ id.stage = "torch" /\ id.key = key
        /\ tasks[id].status = "absent" /\ tasks'[id].status = "pending"
        /\ \A t \in TaskIds : t # id => tasks'[t] = tasks[t]
    BY DiscoverEffect
  <1> HIDE DEF id
  <1>2. Seen(key, "unknown", "idle", "none")
    BY <1>1 DEF AtStages, AtStage
  <1>3. Seen(key, "torch", "idle", "none")'
    BY <1>1 DEF AtStages, AtStage, StageCondition, StageConclusion
  <1>4. \A k \in Keys : k # key => Untouched(k)
    BY <1>1 DEF Untouched
  <1>5. /\ position' = [position EXCEPT ![key] = "torch"]
        /\ condition' = [condition EXCEPT ![key] = "idle"]
        /\ conclusion' = [conclusion EXCEPT ![key] = "none"]
    BY <1>3, <1>4, OneOperatorMoves
  <1>6. position[key] = "unknown" /\ condition[key] = "idle" /\ conclusion[key] = "none"
    BY <1>2 DEF Seen, position, condition, conclusion
  <1>7. condition' = condition /\ conclusion' = conclusion
    BY <1>5, <1>6 DEF condition, conclusion
  <1>8. Pipeline!Enter(key)
    BY <1>5, <1>6, <1>7 DEF Pipeline!Enter, position, condition, conclusion
  <1> QED
    BY <1>8 DEF Moves, Pipeline!PipelineNext

(* What is known of an operator is an entry of the abstract state.         *)
LEMMA SeenEntry ==
  ASSUME NEW key \in Keys, NEW p, NEW c, NEW l, Seen(key, p, c, l)
  PROVE  position[key] = p /\ condition[key] = c /\ conclusion[key] = l
  BY DEF Seen, position, condition, conclusion

LEMMA AcceptMoves ==
  ASSUME TypeOK, LeaseOfLastClaim, NoMissingEdge, DiagnosisTracksFailure,
         AtStages, AtStages', NEW id \in TaskIds, tasks[id].status = "running",
         NEW w, NEW result, ValidResult(id, result, w), Accept(id, w, result)
  PROVE  Moves
  <1> DEFINE key == id.key
  <1>1. key \in Keys /\ id.stage \in Stages
    BY DEF TaskIds
  <1>2. /\ tasks'[id].status = "succeeded"
        /\ tasks'[id].output.next_action = result.next_action
        /\ \A t \in TaskIds :
             t # id /\ ~(CreatesNext(id) /\ t = Successor(id)) => tasks'[t] = tasks[t]
        /\ CreatesNext(id) => tasks'[Successor(id)].status = "pending"
    BY AcceptEffect
  <1>3. CreatesNext(id) => Successor(id).key = key
    BY DEF CreatesNext, Successor, TaskIds
  <1>4. \A k \in Keys : k # key => Untouched(k)
    BY <1>2, <1>3 DEF Untouched
  <1> HIDE DEF key
  <1>5. CASE ~id.diagnosis
    <2>1. Seen(key, id.stage, "held", "none")
      BY <1>5 DEF AtStages, AtStage, StageCondition, StageConclusion, key
    <2>2. Seen(key, Pipeline!Order[id.stage], "idle", "none")'
      <3>1. CASE id.stage = "integration"
        <4>1. Seen(key, "done", "idle", "none")'
          BY <1>2, <1>5, <3>1 DEF AtStages, AtStage, key
        <4> QED
          BY <3>1, <4>1 DEF Pipeline!Order
      <3>2. CASE id.stage # "integration"
        <4>1. /\ Successor(id) \in TaskIds /\ ~Successor(id).diagnosis
              /\ Successor(id).key = key /\ Successor(id).stage = StageAfter(id.stage)
          BY <1>5, <3>2, IdentityTypes, StageIdentity DEF Successor, TaskIds, key
        <4>2. tasks[Successor(id)].status = "absent"
          BY <1>5, <3>2, <4>1, StageIdentity DEF NoMissingEdge
        <4>3. tasks'[Successor(id)].status = "pending"
          BY <1>2, <1>5, <3>2, <4>2 DEF CreatesNext
        <4>4. Seen(key, StageAfter(id.stage), "idle", "none")'
          BY <4>1, <4>3 DEF AtStages, AtStage, StageCondition, StageConclusion
        <4> QED
          BY <1>1, <3>2, <4>4 DEF Pipeline!Order, StageAfter, Stages
      <3> QED
        BY <3>1, <3>2
    <2>3. /\ position' = [position EXCEPT ![key] = Pipeline!Order[id.stage]]
          /\ condition' = [condition EXCEPT ![key] = "idle"]
          /\ conclusion' = [conclusion EXCEPT ![key] = "none"]
      BY <1>1, <1>4, <2>2, OneOperatorMoves DEF key
    <2>4. position[key] = id.stage /\ condition[key] = "held" /\ conclusion[key] = "none"
      BY <1>1, <2>1, SeenEntry DEF key
    <2>5. conclusion' = conclusion
      BY <2>3, <2>4 DEF conclusion
    <2>6. Pipeline!AcceptStage(key)
      BY <2>3, <2>4, <2>5 DEF Pipeline!AcceptStage, position, condition, conclusion
    <2> QED
      BY <1>1, <2>6 DEF Moves, Pipeline!PipelineNext, key
  <1>6. CASE id.diagnosis
    <2> DEFINE source == SourceOf(id)
    <2>1. /\ source \in TaskIds /\ ~source.diagnosis /\ source.key = key
          /\ DiagnosisOf(source) = id /\ source # id
      BY <1>6, IdentityTypes, DiagnosisIdentity DEF SourceOf, TaskIds, key
    <2>2. tasks[source].status = "failed"
      BY <1>6 DEF DiagnosisTracksFailure, OpenDiagnosis
    <2>3. tasks'[source] = tasks[source]
      BY <1>2, <1>6, <2>1 DEF CreatesNext
    <2> HIDE DEF source
    <2>4. Seen(key, source.stage, "rejected", "open")
      BY <2>1, <2>2 DEF AtStages, AtStage, StageCondition, StageConclusion
    <2>5. Seen(key, source.stage, "rejected", result.next_action)'
      BY <1>2, <2>1, <2>2, <2>3 DEF AtStages, AtStage, StageCondition, StageConclusion
    <2>6. /\ position' = [position EXCEPT ![key] = source.stage]
          /\ condition' = [condition EXCEPT ![key] = "rejected"]
          /\ conclusion' = [conclusion EXCEPT ![key] = result.next_action]
      BY <1>1, <1>4, <2>5, OneOperatorMoves DEF key
    <2>7. position[key] = source.stage /\ condition[key] = "rejected" /\ conclusion[key] = "open"
      BY <1>1, <2>4, SeenEntry DEF key
    <2>8. position' = position /\ condition' = condition
      BY <2>6, <2>7 DEF position, condition
    <2>9. result.next_action \in NextActions
      BY <1>6 DEF ValidResult
    <2>10. Pipeline!Conclude(key, result.next_action)
      BY <2>6, <2>7, <2>8 DEF Pipeline!Conclude, position, condition, conclusion
    <2> QED
      BY <1>1, <2>9, <2>10 DEF Moves, Pipeline!PipelineNext, key
  <1> QED
    BY <1>5, <1>6

LEMMA RejectMoves ==
  ASSUME TypeOK, LeaseOfLastClaim, DiagnosesAreOlder, DiagnosisTracksFailure,
         AtStages, AtStages', NEW id \in TaskIds, tasks[id].status = "running",
         NEW outcome, Reject(id, outcome)
  PROVE  Moves
  <1> DEFINE key == id.key
  <1>1. key \in Keys
    BY DEF TaskIds
  <1>2. /\ tasks'[id].status = "failed"
        /\ \A t \in TaskIds : t \notin {id, DiagnosisOf(id)} => tasks'[t] = tasks[t]
        /\ ~id.diagnosis => tasks'[DiagnosisOf(id)].status = "pending"
        /\ id.diagnosis => DiagnosisOf(id) = id
    BY RejectEffect
  <1>3. DiagnosisOf(id).key = key
    BY DEF DiagnosisOf, TaskIds
  <1>4. \A k \in Keys : k # key => Untouched(k)
    BY <1>2, <1>3 DEF Untouched
  <1> HIDE DEF key
  <1>5. CASE ~id.diagnosis
    <2>1. Seen(key, id.stage, "held", "none")
      BY <1>5 DEF AtStages, AtStage, StageCondition, StageConclusion, key
    <2>2. Seen(key, id.stage, "rejected", "open")'
      BY <1>2, <1>5 DEF AtStages, AtStage, StageCondition, StageConclusion, key
    <2>3. /\ position' = [position EXCEPT ![key] = id.stage]
          /\ condition' = [condition EXCEPT ![key] = "rejected"]
          /\ conclusion' = [conclusion EXCEPT ![key] = "open"]
      BY <1>1, <1>4, <2>2, OneOperatorMoves DEF key
    <2>4. position[key] = id.stage /\ condition[key] = "held"
      BY <1>1, <2>1, SeenEntry DEF key
    <2>5. position' = position
      BY <2>3, <2>4 DEF position
    <2>6. Pipeline!RejectStage(key)
      BY <2>3, <2>4, <2>5 DEF Pipeline!RejectStage, position, condition, conclusion
    <2> QED
      BY <1>1, <2>6 DEF Moves, Pipeline!PipelineNext, key
  <1>6. CASE id.diagnosis
    <2> DEFINE source == SourceOf(id)
    <2>1. /\ source \in TaskIds /\ ~source.diagnosis /\ source.key = key
          /\ DiagnosisOf(source) = id /\ source # id
      BY <1>6, IdentityTypes, DiagnosisIdentity DEF SourceOf, TaskIds, key
    <2>2. tasks[source].status = "failed"
      BY <1>6 DEF DiagnosisTracksFailure, OpenDiagnosis
    <2>3. tasks'[source] = tasks[source]
      BY <1>2, <1>6, <2>1
    <2> HIDE DEF source
    <2>4. Seen(key, source.stage, "rejected", "open")
      BY <2>1, <2>2 DEF AtStages, AtStage, StageCondition, StageConclusion
    <2>5. Seen(key, source.stage, "rejected", "open")'
      BY <1>2, <2>1, <2>2, <2>3 DEF AtStages, AtStage, StageCondition, StageConclusion
    <2>6. /\ position' = [position EXCEPT ![key] = source.stage]
          /\ condition' = [condition EXCEPT ![key] = "rejected"]
          /\ conclusion' = [conclusion EXCEPT ![key] = "open"]
      BY <1>1, <1>4, <2>5, OneOperatorMoves DEF key
    <2>7. position[key] = source.stage /\ condition[key] = "rejected" /\ conclusion[key] = "open"
      BY <1>1, <2>4, SeenEntry DEF key
    <2> QED
      BY <2>6, <2>7 DEF Moves, Stutters, position, condition, conclusion
  <1> QED
    BY <1>5, <1>6

LEMMA ApplyMoves ==
  ASSUME TypeOK, AtStages, AtStages', NEW d \in TaskIds, ApplyDiagnosis(d)
  PROVE  Moves
  <1>1. CASE tasks' = tasks
    BY <1>1, NobodyMoves DEF Moves, Untouched
  <1>2. CASE tasks' # tasks
    <2> DEFINE id == SourceOf(d)
               key == id.key
    <2>1. /\ ~id.diagnosis /\ id \in TaskIds /\ d = DiagnosisOf(id)
          /\ tasks[d].status = "succeeded" /\ tasks[d].output.next_action = "RETRY"
          /\ tasks[id].status = "failed" /\ tasks'[id].status = "pending"
          /\ \A t \in TaskIds : t # id => tasks'[t] = tasks[t]
      BY <1>2, ApplyEffect
    <2> HIDE DEF id
    <2>2. key \in Keys /\ \A k \in Keys : k # key => Untouched(k)
      BY <2>1 DEF Untouched, TaskIds
    <2> HIDE DEF key
    <2>3. Seen(key, id.stage, "rejected", "RETRY")
      BY <2>1 DEF AtStages, AtStage, StageCondition, StageConclusion, key
    <2>4. Seen(key, id.stage, "idle", "none")'
      BY <2>1 DEF AtStages, AtStage, StageCondition, StageConclusion, key
    <2>5. /\ position' = [position EXCEPT ![key] = id.stage]
          /\ condition' = [condition EXCEPT ![key] = "idle"]
          /\ conclusion' = [conclusion EXCEPT ![key] = "none"]
      BY <2>2, <2>4, OneOperatorMoves
    <2>6. position[key] = id.stage /\ conclusion[key] = "RETRY"
      BY <2>2, <2>3, SeenEntry
    <2>7. position' = position
      BY <2>5, <2>6 DEF position
    <2>8. Pipeline!Retry(key)
      BY <2>5, <2>6, <2>7 DEF Pipeline!Retry, position, condition, conclusion
    <2> QED
      BY <2>2, <2>8 DEF Moves, Pipeline!PipelineNext
  <1> QED
    BY <1>1, <1>2

Known == TypeOK /\ LeaseOfLastClaim /\ NoMissingEdge /\ DiagnosisTracksFailure /\ DiagnosesAreOlder

LEMMA NextMoves == Known /\ Known' /\ [Next]_vars => Moves
  <1> SUFFICES ASSUME Known, Known', [Next]_vars PROVE Moves
    OBVIOUS
  <1> USE DEF Known
  <1>1. AtStages /\ AtStages'
    BY RowsAreSeen, RowsAreSeenAfter
  <1>2. CASE RowsUnchanged
    BY <1>2, NobodyMoves DEF RowsUnchanged, Moves, Untouched
  <1>3. CASE QueueStep
    BY <1>3, QueueStepMoves
  <1>4. ASSUME NEW key \in Keys, DiscoverOperator(key) PROVE Moves
    BY <1>1, <1>4, DiscoverMoves
  <1>5. ASSUME NEW id \in TaskIds, Submit(id) PROVE Moves
    BY <1>1, <1>5, SubmitEnds, AcceptMoves, RejectMoves
  <1>6. ASSUME NEW d \in TaskIds, ApplyDiagnosis(d) PROVE Moves
    BY <1>1, <1>6, ApplyMoves
  <1>7. ASSUME NEW id \in TaskIds, NEW w \in Workers, NEW token \in DOMAIN claimed[id],
               NEW term \in LeaseTerms, RenewLease(id, w, token, term)
        PROVE  QueueStep
    BY <1>7, RenewIsQueueStep
  <1>8. ASSUME NEW force \in BOOLEAN, Recover(force) PROVE QueueStep
    BY <1>8, RecoverIsQueueStep
  <1>9. Claim => QueueStep
    BY ClaimIsQueueStep
  <1>10. Tick => QueueStep
    BY TickIsQueueStep
  <1> QED
    BY <1>2, <1>3, <1>4, <1>5, <1>6, <1>7, <1>8, <1>9, <1>10, RowFreeActions DEF Next

LEMMA KnownAlways == Spec => []Known
  BY TypeCorrect, LeasesAreLastClaims, NoEdgeMissing, DiagnosesTrackFailures,
     DiagnosesStayOlder, PTL DEF Known

(* Whatever workers crash, claims race, leases lapse and diagnoses come    *)
(* late, each operator goes through its stages one by one, each accepted   *)
(* or rejected by who holds it, and is retried once per conclusion.        *)
THEOREM SchedulerRefines == Spec => RefinesPipeline
  <1>1. Init => Pipeline!PipelineInit
    <2>1. ASSUME Init, NEW key \in Keys PROVE Seen(key, "unknown", "idle", "none")
      <3>1. [key |-> key, stage |-> "torch", diagnosis |-> FALSE] \in TaskIds
        BY DEF TaskIds, Stages
      <3>2. Row(key, "torch").status = "absent"
        BY <2>1, <3>1 DEF Init, Row, AbsentRow
      <3> QED
        BY <3>2 DEF Seen, Position, Condition, Conclusion
    <2> QED
      BY <2>1 DEF Seen, Pipeline!PipelineInit
  <1>2. Known /\ Known' /\ [Next]_vars => [Pipeline!PipelineNext]_(Pipeline!pipeline)
    BY NextMoves DEF Moves, Stutters, position, condition, conclusion, Pipeline!pipeline
  <1> QED
    BY <1>1, <1>2, KnownAlways, PTL DEF Spec, RefinesPipeline, Pipeline!PipelineSpec
=============================================================================
