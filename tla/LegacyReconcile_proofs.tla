---------------------- MODULE LegacyReconcile_proofs ----------------------
(***************************************************************************)
(* Proofs about LegacyReconcile for every history the older version can    *)
(* leave.  Nothing is assumed of the event log: whatever is missing in it, *)
(* the producer that reconcile finds is the worker of the row's attempt,   *)
(* and the attempt of a row counts its claims.  So a stage begins, by      *)
(* whichever transaction, only when its predecessor has succeeded and its  *)
(* result, if the older version took it, was validated by somebody else;   *)
(* and from then on neither that result nor its claims change any more.    *)
(***************************************************************************)
EXTENDS LegacyReconcile, TaskScheduler_proofs

-----------------------------------------------------------------------------
(* The invariant *)

(* What the argument needs of the tables; created_at and the leases of the *)
(* rows play no part.                                                      *)
Tables ==
  /\ tasks = [id \in TaskIds |-> tasks[id]]
  /\ claimed \in [TaskIds -> Seq(Workers)]
  /\ bare = [id \in TaskIds |-> bare[id]]
  /\ \A id \in TaskIds : /\ DOMAIN tasks[id] = DOMAIN AbsentRow
                         /\ tasks[id].attempt = Len(claimed[id])
                         /\ tasks[id].status = "absent" => tasks[id].attempt = 0

(* Only accepted stages have a bare result, and only they have a next one. *)
AcceptedInOrder ==
  \A id \in TaskIds :
    /\ bare[id] # NoResult => ~id.diagnosis /\ tasks[id].status = "succeeded"
    /\ ~id.diagnosis /\ id.stage # "integration"
         /\ tasks[Successor(id)].status # "absent" => tasks[id].status = "succeeded"

LegacyInv == Tables /\ AcceptedInOrder /\ IndependentHandOver

(* The result of id was validated by somebody else than its producer. *)
Independent(id) ==
  /\ bare[id].verdict = "PASS"
  /\ bare[id].validator # claimed[id][Len(claimed[id])]

-----------------------------------------------------------------------------
(* What every transaction of either version does to a row *)

Same(id) ==
  tasks'[id].attempt = tasks[id].attempt /\ claimed'[id] = claimed[id]

ClaimedOnce(id) ==
  /\ tasks[id].status \in Queued
  /\ tasks'[id].attempt = tasks[id].attempt + 1
  /\ \E w \in Workers : claimed'[id] = Append(claimed[id], w)

(* The operator of a new row has rows already, or is discovered now. *)
Rooted(t) ==
  \/ \E id \in TaskIds : tasks[id].status # "absent" /\ id.key = t.key
  \/ /\ run.status # "absent"
     /\ run.mode = "real" =>
          t.key.fingerprint = run.fingerprint /\ run.fingerprint # NoFingerprint

(* A row that appears is a diagnosis, a first stage, or the next stage of  *)
(* one that is accepted by this very transaction or was independently.     *)
InTurn(t) ==
  t.diagnosis \/ t.stage = "torch"
    \/ LET id == Previous(t)
       IN \/ tasks[id].status # "succeeded" /\ tasks'[id].status = "succeeded"
          \/ tasks[id].status = "succeeded" /\ Independent(id)

MayAppear(t) == Rooted(t) /\ InTurn(t)

RowMoves(t) ==
  /\ DOMAIN tasks'[t] = DOMAIN AbsentRow
  /\ Same(t) \/ ClaimedOnce(t)
  /\ tasks[t].status = "absent" =>
       Same(t) /\ (tasks'[t].status # "absent" => MayAppear(t))
  /\ tasks[t].status # "absent" => tasks'[t].status # "absent"
  /\ ~t.diagnosis /\ tasks[t].status = "succeeded" =>
       tasks'[t].status = "succeeded" /\ Same(t)

TablesMove ==
  /\ tasks' = [id \in TaskIds |-> tasks'[id]]
  /\ claimed' = [id \in TaskIds |-> claimed'[id]]
  /\ \A t \in TaskIds : RowMoves(t)

LEMMA RowStays ==
  ASSUME Tables, NEW t \in TaskIds,
         tasks'[t].status = tasks[t].status, DOMAIN tasks'[t] = DOMAIN AbsentRow,
         Same(t)
  PROVE  RowMoves(t)
  BY DEF RowMoves

LEMMA KeepsAbsent ==
  ASSUME Tables, UNCHANGED <<tasks, claimed>>
  PROVE  TablesMove
  BY RowStays DEF Tables, TablesMove, Same

LEMMA TablesKept ==
  ASSUME Tables, TablesMove, bare' = [id \in TaskIds |-> bare'[id]]
  PROVE  Tables'
  <1>1. ASSUME NEW id \in TaskIds
        PROVE  /\ claimed'[id] \in Seq(Workers)
               /\ tasks'[id].attempt = Len(claimed'[id])
               /\ tasks'[id].status = "absent" => tasks'[id].attempt = 0
    <2>1. claimed[id] \in Seq(Workers) /\ tasks[id].attempt = Len(claimed[id])
      BY DEF Tables
    <2>2. CASE Same(id)
      BY <2>1, <2>2 DEF Same, RowMoves, TablesMove, Tables
    <2>3. CASE ClaimedOnce(id)
      BY <2>1, <2>3 DEF ClaimedOnce, RowMoves, TablesMove, Queued
    <2> QED
      BY <2>2, <2>3 DEF TablesMove, RowMoves
  <1> QED
    BY <1>1 DEF Tables, TablesMove, RowMoves

(* What was handed on stays as it was, and what is handed on was independent. *)
LEMMA MovesKeep ==
  ASSUME LegacyInv, TablesMove, bare' = bare
  PROVE  LegacyInv'
  <1>1. Tables'
    BY TablesKept DEF LegacyInv, Tables
  <1>2. ASSUME NEW id \in TaskIds, tasks[id].status = "succeeded", ~id.diagnosis
        PROVE  tasks'[id].status = "succeeded" /\ claimed'[id] = claimed[id]
    BY <1>2 DEF TablesMove, RowMoves, Same
  <1>3. ASSUME NEW id \in TaskIds, ~id.diagnosis, id.stage # "integration",
               tasks'[Successor(id)].status # "absent"
        PROVE  /\ tasks'[id].status = "succeeded"
               /\ bare[id] # NoResult => /\ bare[id].verdict = "PASS"
                                         /\ bare[id].validator # claimed'[id][Len(claimed'[id])]
    <2>1. /\ Successor(id) \in TaskIds /\ ~Successor(id).diagnosis
          /\ Successor(id).stage # "torch" /\ Previous(Successor(id)) = id
      BY <1>3, IdentityTypes, StageIdentity
    <2>2. CASE tasks[Successor(id)].status # "absent"
      <3>1. tasks[id].status = "succeeded"
        BY <1>3, <2>2 DEF LegacyInv, AcceptedInOrder
      <3>2. bare[id] # NoResult => Independent(id)
        BY <1>3, <2>2 DEF LegacyInv, IndependentHandOver, Independent
      <3> QED
        BY <1>2, <1>3, <3>1, <3>2 DEF Independent
    <2>3. CASE tasks[Successor(id)].status = "absent"
      <3>1. MayAppear(Successor(id))
        BY <1>3, <2>1, <2>3 DEF TablesMove, RowMoves
      <3>2. CASE tasks[id].status # "succeeded" /\ tasks'[id].status = "succeeded"
        BY <3>2 DEF LegacyInv, AcceptedInOrder
      <3>3. CASE tasks[id].status = "succeeded" /\ Independent(id)
        BY <1>2, <1>3, <3>3 DEF Independent
      <3> QED
        BY <2>1, <3>1, <3>2, <3>3 DEF MayAppear, InTurn
    <2> QED
      BY <2>2, <2>3
  <1>4. AcceptedInOrder'
    BY <1>2, <1>3 DEF LegacyInv, AcceptedInOrder
  <1>5. IndependentHandOver'
    BY <1>3 DEF IndependentHandOver
  <1> QED
    BY <1>1, <1>4, <1>5 DEF LegacyInv

-----------------------------------------------------------------------------
(* The transactions that both versions know *)

LEMMA UnleasedRow ==
  ASSUME NEW row, DOMAIN row = DOMAIN AbsentRow, NEW s
  PROVE  /\ DOMAIN Unleased(row, s) = DOMAIN AbsentRow
         /\ Unleased(row, s).status = s
         /\ Unleased(row, s).attempt = row.attempt
         /\ DOMAIN [Unleased(row, s) EXCEPT !.output = NoOutput] = DOMAIN AbsentRow
         /\ [Unleased(row, s) EXCEPT !.output = NoOutput].status = s
         /\ [Unleased(row, s) EXCEPT !.output = NoOutput].attempt = row.attempt
  BY DEF Unleased, AbsentRow

LEMMA InsertedRow ==
  ASSUME NEW n, NEW a
  PROVE  /\ DOMAIN NewRow(n, a) = DOMAIN AbsentRow
         /\ NewRow(n, a).status = "pending" /\ NewRow(n, a).attempt = 0
  BY DEF NewRow, AbsentRow

(* A row that goes on with its attempt, from the queue or from a failure. *)
LEMMA RowGoesOn ==
  ASSUME Tables, NEW t \in TaskIds, DOMAIN tasks'[t] = DOMAIN AbsentRow, Same(t),
         tasks[t].status # "absent", tasks'[t].status # "absent",
         t.diagnosis \/ tasks[t].status # "succeeded"
  PROVE  RowMoves(t)
  BY DEF RowMoves

LEMMA RowAppears ==
  ASSUME Tables, NEW t \in TaskIds, NEW n, NEW a, tasks'[t] = NewRow(n, a),
         claimed'[t] = claimed[t], tasks[t].status = "absent", MayAppear(t)
  PROVE  RowMoves(t)
  BY InsertedRow DEF RowMoves, Same, Tables

LEMMA DiscoverMovesRows ==
  ASSUME Tables, NEW key \in Keys, DiscoverOperator(key)
  PROVE  TablesMove
  <1> DEFINE id == [key |-> key, stage |-> "torch", diagnosis |-> FALSE]
  <1>1. /\ id \in TaskIds /\ id.stage = "torch" /\ tasks[id].status = "absent"
        /\ claimed' = claimed
        /\ tasks' = [tasks EXCEPT ![id] = NewRow(inserted + 1, 0)]
    BY DEF DiscoverOperator, TaskIds, Stages
  <1>2. Rooted(id)
    BY DEF DiscoverOperator, EnvironmentRequired, EnvironmentReadyFor, Rooted
  <1> HIDE DEF id
  <1>4. RowMoves(id)
    BY <1>1, <1>2, RowAppears DEF Tables, MayAppear, InTurn
  <1>3. ASSUME NEW t \in TaskIds, t # id PROVE RowMoves(t)
    BY <1>1, <1>3, RowStays DEF Tables, Same
  <1> QED
    BY <1>1, <1>3, <1>4 DEF TablesMove, Tables

LEMMA ClaimMovesRows ==
  ASSUME Tables, NEW w \in Workers, NEW stage, NEW limit, NEW term,
         ClaimReady(w, stage, limit, term)
  PROVE  TablesMove
  <1> DEFINE picked == Oldest(Requeued, Claimable(Requeued, stage), limit)
  <1>1. \A id \in picked : id \in TaskIds /\ Requeued[id].status = "pending"
    BY DEF Oldest, Claimable
  <1>2. /\ tasks' = [id \in TaskIds |->
             IF id \in picked
             THEN Leased(Requeued[id], w, term, Len(claimed[id]) + 1, FreshWorkspace(id))
             ELSE Requeued[id]]
        /\ claimed' = [id \in TaskIds |->
             IF id \in picked THEN Append(claimed[id], w) ELSE claimed[id]]
    BY DEF ClaimReady
  <1> HIDE DEF picked
  <1>3. ASSUME NEW t \in TaskIds
        PROVE  /\ DOMAIN Requeued[t] = DOMAIN AbsentRow
               /\ Requeued[t].attempt = tasks[t].attempt
               /\ \/ Requeued[t] = tasks[t]
                  \/ tasks[t].status = "running" /\ Requeued[t].status = "pending"
    <2>1. /\ Requeued[t] = IF Lapsed(tasks[t]) THEN Unleased(tasks[t], "pending")
                                               ELSE tasks[t]
          /\ DOMAIN tasks[t] = DOMAIN AbsentRow
      BY DEF Tables, Requeued
    <2> QED
      BY <2>1, UnleasedRow DEF Lapsed
  <1>4. ASSUME NEW t \in TaskIds PROVE RowMoves(t)
    <2>1. CASE t \in picked
      <3> DEFINE token == Len(claimed[t]) + 1
                 workspace == FreshWorkspace(t)
      <3>1. tasks'[t] = Leased(Requeued[t], w, term, token, workspace)
        BY <1>2, <2>1
      <3>2. claimed'[t] = Append(claimed[t], w)
        BY <1>2, <2>1
      <3>3. DOMAIN Requeued[t] = {"status", "created", "attempt", "token", "worker",
                                  "expires", "workspace", "source_attempt", "output"}
        BY <1>3 DEF AbsentRow
      <3>4. /\ DOMAIN tasks'[t] = DOMAIN AbsentRow
            /\ tasks'[t].status = "running"
            /\ tasks'[t].attempt = tasks[t].attempt + 1
        <4> HIDE DEF token, workspace
        <4> QED
          BY <3>1, <3>3, <1>3 DEF Leased
      <3>5. tasks[t].status \in Queued
        BY <1>1, <1>3, <2>1 DEF Queued
      <3> QED
        BY <3>2, <3>4, <3>5 DEF RowMoves, ClaimedOnce, Queued
    <2>2. CASE t \notin picked
      <3>1. tasks'[t] = Requeued[t] /\ claimed'[t] = claimed[t]
        BY <1>2, <2>2
      <3> QED
        BY <1>3, <3>1, RowStays, RowGoesOn DEF Same, Tables
    <2> QED
      BY <2>1, <2>2
  <1> QED
    BY <1>2, <1>4 DEF TablesMove

LEMMA RenewMovesRows ==
  ASSUME Tables, NEW id \in TaskIds, NEW w, NEW token, NEW term,
         RenewLease(id, w, token, term)
  PROVE  TablesMove
  <1>1. tasks' = [tasks EXCEPT ![id] = [tasks[id] EXCEPT !.expires = term]]
    BY DEF RenewLease
  <1>2. DOMAIN tasks[id] = {"status", "created", "attempt", "token", "worker",
                            "expires", "workspace", "source_attempt", "output"}
    BY DEF Tables, AbsentRow
  <1>3. ASSUME NEW t \in TaskIds PROVE RowMoves(t)
    BY <1>1, <1>2, RowStays DEF Tables, Same, RenewLease
  <1> QED
    BY <1>1, <1>3 DEF TablesMove, Tables, RenewLease

LEMMA SameOperator ==
  ASSUME NEW id \in TaskIds
  PROVE  DiagnosisOf(id).key = id.key /\ Successor(id).key = id.key
  BY DEF DiagnosisOf, Successor, TaskIds

LEMMA DiagnosisMayAppear ==
  ASSUME NEW id \in TaskIds, tasks[id].status # "absent"
  PROVE  MayAppear(DiagnosisOf(id))
  BY SameOperator DEF MayAppear, Rooted, InTurn, DiagnosisOf, TaskIds

(* The decision of a running row, one way or the other. *)
LEMMA AcceptMovesRows ==
  ASSUME Tables, NEW id \in TaskIds, tasks[id].status = "running", NEW w, NEW result,
         Accept(id, w, result), claimed' = claimed
  PROVE  TablesMove
  <1>1. /\ DOMAIN tasks'[id] = DOMAIN AbsentRow
        /\ tasks'[id].status = "succeeded"
        /\ tasks'[id].attempt = tasks[id].attempt
    <2> DEFINE out == [worker |-> w, attempt |-> tasks[id].attempt,
                       next_action |-> result.next_action]
               row == Unleased(tasks[id], "succeeded")
    <2>1. tasks'[id] = [row EXCEPT !.output = out]
      BY DEF Accept, Accepted
    <2>2. DOMAIN row = DOMAIN AbsentRow /\ row.status = "succeeded"
          /\ row.attempt = tasks[id].attempt
      BY UnleasedRow DEF Tables
    <2> HIDE DEF out, row
    <2> QED
      BY <2>1, <2>2 DEF AbsentRow
  <1>2. RowMoves(id)
    BY <1>1, RowGoesOn DEF Same
  <1>3. ASSUME CreatesNext(id) PROVE RowMoves(Successor(id))
    <2>1. /\ Successor(id) \in TaskIds /\ Successor(id) # id
          /\ Previous(Successor(id)) = id
      BY <1>3, IdentityTypes, StageIdentity DEF CreatesNext
    <2>2. MayAppear(Successor(id))
      BY <1>1, <1>3, <2>1, SameOperator DEF MayAppear, Rooted, InTurn
    <2>3. tasks'[Successor(id)] = NewRow(inserted + 1, 0)
      BY <1>3, <2>1 DEF Accept
    <2> QED
      BY <1>3, <2>1, <2>2, <2>3, RowAppears DEF CreatesNext
  <1>4. ASSUME NEW t \in TaskIds, t # id, ~(CreatesNext(id) /\ t = Successor(id))
        PROVE  RowMoves(t)
    <2>1. tasks'[t] = tasks[t]
      BY <1>4 DEF Accept
    <2> QED
      BY <2>1, RowStays DEF Same, Tables
  <1>5. tasks' = [t \in TaskIds |-> tasks'[t]]
    BY DEF Accept
  <1> QED
    BY <1>2, <1>3, <1>4, <1>5 DEF TablesMove, Tables

LEMMA RejectMovesRows ==
  ASSUME Tables, NEW id \in TaskIds, tasks[id].status = "running", NEW outcome,
         Reject(id, outcome), claimed' = claimed
  PROVE  TablesMove
  <1> DEFINE d == DiagnosisOf(id)
  <1>1. RowMoves(id)
    <2>1. tasks'[id] = [Unleased(tasks[id], "failed") EXCEPT !.output = NoOutput]
      BY DEF Reject
    <2>2. DOMAIN tasks[id] = DOMAIN AbsentRow
      BY DEF Tables
    <2>3. /\ DOMAIN tasks'[id] = DOMAIN AbsentRow
          /\ tasks'[id].status = "failed" /\ tasks'[id].attempt = tasks[id].attempt
      BY <2>1, <2>2, UnleasedRow
    <2> QED
      BY <2>3, RowGoesOn DEF Same
  <1>2. d \in TaskIds /\ d.diagnosis
    BY IdentityTypes DEF DiagnosisOf, TaskIds
  <1>3. ASSUME d # id PROVE RowMoves(d)
    <2>1. CASE CreatesDiagnosis(id)
      <3>1. tasks'[d] = NewRow(inserted + 1, tasks[id].attempt)
        BY <1>2, <1>3, <2>1 DEF Reject
      <3> QED
        BY <1>2, <2>1, <3>1, RowAppears, DiagnosisMayAppear DEF CreatesDiagnosis
    <2>2. CASE ~CreatesDiagnosis(id) /\ ReopensDiagnosis(id)
      <3>1. tasks'[d] = Reopened(tasks[d], tasks[id].attempt)
        BY <1>2, <1>3, <2>2 DEF Reject
      <3>2. tasks[d].status # "absent"
        BY <2>2 DEF ReopensDiagnosis, CreatesDiagnosis
      <3>3. /\ DOMAIN tasks'[d] = DOMAIN AbsentRow
            /\ tasks'[d].status = "pending"
            /\ tasks'[d].attempt = tasks[d].attempt
        <4> DEFINE row == Unleased(tasks[d], "pending")
                   source == tasks[id].attempt
        <4>1. tasks'[d] = [row EXCEPT !.source_attempt = source, !.output = NoOutput]
          BY <3>1 DEF Reopened
        <4>2. /\ DOMAIN row = DOMAIN AbsentRow /\ row.status = "pending"
              /\ row.attempt = tasks[d].attempt
          BY <1>2, UnleasedRow DEF Tables
        <4> HIDE DEF row, source
        <4> QED
          BY <4>1, <4>2 DEF AbsentRow
      <3> QED
        BY <1>2, <3>2, <3>3, RowGoesOn DEF Same
    <2>3. CASE ~CreatesDiagnosis(id) /\ ~ReopensDiagnosis(id)
      <3>1. tasks'[d] = tasks[d]
        BY <1>2, <1>3, <2>3 DEF Reject
      <3> QED
        BY <1>2, <3>1, RowStays DEF Same, Tables
    <2> QED
      BY <2>1, <2>2, <2>3
  <1>4. ASSUME NEW t \in TaskIds, t # id, t # d PROVE RowMoves(t)
    <2>1. tasks'[t] = tasks[t]
      BY <1>4 DEF Reject
    <2> QED
      BY <2>1, RowStays DEF Same, Tables
  <1>5. tasks' = [t \in TaskIds |-> tasks'[t]]
    BY DEF Reject
  <1> QED
    BY <1>1, <1>3, <1>4, <1>5 DEF TablesMove, Tables

LEMMA ApplyMovesRows ==
  ASSUME Tables, NEW d \in TaskIds, ApplyDiagnosis(d)
  PROVE  TablesMove
  <1> DEFINE id == SourceOf(d)
  <1>1. claimed' = claimed
    BY DEF ApplyDiagnosis
  <1>2. CASE tasks' = tasks
    BY <1>1, <1>2, KeepsAbsent
  <1>3. CASE tasks' # tasks
    <2>1. /\ id \in TaskIds /\ tasks[id].status = "failed"
          /\ tasks' = [tasks EXCEPT ![id] =
                         [Unleased(tasks[id], "pending") EXCEPT !.output = NoOutput]]
      BY <1>3, IdentityTypes DEF ApplyDiagnosis
    <2>2. RowMoves(id)
      <3>1. /\ tasks'[id] = [Unleased(tasks[id], "pending") EXCEPT !.output = NoOutput]
            /\ DOMAIN tasks[id] = DOMAIN AbsentRow
        BY <2>1 DEF Tables
      <3>2. /\ DOMAIN tasks'[id] = DOMAIN AbsentRow
            /\ tasks'[id].status = "pending" /\ tasks'[id].attempt = tasks[id].attempt
        BY <3>1, UnleasedRow
      <3> QED
        BY <1>1, <2>1, <3>2, RowGoesOn DEF Same
    <2>3. ASSUME NEW t \in TaskIds, t # id PROVE RowMoves(t)
      BY <1>1, <2>1, <2>3, RowStays DEF Same, Tables
    <2> QED
      BY <1>1, <2>1, <2>2, <2>3 DEF TablesMove, Tables
  <1> QED
    BY <1>2, <1>3

LEMMA RecoverMovesRows ==
  ASSUME Tables, NEW force, Recover(force)
  PROVE  TablesMove
  <1>1. ASSUME NEW t \in TaskIds PROVE RowMoves(t)
    <2>1. \/ tasks'[t] = tasks[t]
          \/ tasks'[t] = Unleased(tasks[t], "pending") /\ tasks[t].status = "running"
      BY DEF Recover, Lapsed
    <2>2. DOMAIN tasks[t] = DOMAIN AbsentRow /\ claimed' = claimed
      BY DEF Recover, Tables
    <2>3. CASE tasks'[t] = tasks[t]
      BY <2>2, <2>3, RowStays DEF Same
    <2>4. CASE tasks'[t] = Unleased(tasks[t], "pending") /\ tasks[t].status = "running"
      <3>1. /\ DOMAIN tasks'[t] = DOMAIN AbsentRow
            /\ tasks'[t].status = "pending" /\ tasks'[t].attempt = tasks[t].attempt
        BY <2>2, <2>4, UnleasedRow
      <3> QED
        BY <2>2, <2>4, <3>1, RowGoesOn DEF Same
    <2> QED
      BY <2>1, <2>3, <2>4
  <1> QED
    BY <1>1 DEF Recover, TablesMove, Tables

LEMMA TickMovesRows ==
  ASSUME Tables, Tick
  PROVE  TablesMove
  <1>1. ASSUME NEW t \in TaskIds PROVE RowMoves(t)
    <2>1. \/ tasks'[t] = tasks[t]
          \/ tasks'[t] = [tasks[t] EXCEPT !.expires = @ - 1]
      BY DEF Tick
    <2>2. DOMAIN tasks[t] = {"status", "created", "attempt", "token", "worker",
                             "expires", "workspace", "source_attempt", "output"}
      BY DEF Tables, AbsentRow
    <2> QED
      BY <2>1, <2>2, RowStays DEF Tick, Same, Tables
  <1> QED
    BY <1>1 DEF Tick, TablesMove, Tables

LEMMA NextMovesRows ==
  ASSUME Tables, Next
  PROVE  TablesMove
  <1>1. CASE Environment \/ Abort
    BY <1>1, KeepsAbsent DEF Environment, CreateRun, BindEnvironment,
       RecordEnvironmentFailure, RequireGraphEnvironment, Abort, ClaimAborted,
       SubmissionAborted
  <1>2. CASE Claim
    BY <1>2, ClaimMovesRows DEF Claim
  <1>3. ASSUME NEW id \in TaskIds, Submit(id) PROVE TablesMove
    <2>1. PICK w \in Workers, token \in DOMAIN claimed[id] :
            \/ \E result \in Results(id) : Complete(id, w, token, result)
            \/ Fail(id, w, token)
      BY <1>3 DEF Submit
    <2>2. tasks[id].status = "running" /\ claimed' = claimed
      BY <2>1 DEF Complete, Fail, OwnedLease
    <2>3. CASE \E result : Accept(id, w, result)
      BY <2>2, <2>3, AcceptMovesRows
    <2>4. CASE \E outcome : Reject(id, outcome)
      BY <2>2, <2>4, RejectMovesRows
    <2> QED
      BY <2>1, <2>3, <2>4 DEF Complete, Fail
  <1> QED
    BY <1>1, <1>2, <1>3, DiscoverMovesRows, RenewMovesRows, ApplyMovesRows,
       RecoverMovesRows, TickMovesRows
    DEF Next

-----------------------------------------------------------------------------
(* The transactions of the older version alone, and reconcile *)

LEMMA DecidedMovesRows ==
  ASSUME Tables, NEW id \in TaskIds, tasks[id].status = "running",
         NEW s \in {"succeeded", "failed"}, claimed' = claimed,
         tasks' = [tasks EXCEPT ![id] = Unleased(tasks[id], s)]
  PROVE  TablesMove /\ tasks'[id].status = s
  <1>1. /\ tasks'[id] = Unleased(tasks[id], s)
        /\ DOMAIN tasks[id] = DOMAIN AbsentRow
    BY DEF Tables
  <1>2. /\ DOMAIN tasks'[id] = DOMAIN AbsentRow
        /\ tasks'[id].status = s /\ tasks'[id].attempt = tasks[id].attempt
    BY <1>1, UnleasedRow
  <1>3. RowMoves(id)
    BY <1>2, RowGoesOn DEF Same
  <1>4. ASSUME NEW t \in TaskIds, t # id PROVE RowMoves(t)
    BY <1>4, RowStays DEF Same, Tables
  <1> QED
    BY <1>2, <1>3, <1>4 DEF TablesMove, Tables

(* A bare result belongs to a row without a next stage. *)
LEMMA InterruptedCompleteKeeps ==
  ASSUME LegacyInv, NEW id \in TaskIds, NEW w, NEW token, NEW result,
         InterruptedComplete(id, w, token, result)
  PROVE  LegacyInv'
  <1>1. /\ tasks[id].status = "running" /\ ~id.diagnosis /\ claimed' = claimed
        /\ tasks' = [tasks EXCEPT ![id] = Unleased(tasks[id], "succeeded")]
        /\ bare' = [bare EXCEPT ![id] = result]
    BY DEF InterruptedComplete, OwnedLease
  <1>2. TablesMove /\ tasks'[id].status = "succeeded"
    BY <1>1, DecidedMovesRows DEF LegacyInv
  <1>3. \A t \in TaskIds : t # id => tasks'[t] = tasks[t] /\ bare'[t] = bare[t]
    BY <1>1 DEF LegacyInv, Tables
  <1>4. \A t \in TaskIds : ~t.diagnosis /\ t.stage # "integration" => Successor(t) \in TaskIds
    BY IdentityTypes
  <1>5. \A t \in TaskIds : tasks'[t].status # "absent" <=> tasks[t].status # "absent"
    BY <1>1, <1>2, <1>3
  <1>6. id.stage # "integration" => tasks'[Successor(id)].status = "absent"
    <2>1. id.stage # "integration" => tasks[Successor(id)].status = "absent"
      BY <1>1 DEF LegacyInv, AcceptedInOrder
    <2> QED
      BY <1>1, <1>4, <1>5, <2>1
  <1>7. Tables'
    BY <1>1, <1>2, TablesKept DEF LegacyInv, Tables
  <1>8. AcceptedInOrder'
    BY <1>1, <1>2, <1>3, <1>4, <1>5, <1>6 DEF LegacyInv, AcceptedInOrder
  <1>9. IndependentHandOver'
    BY <1>1, <1>3, <1>4, <1>5, <1>6 DEF LegacyInv, IndependentHandOver
  <1> QED
    BY <1>7, <1>8, <1>9 DEF LegacyInv

(* Whatever the event log lost, a producer it names is the last claim's. *)
LEMMA ProducerClaimedLast ==
  ASSUME Tables, NEW id \in TaskIds, ~id.diagnosis, Repairable(id)
  PROVE  Independent(id)
  <1>1. Producer(id) = claimed[id][tasks[id].attempt]
    BY DEF Repairable, Producer
  <1>2. bare[id].verdict = "PASS"
    BY DEF Repairable, ValidResult
  <1> QED
    BY <1>1 DEF Repairable, ValidResult, Independent, Tables

LEMMA ReconcileMovesRows ==
  ASSUME Tables, Reconcile
  PROVE  TablesMove
  <1> DEFINE repaired == MissingDiagnoses \cup {id \in MissingSuccessors : Repairable(id)}
             edge(id) == IF tasks[id].status = "failed" THEN DiagnosisOf(id)
                                                        ELSE Successor(id)
             rank(id) == Cardinality({o \in repaired : tasks[o].created <= tasks[id].created})
  <1>1. ASSUME NEW id \in repaired
        PROVE  /\ edge(id) \in TaskIds /\ tasks[edge(id)].status = "absent"
               /\ MayAppear(edge(id))
    <2>1. CASE id \in MissingDiagnoses
      BY <2>1, IdentityTypes, DiagnosisMayAppear DEF MissingDiagnoses
    <2>2. CASE id \in MissingSuccessors /\ Repairable(id)
      <3>1. /\ id \in TaskIds /\ ~id.diagnosis /\ id.stage # "integration"
            /\ tasks[id].status = "succeeded" /\ tasks[Successor(id)].status = "absent"
        BY <2>2 DEF MissingSuccessors, CreatesNext
      <3>2. Previous(Successor(id)) = id /\ Successor(id) \in TaskIds
        BY <3>1, IdentityTypes, StageIdentity
      <3>3. Independent(id)
        BY <2>2, <3>1, ProducerClaimedLast
      <3> QED
        BY <3>1, <3>2, <3>3, SameOperator DEF MayAppear, Rooted, InTurn
    <2> QED
      BY <2>1, <2>2
  <1>2. ASSUME NEW t \in TaskIds
        PROVE  \/ tasks'[t] = tasks[t]
               \/ /\ \E id \in repaired : edge(id) = t
                  /\ \E n, a : tasks'[t] = NewRow(n, a)
    <2> DEFINE id == CHOOSE id \in repaired : edge(id) = t
               n == inserted + rank(id)
               a == IF t.diagnosis THEN tasks[id].attempt ELSE 0
    <2>1. tasks'[t] = IF \E o \in repaired : edge(o) = t THEN NewRow(n, a) ELSE tasks[t]
      BY DEF Reconcile
    <2> HIDE DEF n, a
    <2> QED
      BY <2>1
  <1>3. claimed' = claimed /\ tasks' = [t \in TaskIds |-> tasks'[t]]
    BY DEF Reconcile
  <1> HIDE DEF repaired, edge
  <1>4. ASSUME NEW t \in TaskIds PROVE RowMoves(t)
    <2>1. CASE tasks'[t] = tasks[t]
      BY <1>3, <2>1, RowStays DEF Same, Tables
    <2>2. ASSUME NEW id \in repaired, edge(id) = t, NEW n, NEW a, tasks'[t] = NewRow(n, a)
          PROVE  RowMoves(t)
      BY <1>1, <1>3, <2>2, RowAppears
    <2> QED
      BY <1>2, <2>1, <2>2
  <1> QED
    BY <1>3, <1>4 DEF TablesMove, Tables

LEMMA LegacyNextKeeps ==
  ASSUME LegacyInv, [LegacyNext]_allVars
  PROVE  LegacyInv'
  <1>1. CASE TablesMove /\ bare' = bare
    BY <1>1, MovesKeep
  <1>2. Tables
    BY DEF LegacyInv
  <1>3. CASE Next /\ UNCHANGED legacy
    BY <1>1, <1>2, <1>3, NextMovesRows DEF legacy
  <1>4. ASSUME NEW w \in Workers, NEW term, NEW lost, InterruptedClaim(w, term, lost)
        PROVE  LegacyInv'
    BY <1>1, <1>2, <1>4, ClaimMovesRows DEF InterruptedClaim
  <1>5. ASSUME NEW id \in TaskIds, NEW w, NEW token, NEW result,
               InterruptedComplete(id, w, token, result)
        PROVE  LegacyInv'
    BY <1>5, InterruptedCompleteKeeps
  <1>6. ASSUME NEW id \in TaskIds, NEW w, NEW token, InterruptedFail(id, w, token)
        PROVE  LegacyInv'
    BY <1>1, <1>2, <1>6, DecidedMovesRows DEF InterruptedFail, OwnedLease, legacy
  <1>7. CASE Upgrade \/ UNCHANGED allVars
    BY <1>1, <1>2, <1>7, KeepsAbsent DEF Upgrade, allVars, vars, legacy
  <1>8. CASE Reconcile
    BY <1>1, <1>2, <1>8, ReconcileMovesRows DEF Reconcile, legacy
  <1> QED
    BY <1>3, <1>4, <1>5, <1>6, <1>7, <1>8 DEF LegacyNext

LEMMA LegacyInitKeeps ==
  ASSUME LegacyInit
  PROVE  LegacyInv
  <1>1. /\ tasks = [id \in TaskIds |-> AbsentRow]
        /\ claimed = [id \in TaskIds |-> << >>]
        /\ bare = [id \in TaskIds |-> NoResult]
    BY DEF LegacyInit, Init
  <1>2. AbsentRow.status = "absent" /\ AbsentRow.attempt = 0
    BY DEF AbsentRow
  <1>3. Tables
    BY <1>1, <1>2 DEF Tables
  <1>4. AcceptedInOrder
    BY <1>1, <1>2, IdentityTypes DEF AcceptedInOrder
  <1>5. IndependentHandOver
    BY <1>1 DEF IndependentHandOver
  <1> QED
    BY <1>3, <1>4, <1>5 DEF LegacyInv

(* No stage of any row begins on a result that its own producer validated, *)
(* whatever the older version interrupted, whatever of the event log it    *)
(* lost, and however often the main agent reconciles.                      *)
THEOREM HandOversAreIndependent == LegacySpec => []IndependentHandOver
  <1>1. LegacyInit => LegacyInv
    BY LegacyInitKeeps
  <1>2. LegacyInv /\ [LegacyNext]_allVars => LegacyInv'
    BY LegacyNextKeeps
  <1>3. LegacyInv => IndependentHandOver
    BY DEF LegacyInv
  <1> QED
    BY <1>1, <1>2, <1>3, PTL DEF LegacySpec

(* What reconcile repairs is of the environment the run is bound to.       *)
LEMMA MovesKeepBound ==
  ASSUME BoundWithRows, TablesMove, run' = run
  PROVE  BoundWithRows'
  <1>1. ASSUME NEW t \in TaskIds, tasks'[t].status # "absent"
        PROVE  tasks[t].status # "absent" \/ Rooted(t)
    BY <1>1 DEF TablesMove, RowMoves, MayAppear
  <1>2. Unborn'
    BY <1>1 DEF BoundWithRows, Unborn, Rooted
  <1>3. ASSUME NEW t \in TaskIds, tasks'[t].status # "absent", run.mode = "real"
        PROVE  t.key.fingerprint = run.fingerprint /\ run.fingerprint # NoFingerprint
    BY <1>1, <1>3 DEF BoundWithRows, Rooted
  <1> QED
    BY <1>2, <1>3 DEF BoundWithRows

(* Every task of a real run is of the environment now bound, also in a     *)
(* database that an older version wrote and reconcile repaired.            *)
THEOREM RepairsHaveOneEnvironment == LegacySpec => []OneEnvironment
  <1> DEFINE Inv == LegacyInv /\ run \in Runs /\ BoundWithRows
  <1>1. LegacyInit => Inv
    BY LegacyInitKeeps DEF LegacyInit, Init, BoundWithRows, Unborn, AbsentRow, NoRun, Runs
  <1>2. ASSUME Inv, [LegacyNext]_allVars PROVE Inv'
    <2>1. Tables
      BY <1>2 DEF LegacyInv
    <2>2. CASE TablesMove /\ run' = run
      BY <1>2, <2>2, LegacyNextKeeps, MovesKeepBound
    <2>3. CASE Environment
      BY <1>2, <2>3, LegacyNextKeeps, RunStaysTyped, EnvironmentKeepsBound
    <2>4. CASE Next /\ ~Environment
      BY <2>1, <2>2, <2>4, NextMovesRows
      DEF Next, DiscoverOperator, Claim, ClaimReady, RenewLease, Submit, Complete, Fail,
          ApplyDiagnosis, Recover, Abort, ClaimAborted, SubmissionAborted, Tick
    <2>5. ASSUME NEW w \in Workers, NEW term, NEW lost, InterruptedClaim(w, term, lost)
          PROVE  Inv'
      <3>1. ClaimReady(w, "any", 1, term)
        BY <2>5 DEF InterruptedClaim
      <3>2. TablesMove
        BY <2>1, <3>1, ClaimMovesRows
      <3> QED
        BY <2>2, <3>1, <3>2 DEF ClaimReady
    <2>6. ASSUME NEW id \in TaskIds, NEW w, NEW token, NEW result,
                 \/ InterruptedComplete(id, w, token, result)
                 \/ InterruptedFail(id, w, token)
          PROVE  Inv'
      BY <2>1, <2>2, <2>6, DecidedMovesRows DEF InterruptedComplete, InterruptedFail, OwnedLease
    <2>7. CASE Upgrade \/ UNCHANGED allVars
      BY <2>1, <2>2, <2>7, KeepsAbsent DEF Upgrade, allVars, vars
    <2>8. CASE Reconcile
      BY <2>1, <2>2, <2>8, ReconcileMovesRows DEF Reconcile
    <2> QED
      BY <1>2, <2>3, <2>4, <2>5, <2>6, <2>7, <2>8 DEF LegacyNext
  <1>3. Inv => OneEnvironment
    BY DEF BoundWithRows, OneEnvironment
  <1> QED
    BY <1>1, <1>2, <1>3, PTL DEF LegacySpec
=============================================================================
