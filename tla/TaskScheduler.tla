--------------------------- MODULE TaskScheduler ---------------------------
(***************************************************************************)
(* The persistent scheduler of operator adaptation work                    *)
(* (src/engine/scheduler.py) with the gate on worker results               *)
(* (src/engine/result_validation.py), for one adaptation run.              *)
(*                                                                         *)
(* Every public method of TaskScheduler runs in one IMMEDIATE SQLite       *)
(* transaction, so each is one action here; a call the code rejects with   *)
(* an exception rolls back and is a step the guard does not allow.  Files  *)
(* are not rolled back: two actions stand for a transaction that dies      *)
(* after it wrote an attempt directory or a manifest.                      *)
(*                                                                         *)
(* Data that is abstracted: an operator specification is its name and the  *)
(* environment fingerprint it references; a lease deadline is kept as its  *)
(* distance from time.time(), so that Tick moves every deadline closer; a  *)
(* lease token is the ordinal of the claim that minted it, so that tokens  *)
(* of one row differ as random tokens do.                                  *)
(***************************************************************************)
EXTENDS Integers, Sequences, FiniteSets

CONSTANTS
  Names,          \* what identifies an operator beside its environment
  Fingerprints,   \* digests of environment_fingerprint.txt
  NoFingerprint,
  Workers,        \* worker processes
  NoWorker,
  Validators,     \* authors of validation reports, producers among them
  Modes,          \* the evidence modes runs are created with
  GraphDriven,    \* whether the graph runner drives the run
  LeaseTerms,     \* the values of lease_seconds
  ClaimLimits,    \* the values of limit
  ClaimStages,    \* the stage filters of claim; "any" stands for None
  Faults,         \* which file-system and process faults occur
  MaxAttempt,     \* bound: a row with this many claims is not claimed again
  MaxWorkspaces   \* bound: an aborted claim leaves no directory beyond it

ASSUME NullAssumption ==
  /\ NoFingerprint \notin Fingerprints
  /\ NoWorker \notin Workers

ASSUME InputAssumption ==
  /\ Modes \subseteq {"real", "simulation"}
  /\ GraphDriven \in BOOLEAN
  /\ LeaseTerms \subseteq Nat \ {0}
  /\ ClaimLimits \subseteq Nat \ {0}
  /\ ClaimStages \subseteq {"any", "torch", "xpu", "integration", "diagnosis"}

(* "claim", "PASS", "FAILED": a claim dies after it made a directory, a *)
(* submission after it wrote that manifest; "kept": writing one raises. *)
ASSUME FaultAssumption == Faults \subseteq {"claim", "PASS", "FAILED", "kept"}

ASSUME BoundAssumption == MaxAttempt \in Nat /\ MaxWorkspaces \in Nat

VARIABLES
  run,       \* the row of table runs
  tasks,     \* table tasks: a row per pipeline stage and per diagnosis
  inserted,  \* how many task rows were inserted: orders created_at
  claimed,   \* the workers of a row's task_claimed events, in order
  applied,   \* the diagnosis_applied events of a diagnosis row
  disk       \* the manifest outcome of each attempt directory of a row

vars == <<run, tasks, inserted, claimed, applied, disk>>

-----------------------------------------------------------------------------
(* Identities *)

Stages == {"torch", "xpu", "integration"}

Keys == [name : Names, fingerprint : Fingerprints \cup {NoFingerprint}]

TaskIds == [key : Keys, stage : Stages, diagnosis : BOOLEAN]

DiagnosisOf(id) == [id EXCEPT !.diagnosis = TRUE]

SourceOf(id) == [id EXCEPT !.diagnosis = FALSE]

StageBefore(s) == IF s = "integration" THEN "xpu" ELSE "torch"

Previous(id) == [id EXCEPT !.stage = StageBefore(id.stage)]

StageAfter(s) == IF s = "torch" THEN "xpu" ELSE "integration"

Successor(id) == [id EXCEPT !.stage = StageAfter(id.stage)]

(* The stage column: a diagnosis row has a stage of its own. *)
StageColumn(id) == IF id.diagnosis THEN "diagnosis" ELSE id.stage

NextActions == {"REDISCOVER_OPERATOR", "DISPATCH_TORCH_FIX",
                "DISPATCH_XPU_FIX", "RETRY", "BLOCKED"}

-----------------------------------------------------------------------------
(* Rows *)

NoOutput == [worker |-> NoWorker, attempt |-> 0, next_action |-> "NONE"]

AbsentRow == [status |-> "absent", created |-> 0, attempt |-> 0,
              token |-> 0, worker |-> NoWorker, expires |-> 0,
              workspace |-> 0, source_attempt |-> 0, output |-> NoOutput]

NewRow(n, sourceAttempt) ==
  [AbsentRow EXCEPT !.status = "pending", !.created = n,
                    !.source_attempt = sourceAttempt]

(* A row whose status changes to s: every such UPDATE clears the lease. *)
Unleased(row, s) ==
  [row EXCEPT !.status = s, !.token = 0, !.worker = NoWorker, !.expires = 0]

Lapsed(row) == row.status = "running" /\ row.expires <= 0

EnvironmentRequired ==
  run.mode # "simulation" \/ run.required \/ run.graph

EnvironmentReadyFor(key) ==
  /\ run.status = "ENVIRONMENT_READY"
  /\ run.fingerprint # NoFingerprint
  /\ key.fingerprint = run.fingerprint

-----------------------------------------------------------------------------
(* The run and its environment *)

NoRun == [mode |-> "real", required |-> FALSE, graph |-> FALSE,
          artifacts |-> FALSE, status |-> "absent",
          fingerprint |-> NoFingerprint]

Init ==
  /\ run = NoRun
  /\ tasks = [id \in TaskIds |-> AbsentRow]
  /\ inserted = 0
  /\ claimed = [id \in TaskIds |-> << >>]
  /\ applied = [id \in TaskIds |-> {}]
  /\ disk = [id \in TaskIds |-> << >>]

(* An existing run is returned unchanged.  A real run always requires an *)
(* environment and has an artifact root; the caller of a simulation      *)
(* chooses.                                                              *)
CreateRun(mode, required, artifacts) ==
  /\ run.status = "absent"
  /\ mode = "real" => required /\ artifacts
  /\ run' = [NoRun EXCEPT
               !.mode = mode, !.required = required, !.artifacts = artifacts,
               !.status = IF mode = "real" THEN "WAITING_FOR_ENVIRONMENT"
                                           ELSE "running"]
  /\ UNCHANGED <<tasks, inserted, claimed, applied, disk>>

(* Defect: a rebind is not compared with the proof bound before. *)
BugMayBind(fingerprint) == fingerprint \in Fingerprints

(* Another fingerprint is refused once the run has tasks. *)
MayBind(fingerprint) ==
  run.fingerprint \in {NoFingerprint, fingerprint}
    \/ \A id \in TaskIds : tasks[id].status = "absent"

(* A proof is accepted when its checks all pass (ready) and its evidence *)
(* mode satisfies the run; the evidence digest becomes the fingerprint.  *)
BindEnvironment(mode, ready, fingerprint) ==
  /\ run.status # "absent"
  /\ run.mode = "real" => mode = "real"
  /\ ready
  /\ MayBind(fingerprint)
  /\ run' = [run EXCEPT !.status = "ENVIRONMENT_READY",
                        !.fingerprint = fingerprint]
  /\ UNCHANGED <<tasks, inserted, claimed, applied, disk>>

(* The accepted proof, and with it the fingerprint, stays in the row. *)
RecordEnvironmentFailure ==
  /\ run.status # "absent"
  /\ run' = [run EXCEPT !.status = "ENVIRONMENT_FAILED"]
  /\ UNCHANGED <<tasks, inserted, claimed, applied, disk>>

(* record_graph_transition with the one key the scheduler reads. *)
RequireGraphEnvironment ==
  /\ GraphDriven
  /\ run.status # "absent"
  /\ run' = [run EXCEPT !.graph = TRUE]
  /\ UNCHANGED <<tasks, inserted, claimed, applied, disk>>

(* A known operator returns its torch row unchanged. *)
DiscoverOperator(key) ==
  LET id == [key |-> key, stage |-> "torch", diagnosis |-> FALSE]
  IN /\ run.status # "absent"
     /\ EnvironmentRequired => EnvironmentReadyFor(key)
     /\ tasks[id].status = "absent"
     /\ tasks' = [tasks EXCEPT ![id] = NewRow(inserted + 1, 0)]
     /\ inserted' = inserted + 1
     /\ UNCHANGED <<run, claimed, applied, disk>>

-----------------------------------------------------------------------------
(* Claims and leases *)

(* Defect: diagnoses wait for the environment as stages do. *)
BugDepsSucceeded(ts, id) ==
  /\ EnvironmentRequired => EnvironmentReadyFor(id.key)
  /\ \/ id.diagnosis \/ id.stage = "torch"
     \/ ts[Previous(id)].status = "succeeded"

DepsSucceeded(ts, id) ==
  id.diagnosis
    \/ /\ EnvironmentRequired => EnvironmentReadyFor(id.key)
       /\ id.stage = "torch" \/ ts[Previous(id)].status = "succeeded"

(* Defect: a claim looks at the queue only. *)
BugRequeued == tasks

(* claim_ready first returns every lapsed row to the queue. *)
Requeued ==
  [id \in TaskIds |->
     IF Lapsed(tasks[id]) THEN Unleased(tasks[id], "pending") ELSE tasks[id]]

Claimable(ts, stage) ==
  {id \in TaskIds : /\ ts[id].status = "pending"
                    /\ stage \in {"any", StageColumn(id)}
                    /\ DepsSucceeded(ts, id)
                    /\ ts[id].attempt < MaxAttempt}

(* The first limit members of ids in the order of created_at. *)
Oldest(ts, ids, limit) ==
  {id \in ids :
     Cardinality({o \in ids : ts[o].created < ts[id].created}) < limit}

(* Defect: directories are named after the attempt, even if one exists. *)
BugFreshWorkspace(id) == IF run.artifacts THEN tasks[id].attempt + 1 ELSE 0

(* allocate_attempt makes the first attempt directory that does not exist. *)
FreshWorkspace(id) == IF run.artifacts THEN Len(disk[id]) + 1 ELSE 0

Leased(row, w, term, token, workspace) ==
  [row EXCEPT !.status = "running", !.attempt = @ + 1, !.token = token,
              !.worker = w, !.expires = term, !.workspace = workspace]

(* (A real run that an older version left without a root for artifacts is  *)
(* given one here; create_run makes none, so no run of this model is.)     *)
ClaimReady(w, stage, limit, term) ==
  LET queue == Requeued
      picked == Oldest(queue, Claimable(queue, stage), limit)
  IN /\ tasks' = [id \in TaskIds |->
           IF id \in picked
           THEN Leased(queue[id], w, term, Len(claimed[id]) + 1,
                       FreshWorkspace(id))
           ELSE queue[id]]
     /\ claimed' = [id \in TaskIds |->
           IF id \in picked THEN Append(claimed[id], w) ELSE claimed[id]]
     /\ disk' = [id \in TaskIds |->
           IF id \in picked /\ run.artifacts THEN Append(disk[id], "open")
                                             ELSE disk[id]]
     /\ UNCHANGED <<run, inserted, applied>>

(* A claim that dies after it made an attempt directory: the rows roll back. *)
ClaimAborted(stage) ==
  /\ "claim" \in Faults
  /\ run.artifacts
  /\ LET queue == Requeued
     IN \E id \in Oldest(queue, Claimable(queue, stage), 1) :
          /\ Len(disk[id]) < MaxWorkspaces
          /\ disk' = [disk EXCEPT ![id] = Append(@, "open")]
  /\ UNCHANGED <<run, tasks, inserted, claimed, applied>>

(* Defect: any token the row ever had will do. *)
BugOwnedByAnyToken(id, w, token) ==
  /\ token \in DOMAIN claimed[id] /\ claimed[id][token] = w
  /\ tasks[id].status = "running"
  /\ tasks[id].expires > 0

(* Defect: expiry is left to the next claim to notice. *)
BugOwnedAfterExpiry(id, w, token) ==
  /\ token \in DOMAIN claimed[id] /\ claimed[id][token] = w
  /\ tasks[id].status = "running"
  /\ tasks[id].token = token
  /\ tasks[id].worker = w

(* The caller presents the token of a claim it once made. *)
OwnedLease(id, w, token) ==
  /\ token \in DOMAIN claimed[id] /\ claimed[id][token] = w
  /\ tasks[id].status = "running"
  /\ tasks[id].token = token
  /\ tasks[id].worker = w
  /\ tasks[id].expires > 0

RenewLease(id, w, token, term) ==
  /\ OwnedLease(id, w, token)
  /\ tasks' = [tasks EXCEPT ![id].expires = term]
  /\ UNCHANGED <<run, inserted, claimed, applied, disk>>

-----------------------------------------------------------------------------
(* Results *)

(* What a worker may submit for id: the identity fields it copied from its *)
(* claim or from an earlier one, the directory its evidence lies in, the   *)
(* author of the validation report and a diagnosis' next action.           *)
Results(id) ==
  [verdict : {"PASS", "FAIL"},
   attempt : {tasks[id].attempt, tasks[id].attempt - 1},
   workspace : {tasks[id].workspace, tasks[id].workspace - 1},
   fingerprint : {run.fingerprint, NoFingerprint},
   validator : Validators,
   next_action : IF id.diagnosis THEN NextActions \cup {"NONE"} ELSE {"NONE"}]

ValidResult(id, result, w) ==
  /\ result.verdict = "PASS"
  /\ result.attempt = tasks[id].attempt
  /\ result.fingerprint = run.fingerprint
  /\ ~(run.mode = "simulation" /\ run.required)
  /\ (run.mode = "real" \/ run.graph) =>
       /\ run.fingerprint # NoFingerprint
       /\ ~id.diagnosis => run.status = "ENVIRONMENT_READY"
  /\ tasks[id].workspace # 0 => result.workspace = tasks[id].workspace
  /\ IF id.diagnosis THEN result.next_action \in NextActions
                     ELSE result.validator # w

(* Defect: the manifest goes to the directory numbered like the attempt. *)
BugRecorded(id, outcome) ==
  IF tasks[id].workspace = 0 \/ outcome = "kept"
  THEN disk
  ELSE [disk EXCEPT ![id][tasks[id].attempt] = outcome]

(* _record_attempt; outcome "kept" is a registration that raised. *)
Recorded(id, outcome) ==
  IF tasks[id].workspace = 0 \/ outcome = "kept"
  THEN disk
  ELSE [disk EXCEPT ![id][tasks[id].workspace] = outcome]

Accepted(row, w, result) ==
  [Unleased(row, "succeeded") EXCEPT
     !.output = [worker |-> w, attempt |-> row.attempt,
                 next_action |-> result.next_action]]

(* Defect: only torch hands on to a next stage. *)
BugCreatesNext(id) ==
  /\ ~id.diagnosis /\ id.stage = "torch"
  /\ tasks[Successor(id)].status = "absent"

CreatesNext(id) ==
  /\ ~id.diagnosis /\ id.stage # "integration"
  /\ tasks[Successor(id)].status = "absent"

Accept(id, w, result) ==
  /\ tasks' = [t \in TaskIds |->
       IF t = id THEN Accepted(tasks[id], w, result)
       ELSE IF CreatesNext(id) /\ t = Successor(id) THEN NewRow(inserted + 1, 0)
       ELSE tasks[t]]
  /\ inserted' = IF CreatesNext(id) THEN inserted + 1 ELSE inserted
  /\ disk' = Recorded(id, "PASS")

(* _ensure_diagnosis: a row per source, reopened by a later failed attempt. *)
CreatesDiagnosis(id) ==
  ~id.diagnosis /\ tasks[DiagnosisOf(id)].status = "absent"

(* Defect: an existing diagnosis row is taken as it is. *)
BugReopensDiagnosis(id) == FALSE /\ ~CreatesDiagnosis(id)

ReopensDiagnosis(id) ==
  /\ ~id.diagnosis /\ ~CreatesDiagnosis(id)
  /\ tasks[DiagnosisOf(id)].source_attempt < tasks[id].attempt

(* Defect: the reopened row keeps the input of the earlier failure. *)
BugReopened(row, sourceAttempt) ==
  IF sourceAttempt = 0 THEN row
  ELSE [Unleased(row, "pending") EXCEPT !.output = NoOutput]

Reopened(row, sourceAttempt) ==
  [Unleased(row, "pending") EXCEPT !.source_attempt = sourceAttempt,
                                   !.output = NoOutput]

Reject(id, outcome) ==
  /\ tasks' = [t \in TaskIds |->
       IF t = id THEN [Unleased(tasks[id], "failed") EXCEPT !.output = NoOutput]
       ELSE IF t # DiagnosisOf(id) THEN tasks[t]
       ELSE IF CreatesDiagnosis(id)
            THEN NewRow(inserted + 1, tasks[id].attempt)
       ELSE IF ReopensDiagnosis(id) THEN Reopened(tasks[t], tasks[id].attempt)
       ELSE tasks[t]]
  /\ inserted' = IF CreatesDiagnosis(id) THEN inserted + 1 ELSE inserted
  /\ disk' = Recorded(id, outcome)

FailureOutcomes == {"FAILED"} \cup (Faults \cap {"kept"})

(* A submission is accepted, or recorded as a failure because the result  *)
(* is invalid or, though valid, cannot be registered on disk.             *)
Complete(id, w, token, result) ==
  /\ OwnedLease(id, w, token)
  /\ \/ ValidResult(id, result, w) /\ Accept(id, w, result)
     \/ /\ ValidResult(id, result, w) =>
             "kept" \in Faults /\ tasks[id].workspace # 0
        /\ \E outcome \in FailureOutcomes : Reject(id, outcome)
  /\ UNCHANGED <<run, claimed, applied>>

Fail(id, w, token) ==
  /\ OwnedLease(id, w, token)
  /\ \E outcome \in FailureOutcomes : Reject(id, outcome)
  /\ UNCHANGED <<run, claimed, applied>>

(* A submission that dies, or outlives its lease, after its manifest was  *)
(* written: complete checks the lease again and rolls back.               *)
SubmissionAborted(id, w, token, outcome) ==
  /\ OwnedLease(id, w, token)
  /\ outcome \in Faults
  /\ tasks[id].workspace # 0
  /\ outcome = "PASS" => \E result \in Results(id) : ValidResult(id, result, w)
  /\ disk' = Recorded(id, outcome)
  /\ UNCHANGED <<run, tasks, inserted, claimed, applied>>

-----------------------------------------------------------------------------
(* Diagnoses and recovery *)

Application(d) == <<tasks[d].source_attempt, tasks[d].attempt>>

(* An application already recorded returns the source row unchanged; the *)
(* three repair actions are rejected.                                    *)
ApplyDiagnosis(d) ==
  /\ d.diagnosis
  /\ tasks[d].status = "succeeded"
  /\ Application(d) \notin applied[d]
  /\ \/ /\ tasks[d].output.next_action = "RETRY"
        /\ tasks[SourceOf(d)].status = "failed"
        /\ tasks' = [tasks EXCEPT ![SourceOf(d)] =
                       [Unleased(@, "pending") EXCEPT !.output = NoOutput]]
     \/ /\ tasks[d].output.next_action = "BLOCKED"
        /\ UNCHANGED tasks
  /\ applied' = [applied EXCEPT ![d] = @ \cup {Application(d)}]
  /\ UNCHANGED <<run, inserted, claimed, disk>>

(* Defect: force forgets that only running rows are recovered. *)
BugRecover(force) ==
  /\ tasks' = [id \in TaskIds |->
       IF Lapsed(tasks[id]) \/ (force /\ tasks[id].status # "absent")
       THEN Unleased(tasks[id], "pending")
       ELSE tasks[id]]
  /\ UNCHANGED <<run, inserted, claimed, applied, disk>>

Recover(force) ==
  /\ tasks' = [id \in TaskIds |->
       IF Lapsed(tasks[id]) \/ (force /\ tasks[id].status = "running")
       THEN Unleased(tasks[id], "pending")
       ELSE tasks[id]]
  /\ UNCHANGED <<run, inserted, claimed, applied, disk>>

(* Wall-clock time passes: every running deadline comes one unit closer. *)
Tick ==
  /\ tasks' = [id \in TaskIds |->
       IF tasks[id].expires > 0 THEN [tasks[id] EXCEPT !.expires = @ - 1]
                                ELSE tasks[id]]
  /\ UNCHANGED <<run, inserted, claimed, applied, disk>>

-----------------------------------------------------------------------------
Claim ==
  \E w \in Workers, stage \in ClaimStages, limit \in ClaimLimits,
     term \in LeaseTerms : ClaimReady(w, stage, limit, term)

Submit(id) ==
  \E w \in Workers, token \in DOMAIN claimed[id] :
     \/ \E result \in Results(id) : Complete(id, w, token, result)
     \/ Fail(id, w, token)

Environment ==
  \/ \E mode \in Modes, required, artifacts \in BOOLEAN :
        CreateRun(mode, required, artifacts)
  \/ \E mode \in Modes, ready \in BOOLEAN, fingerprint \in Fingerprints :
        BindEnvironment(mode, ready, fingerprint)
  \/ RecordEnvironmentFailure
  \/ RequireGraphEnvironment

Abort ==
  \/ \E stage \in ClaimStages : ClaimAborted(stage)
  \/ \E id \in TaskIds : \E w \in Workers, token \in DOMAIN claimed[id],
        outcome \in {"PASS", "FAILED"} : SubmissionAborted(id, w, token, outcome)

Next ==
  \/ Environment
  \/ \E key \in Keys : DiscoverOperator(key)
  \/ Claim
  \/ \E id \in TaskIds : \E w \in Workers, token \in DOMAIN claimed[id],
        term \in LeaseTerms : RenewLease(id, w, token, term)
  \/ \E id \in TaskIds : Submit(id)
  \/ \E d \in TaskIds : ApplyDiagnosis(d)
  \/ \E force \in BOOLEAN : Recover(force)
  \/ Abort
  \/ Tick

Spec == Init /\ [][Next]_vars

-----------------------------------------------------------------------------
(* Types *)

Rows ==
  [status : {"absent", "pending", "running", "succeeded", "failed"},
   created : Nat, attempt : Nat, token : Nat, worker : Workers \cup {NoWorker},
   expires : Nat, workspace : Nat, source_attempt : Nat,
   output : [worker : Workers \cup {NoWorker}, attempt : Nat,
             next_action : NextActions \cup {"NONE"}]]

Runs ==
  [mode : {"real", "simulation"}, required : BOOLEAN, graph : BOOLEAN,
   artifacts : BOOLEAN, fingerprint : Fingerprints \cup {NoFingerprint},
   status : {"absent", "running", "WAITING_FOR_ENVIRONMENT",
             "ENVIRONMENT_READY", "ENVIRONMENT_FAILED"}]

(* Every table keeps the columns its schema and the dataclasses of         *)
(* contracts.py give it, whatever the workers submit.                      *)
TypeOK ==
  /\ run \in Runs
  /\ tasks \in [TaskIds -> Rows]
  /\ inserted \in Nat
  /\ claimed \in [TaskIds -> Seq(Workers)]
  /\ applied \in [TaskIds -> SUBSET (Nat \X Nat)]
  /\ disk \in [TaskIds -> Seq({"open", "PASS", "FAILED"})]

-----------------------------------------------------------------------------
(* Safety *)

(* A diagnosis is open until it concludes and its conclusion is applied. *)
OpenDiagnosis(d) ==
  /\ d.diagnosis
  /\ tasks[d].status # "absent"
  /\ Application(d) \notin applied[d] \/ tasks[d].status # "succeeded"

(* An open diagnosis is about the failure its source is in: the same       *)
(* attempt, still failed.  Nothing in apply_diagnosis compares the         *)
(* attempts; this is what makes a RETRY sound.                             *)
DiagnosisTracksFailure ==
  \A d \in TaskIds : OpenDiagnosis(d) =>
    /\ tasks[SourceOf(d)].status = "failed"
    /\ tasks[SourceOf(d)].attempt = tasks[d].source_attempt

(* The pipeline has no missing and no premature edge: a stage has a row    *)
(* exactly when the stage before it succeeded, and a failed stage has a    *)
(* diagnosis.  So reconcile has nothing to create in a run this code made. *)
NoMissingEdge ==
  \A id \in TaskIds : ~id.diagnosis =>
    /\ id.stage # "torch" =>
         (tasks[id].status # "absent" <=> tasks[Previous(id)].status = "succeeded")
    /\ tasks[id].status = "failed" => tasks[DiagnosisOf(id)].status # "absent"

(* The attempt of a row counts the claims in the event log, and a lease    *)
(* carries the token and the worker of the last of them.                   *)
LeaseOfLastClaim ==
  \A id \in TaskIds :
    /\ tasks[id].attempt = Len(claimed[id])
    /\ IF tasks[id].status = "running"
       THEN /\ tasks[id].attempt > 0
            /\ tasks[id].token = tasks[id].attempt
            /\ tasks[id].worker = claimed[id][tasks[id].attempt]
       ELSE tasks[id].token = 0 /\ tasks[id].expires = 0
    /\ tasks[id].status = "absent" => tasks[id].attempt = 0

(* An accepted result is that of the last claim: its producer and attempt  *)
(* are the ones of the last task_claimed event, and its attempt directory  *)
(* holds the manifest of a PASS whatever aborted submissions wrote before. *)
AcceptedFromLastClaim ==
  \A id \in TaskIds : tasks[id].status = "succeeded" =>
    /\ tasks[id].output.attempt = Len(claimed[id])
    /\ tasks[id].output.worker = claimed[id][Len(claimed[id])]
    /\ run.artifacts => disk[id][tasks[id].workspace] = "PASS"

(* One environment per real run: whatever failures and rebinds happened,   *)
(* every task was discovered in the environment now bound.                 *)
OneEnvironment ==
  run.mode = "real" =>
    \A id \in TaskIds :
      tasks[id].status # "absent" => id.key.fingerprint = run.fingerprint

(* No two claims of a row share an attempt directory, even when claims     *)
(* that rolled back left directories behind: a live claim owns the last    *)
(* directory, and no directory is older than the claim that uses it.       *)
WorkspacePerClaim ==
  run.artifacts =>
    \A id \in TaskIds :
      /\ tasks[id].attempt <= tasks[id].workspace
      /\ tasks[id].workspace <= Len(disk[id])
      /\ tasks[id].expires > 0 => tasks[id].workspace = Len(disk[id])

-----------------------------------------------------------------------------
(* Action properties *)

(* A submission decides at most the claim that is current: manifests of    *)
(* the other attempts stay as they were left, and directories never go.    *)
PastAttemptsFrozen ==
  [][\A id \in TaskIds : \A n \in DOMAIN disk[id] :
       /\ n \in DOMAIN disk'[id]
       /\ n # tasks[id].workspace => disk'[id][n] = disk[id][n]]_vars

(* An accepted stage is final, and no step takes an attempt back.          *)
SucceededIsFinal ==
  [][\A id \in TaskIds :
       /\ tasks'[id].attempt >= tasks[id].attempt
       /\ ~id.diagnosis /\ tasks[id].status = "succeeded"
            => tasks'[id] = tasks[id]]_vars

(* A failed stage returns to the queue only by a RETRY concluded for that  *)
(* very attempt and consumed by that step, so one diagnosis requeues once. *)
RetryConsumesDiagnosis ==
  [][\A id \in TaskIds :
       ~id.diagnosis /\ tasks[id].status = "failed" /\ tasks'[id].status # "failed"
       => LET d == DiagnosisOf(id)
          IN /\ tasks'[id].status = "pending"
             /\ tasks[d].status = "succeeded"
             /\ tasks[d].output.next_action = "RETRY"
             /\ tasks[d].source_attempt = tasks[id].attempt
             /\ applied'[d] = applied[d] \cup {Application(d)}
             /\ applied'[d] # applied[d]]_vars

(* A decision is taken only by the worker of the last claim while its      *)
(* lease is live, and a stage is accepted only in a ready environment.     *)
DecidedByLiveLease ==
  [][\A id \in TaskIds :
       tasks'[id].status # tasks[id].status
         /\ tasks'[id].status \in {"succeeded", "failed"}
       => /\ tasks[id].status = "running"
          /\ tasks[id].expires > 0
          /\ tasks[id].worker = claimed[id][Len(claimed[id])]
          /\ (tasks'[id].status = "succeeded" /\ ~id.diagnosis /\ run.mode = "real")
             => run.status = "ENVIRONMENT_READY"]_vars

-----------------------------------------------------------------------------
(* The promise to each operator *)

Row(key, stage) == tasks[[key |-> key, stage |-> stage, diagnosis |-> FALSE]]

Position(key) ==
  IF Row(key, "torch").status = "absent" THEN "unknown"
  ELSE IF Row(key, "torch").status # "succeeded" THEN "torch"
  ELSE IF Row(key, "xpu").status # "succeeded" THEN "xpu"
  ELSE IF Row(key, "integration").status # "succeeded" THEN "integration"
  ELSE "done"

Condition(key) ==
  IF Position(key) \in {"unknown", "done"} THEN "idle"
  ELSE IF Row(key, Position(key)).status = "running" THEN "held"
  ELSE IF Row(key, Position(key)).status = "failed" THEN "rejected"
  ELSE "idle"

Conclusion(key) ==
  IF Condition(key) # "rejected" THEN "none"
  ELSE LET d == tasks[[key |-> key, stage |-> Position(key), diagnosis |-> TRUE]]
       IN IF d.status = "succeeded" THEN d.output.next_action ELSE "open"

Pipeline == INSTANCE OperatorPipeline WITH
  Operators <- Keys,
  position <- [key \in Keys |-> Position(key)],
  condition <- [key \in Keys |-> Condition(key)],
  conclusion <- [key \in Keys |-> Conclusion(key)]

(* Seen per operator, the scheduler's rows, leases, expiries, crashes,     *)
(* diagnoses and batch claims are steps of the abstract pipeline.          *)
RefinesPipeline == Pipeline!PipelineSpec

-----------------------------------------------------------------------------
(* Liveness, when time passes, workers poll and answer, and the main agent *)
(* applies the diagnoses it reads; none of it is the scheduler's own doing *)
(* and a run that lacks one of them just waits.                            *)

Fairness ==
  /\ WF_vars(Tick)
  /\ WF_vars(Claim)
  /\ \A id \in TaskIds : WF_vars(Submit(id)) /\ WF_vars(ApplyDiagnosis(id))

LiveSpec == Spec /\ Fairness

Exhausted(id) == tasks[id].attempt = MaxAttempt

(* A stage that is queued or under work, by a worker that may have died,   *)
(* gets decided as long as the environment stays ready: lapsed leases find *)
(* their way back to a worker.                                             *)
QueuedStageIsDecided ==
  \A id \in TaskIds : ~id.diagnosis =>
    (tasks[id].status \in {"pending", "running"}
       ~> \/ tasks[id].status \in {"succeeded", "failed"}
          \/ Exhausted(id) /\ tasks[id].status = "pending"
          \/ run.status # "ENVIRONMENT_READY")

(* A failed stage gets its conclusion whatever the environment does, and a *)
(* RETRY conclusion is always carried out.                                 *)
FailureIsConcluded ==
  \A id \in TaskIds : ~id.diagnosis =>
    LET d == DiagnosisOf(id) IN
    /\ tasks[id].status = "failed"
         ~> \/ tasks[d].status \in {"succeeded", "failed"}
            \/ Exhausted(d) /\ tasks[d].status = "pending"
    /\ tasks[d].status = "succeeded" /\ tasks[d].output.next_action = "RETRY"
         ~> tasks[id].status # "failed"
=============================================================================
