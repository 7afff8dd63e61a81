-------------------------- MODULE LegacyReconcile --------------------------
(***************************************************************************)
(* The scheduler over a database that an older version of it also wrote.   *)
(* That version committed every statement by itself, so that an            *)
(* interruption left a claim without its event, an accepted stage without  *)
(* the next one and without the name of its producer, or a failed stage    *)
(* without a diagnosis.  It did not apply diagnoses.  reconcile repairs     *)
(* the missing edges of accepted stages only from evidence that passes the *)
(* gate of today.                                                          *)
(*                                                                         *)
(* claimed and applied stay what happened; what the event log still tells  *)
(* of the claims is in unrecorded and unnumbered.                          *)
(***************************************************************************)
EXTENDS TaskScheduler

VARIABLES
  era,         \* "old" until the older version has run for the last time
  unrecorded,  \* the claims of a row whose event is missing
  unnumbered,  \* the claims of a row whose event names no attempt
  bare         \* the result of a row accepted without its next stage

legacy == <<era, unrecorded, unnumbered, bare>>

NoResult == [verdict |-> "NONE"]

LegacyInit ==
  /\ Init
  /\ era = "old"
  /\ unrecorded = [id \in TaskIds |-> {}]
  /\ unnumbered = [id \in TaskIds |-> {}]
  /\ bare = [id \in TaskIds |-> NoResult]

(* The older version claims a row; its event may be missing or bare. *)
InterruptedClaim(w, term, lost) ==
  /\ era = "old"
  /\ ClaimReady(w, "any", 1, term)
  /\ LET now(id) == {n \in {Len(claimed'[id])} : n > Len(claimed[id])}
     IN IF lost
        THEN /\ unrecorded' = [id \in TaskIds |-> unrecorded[id] \cup now(id)]
             /\ UNCHANGED unnumbered
        ELSE /\ unnumbered' = [id \in TaskIds |-> unnumbered[id] \cup now(id)]
             /\ UNCHANGED unrecorded
  /\ UNCHANGED <<era, bare>>

(* It took any success-shaped result and stopped before the next stage. *)
InterruptedComplete(id, w, token, result) ==
  /\ era = "old"
  /\ ~id.diagnosis
  /\ OwnedLease(id, w, token)
  /\ tasks' = [tasks EXCEPT ![id] = Unleased(@, "succeeded")]
  /\ bare' = [bare EXCEPT ![id] = result]
  /\ UNCHANGED <<run, inserted, claimed, applied, disk>>
  /\ UNCHANGED <<era, unrecorded, unnumbered>>

InterruptedFail(id, w, token) ==
  /\ era = "old"
  /\ ~id.diagnosis
  /\ OwnedLease(id, w, token)
  /\ tasks' = [tasks EXCEPT ![id] = Unleased(@, "failed")]
  /\ UNCHANGED <<run, inserted, claimed, applied, disk>>
  /\ UNCHANGED legacy

Upgrade ==
  /\ era = "old"
  /\ era' = "new"
  /\ UNCHANGED <<vars, unrecorded, unnumbered, bare>>

-----------------------------------------------------------------------------
(* reconcile *)

Events(id) == DOMAIN claimed[id] \ unrecorded[id]

(* Defect: the last event is taken for the claim of the result. *)
BugProducer(id) ==
  IF Events(id) = {} THEN NoWorker
  ELSE claimed[id][CHOOSE n \in Events(id) : \A e \in Events(id) : e <= n]

(* Who produced a result without a _submission: whoever an event names for *)
(* the row's attempt, or the last claim if there is one event per attempt. *)
Producer(id) ==
  LET n == tasks[id].attempt
  IN IF \/ n \in Events(id) \ unnumbered[id]
        \/ n > 0 /\ Cardinality(Events(id)) = n
     THEN claimed[id][n] ELSE NoWorker

(* Defect: a failed row whose claims are not in the event log is skipped. *)
BugMissingWithEvents ==
  {id \in TaskIds : /\ ~id.diagnosis /\ tasks[id].status = "failed"
                    /\ tasks[DiagnosisOf(id)].status = "absent"
                    /\ Events(id) # {}}

MissingDiagnoses ==
  {id \in TaskIds : /\ ~id.diagnosis /\ tasks[id].status = "failed"
                    /\ tasks[DiagnosisOf(id)].status = "absent"}

MissingSuccessors ==
  {id \in TaskIds : tasks[id].status = "succeeded" /\ CreatesNext(id)}

Repairable(id) ==
  Producer(id) # NoWorker /\ ValidResult(id, bare[id], Producer(id))

(* Rows are visited in the order they were created. *)
Reconcile ==
  LET repaired == MissingDiagnoses \cup {id \in MissingSuccessors : Repairable(id)}
      edge(id) == IF tasks[id].status = "failed" THEN DiagnosisOf(id)
                                                 ELSE Successor(id)
      rank(id) == Cardinality({o \in repaired : tasks[o].created <= tasks[id].created})
  IN /\ run.status # "absent"
     /\ tasks' = [t \in TaskIds |->
          IF \E id \in repaired : edge(id) = t
          THEN LET id == CHOOSE id \in repaired : edge(id) = t
               IN NewRow(inserted + rank(id), IF t.diagnosis THEN tasks[id].attempt ELSE 0)
          ELSE tasks[t]]
     /\ inserted' = inserted + Cardinality(repaired)
     /\ UNCHANGED <<run, claimed, applied, disk>>
     /\ UNCHANGED legacy

LegacyNext ==
  \/ /\ Next
     /\ era = "old" => applied' = applied
     /\ UNCHANGED legacy
  \/ \E w \in Workers, term \in LeaseTerms, lost \in BOOLEAN :
       InterruptedClaim(w, term, lost)
  \/ \E id \in TaskIds : \E w \in Workers, token \in DOMAIN claimed[id] :
       \/ \E result \in Results(id) : InterruptedComplete(id, w, token, result)
       \/ InterruptedFail(id, w, token)
  \/ Upgrade
  \/ era = "new" /\ Reconcile

allVars == <<vars, legacy>>

LegacySpec == LegacyInit /\ [][LegacyNext]_allVars

-----------------------------------------------------------------------------
(* A stage begins only after a result of the stage before it that somebody *)
(* other than its producer validated, also when the event log lost who the *)
(* producer was: the producer here is the one who really made the claim.   *)
IndependentHandOver ==
  \A id \in TaskIds :
    ~id.diagnosis /\ id.stage # "integration" /\ bare[id] # NoResult
      /\ tasks[Successor(id)].status # "absent"
    => /\ bare[id].verdict = "PASS"
       /\ bare[id].validator # claimed[id][Len(claimed[id])]

(* Every failed stage of a database in use by this version alone gets its  *)
(* diagnosis, when the main agent reconciles.                              *)
FailureIsDiagnosed ==
  \A id \in TaskIds : ~id.diagnosis =>
    (era = "new" /\ tasks[id].status = "failed"
       ~> tasks[DiagnosisOf(id)].status # "absent")

LegacyLive == LegacySpec /\ WF_allVars(era = "new" /\ Reconcile)
=============================================================================
