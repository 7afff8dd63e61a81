---------------------------- MODULE GraphDelivery ----------------------------
(***************************************************************************)
(* A graph walk of a scheduled run: the bridge to the scheduler            *)
(* (src/engine/graph_bridge.py), the nodes that go through it              *)
(* (src/operations/operators/operator_lifecycle.py) and the steps of       *)
(* src/runners/graph_runner.py that drive it up to the delivery receipt.   *)
(*                                                                         *)
(* The database, the journal of facts and the evidence on disk change at   *)
(* different moments: every transaction, journal line and check is a step  *)
(* of its own, walks are killed between any two of them, and workers,      *)
(* command-line calls and other walks act in between.                      *)
(*                                                                         *)
(* Data that is abstracted: the rows of an operator are their common       *)
(* progress; a fact is the gate snapshot its attempt started with, the     *)
(* environment it was recorded in and which facts it refers to that no     *)
(* newer one has replaced.  Nodes that the bridge does not look into       *)
(* (intake, scans, plan, budget, matrix) are left out: they succeed.       *)
(***************************************************************************)
EXTENDS Naturals, Sequences

CONSTANTS
  Walks,          \* processes of the graph runner
  Proofs,         \* attempt directories of environment proofs
  NoProof,
  Fingerprints,
  NoFingerprint,
  FingerprintOf,  \* the digest of each proof's environment_fingerprint.txt
  Ops,            \* operators
  GapOps,         \* those the gap classification reports
  ShimOps,        \* those the shim registry reports
  Fragile,        \* bound: evidence that may be damaged
  FaultBudget     \* bound: kills, damage, failures and command-line calls

ASSUME ProofAssumption ==
  /\ NoProof \notin Proofs /\ NoFingerprint \notin Fingerprints
  /\ FingerprintOf \in [Proofs -> Fingerprints]

ASSUME OperatorAssumption == GapOps \subseteq Ops /\ ShimOps \subseteq Ops

ASSUME BudgetAssumption == FaultBudget \in Nat

VARIABLES
  run,       \* the row of the run: status, environment and graph metadata
  rows,      \* the progress of each operator's rows
  journal,   \* the newest passing fact of each kind
  walk,      \* the processes
  damaged,   \* evidence that is not any more what was recorded
  receipt,   \* the newest delivery receipt on disk
  faults     \* how many of the budget have happened

vars == <<run, rows, journal, walk, damaged, receipt, faults>>

-----------------------------------------------------------------------------
(* States *)

Channels == {"gap", "shim"}   \* graph_discovery, graph_shim_discovery

Kinds == {"dispatch", "registry", "service", "accuracy", "baseline", "integration"}

FpOf(p) == IF p = NoProof THEN NoFingerprint ELSE FingerprintOf[p]

NoGate == [state |-> "none", fingerprint |-> NoFingerprint,
           rows |-> [o \in Ops |-> "unknown"]]

NoFact == [env |-> NoFingerprint, gate |-> NoGate, of |-> {}]

(* "on": which stages of a receipt were measured on which of its others.   *)
NoReceipt == [root |-> NoProof, files |-> NoProof, env |-> NoFingerprint,
              gate |-> NoGate, service |-> NoGate, accuracy |-> NoGate,
              integration |-> NoGate, baseline |-> NoGate, on |-> {}]

AtRest == [at |-> "idle", phase |-> "none", env |-> NoFingerprint, half |-> FALSE,
           queue |-> <<>>, todo |-> {}, gate |-> NoGate, of |-> {}, found |-> NoReceipt]

Init ==
  /\ run = [status |-> "required", bound |-> NoProof, accepted |-> NoProof,
            channel |-> [c \in Channels |-> "none"], delivery |-> "none"]
  /\ rows = [o \in Ops |-> "unknown"]
  /\ journal = [proof |-> NoProof, made |-> {}, facts |-> [k \in Kinds |-> NoFact]]
  /\ walk = [w \in Walks |-> AtRest]
  /\ damaged = {}
  /\ receipt = NoReceipt
  /\ faults = 0

(* Defect: the delivery compares and publishes outside of a transaction. *)
BugUnlocked(w) == TRUE

(* What other connections write waits for the transaction of a delivery. *)
Unlocked(w) == \A v \in Walks \ {w} : walk[v].phase \notin {"locked", "written"}

Fault == faults < FaultBudget /\ faults' = faults + 1

-----------------------------------------------------------------------------
(* The gate *)

EnvironmentReady ==
  /\ run.status = "ready"
  /\ run.accepted # NoProof
  /\ run.accepted \notin damaged

(* _environment_errors records that accepted evidence has changed. *)
Checked ==
  IF run.status = "ready" /\ run.accepted \in damaged
  THEN [run EXCEPT !.status = "failed"] ELSE run

GateErrors ==
  \/ ~EnvironmentReady
  \/ \E c \in Channels :
       run.channel[c] = "blocked" \/ (run.channel[c] = "ok" /\ c \in damaged)
  \/ \E o \in Ops : rows[o] = "failed" \/ (rows[o] = "done" /\ o \in damaged)

Discovered == {o \in Ops : rows[o] # "unknown"}

GateState ==
  IF GateErrors THEN "blocked"
  ELSE IF run.channel["gap"] = "none" \/ \E o \in Discovered : rows[o] # "done"
  THEN "waiting" ELSE "ready"

(* delivery_status; its token is a digest of all of this. *)
DeliveryStatus ==
  [state |-> GateState, fingerprint |-> FpOf(run.bound), rows |-> rows]

-----------------------------------------------------------------------------
(* The journal *)

(* A fact whose files are as recorded, of the environment of the walk. *)
Usable(k, env) ==
  journal.facts[k].env = env /\ env # NoFingerprint /\ k \notin damaged

UsableProof == journal.proof # NoProof /\ journal.proof \notin damaged

(* Defect: the newest proof is good for every walk. *)
BugUsableProofOf(env) == UsableProof

(* A walk that knows its environment takes no proof of another one. *)
UsableProofOf(env) == UsableProof /\ env \in {NoFingerprint, FpOf(journal.proof)}

Proven == IF UsableProof THEN FpOf(journal.proof) ELSE NoFingerprint

(* A newer fact of kind k: nothing refers to it yet. *)
Recorded(k, fact) ==
  [j \in Kinds |-> IF j = k THEN fact
                   ELSE [journal.facts[j] EXCEPT !.of = @ \ {k}]]

(* "damaged" is about the newest fact: its status file, and the report that *)
(* the verdict was read from.                                              *)
Record(k, fact) ==
  /\ journal' = [journal EXCEPT !.facts = Recorded(k, fact)]
  /\ damaged' = damaged \ {k}

-----------------------------------------------------------------------------
(* The process of a walk *)

NodeAfter == [dispatch |-> "shim", shim |-> "service", service |-> "accuracy",
              accuracy |-> "baseline", baseline |-> "integration",
              integration |-> "finish"]

At(w, node, phase) == walk[w].at = node /\ walk[w].phase = phase

Become(w, process) == walk' = [walk EXCEPT ![w] = process]

AtNode(w, node, env) ==
  [AtRest EXCEPT !.at = node, !.phase = "enter", !.env = env]

Go(w, node) == Become(w, AtNode(w, node, walk[w].env))

Exit(w) == Become(w, AtRest)

(* A new fact of kind k is not the one that running attempts refer to, nor *)
(* the one that a walk has collected.                                      *)
GoAfter(w, k, next) ==
  walk' = [v \in Walks |-> IF v = w THEN next
                           ELSE [walk[v] EXCEPT !.of = @ \ {k}]]

(* The bridge is opened, with a proof that is bound already to be bound    *)
(* again.                                                                  *)
Start(w, from) ==
  /\ walk[w] = AtRest /\ Unlocked(w)
  /\ run' = Checked
  /\ Become(w, [AtRest EXCEPT !.at = from,
       !.phase = IF run.bound = NoProof THEN "scope" ELSE "rebind",
       !.queue = IF run.bound = NoProof THEN <<>> ELSE <<run.bound>>])
  /\ UNCHANGED <<rows, journal, damaged, receipt>>

(* A bound proof the journal does not know is entered; then the proof of   *)
(* the journal is bound.                                                   *)
Scope(w) ==
  /\ walk[w].phase = "scope"
  /\ LET proof == IF ~UsableProof /\ run.bound # NoProof THEN run.bound
                  ELSE journal.proof
         usable == proof # NoProof /\ proof \notin damaged
     IN /\ journal' = [journal EXCEPT !.proof = proof]
        /\ Become(w, [walk[w] EXCEPT
             !.phase = IF usable THEN "bind" ELSE "enter",
             !.queue = IF usable THEN <<proof>> ELSE <<>>])
  /\ UNCHANGED <<run, rows, damaged, receipt, faults>>

-----------------------------------------------------------------------------
(* bind_environment *)

(* The scheduler keeps the fingerprint of existing tasks. *)
Refused(p) ==
  \/ p \in damaged
  \/ /\ run.bound # NoProof /\ FpOf(run.bound) # FpOf(p)
     /\ Discovered # {}

Binding(w, p) ==
  /\ walk[w].phase \in {"rebind", "bind"} /\ ~walk[w].half
  /\ p = Head(walk[w].queue)
  /\ Unlocked(w)

BindDone(w) ==
  Become(w, IF walk[w].phase = "rebind"
            THEN [AtRest EXCEPT !.at = walk[w].at, !.phase = "scope"]
            ELSE AtNode(w, walk[w].at, Proven))

BindRefused(w, p) ==
  /\ Binding(w, p) /\ Refused(p)
  /\ run' = [run EXCEPT !.status = "failed"]
  /\ Exit(w)
  /\ UNCHANGED <<rows, journal, damaged, receipt, faults>>

BindKnown(w, p) ==
  /\ Binding(w, p) /\ ~Refused(p)
  /\ run.status = "ready" /\ run.accepted = p
  /\ BindDone(w)
  /\ UNCHANGED <<run, rows, journal, damaged, receipt, faults>>

(* The first transaction: TaskScheduler.bind_environment. *)
BindRun(w, p) ==
  /\ Binding(w, p) /\ ~Refused(p)
  /\ ~(run.status = "ready" /\ run.accepted = p)
  /\ run' = [run EXCEPT !.status = "ready", !.bound = p]
  /\ Become(w, [walk[w] EXCEPT !.half = TRUE])
  /\ UNCHANGED <<rows, journal, damaged, receipt, faults>>

(* The second: the metadata of the graph. *)
BindGraph(w, p) ==
  /\ walk[w].half /\ walk[w].phase \in {"rebind", "bind"}
  /\ p = Head(walk[w].queue) /\ Unlocked(w)
  /\ run' = [run EXCEPT !.accepted = p]
  /\ BindDone(w)
  /\ UNCHANGED <<rows, journal, damaged, receipt, faults>>

Bind(w) ==
  \E p \in Proofs :
    BindRefused(w, p) \/ BindKnown(w, p) \/ BindRun(w, p) \/ BindGraph(w, p)

-----------------------------------------------------------------------------
(* The environment proof *)

ReuseProof(w) ==
  /\ At(w, "proof", "enter") /\ UsableProofOf(walk[w].env)
  /\ Go(w, "dispatch")
  /\ UNCHANGED <<run, rows, journal, damaged, receipt, faults>>

Prove(w, p) ==
  /\ At(w, "proof", "enter") /\ ~UsableProofOf(walk[w].env)
  /\ p \in Proofs \ journal.made
  /\ journal' = [journal EXCEPT !.proof = p, !.made = @ \cup {p}]
  /\ Become(w, [walk[w] EXCEPT !.at = "dispatch", !.phase = "bind", !.queue = <<p>>])
  /\ UNCHANGED <<run, rows, damaged, receipt, faults>>

(* A failed proof is the newest all the same, and is put to the bridge. *)
ProofFails(w) ==
  /\ At(w, "proof", "enter") /\ ~UsableProofOf(walk[w].env) /\ Unlocked(w)
  /\ Fault \/ (journal.made = Proofs /\ UNCHANGED faults)
  /\ journal' = [journal EXCEPT !.proof = NoProof]
  /\ run' = [run EXCEPT !.status = "failed"]
  /\ Exit(w)
  /\ UNCHANGED <<rows, damaged, receipt>>

-----------------------------------------------------------------------------
(* Dispatch: operators are discovered one transaction at a time; a report  *)
(* that is not dispatched whole is recorded as blocked.  "half" stands for *)
(* errors met so far.                                                      *)

ChannelOf(w) == IF walk[w].at = "dispatch" THEN "gap" ELSE "shim"

BeginDispatch(w, reported) ==
  /\ Unlocked(w)
  /\ run' = Checked
  /\ Become(w, [walk[w] EXCEPT !.phase = "dispatch", !.half = ~EnvironmentReady,
       !.todo = IF EnvironmentReady THEN reported ELSE {}])

DispatchGaps(w) ==
  /\ At(w, "dispatch", "enter")
  /\ BeginDispatch(w, GapOps)
  /\ UNCHANGED <<rows, journal, damaged, receipt, faults>>

(* The registry is a fact before its entries are dispatched. *)
RegisterShims(w) ==
  /\ At(w, "shim", "enter")
  /\ Record("registry", [NoFact EXCEPT !.env = walk[w].env])
  /\ GoAfter(w, "registry", [walk[w] EXCEPT !.phase = "registered"])
  /\ UNCHANGED <<run, rows, receipt, faults>>

DispatchShims(w) ==
  /\ At(w, "shim", "registered")
  /\ BeginDispatch(w, ShimOps)
  /\ UNCHANGED <<rows, journal, damaged, receipt, faults>>

Discover(w, o) ==
  /\ walk[w].phase = "dispatch" /\ o \in walk[w].todo /\ Unlocked(w)
  /\ LET ready == run.status = "ready"
     IN /\ rows' = IF ready /\ rows[o] = "unknown" THEN [rows EXCEPT ![o] = "open"] ELSE rows
        /\ Become(w, [walk[w] EXCEPT !.todo = @ \ {o}, !.half = @ \/ ~ready])
  /\ UNCHANGED <<run, journal, damaged, receipt, faults>>

(* An entry without the measured contract of an operator. *)
BadEntry(w, o) ==
  /\ walk[w].phase = "dispatch" /\ o \in walk[w].todo
  /\ Fault
  /\ Become(w, [walk[w] EXCEPT !.todo = @ \ {o}, !.half = TRUE])
  /\ UNCHANGED <<run, rows, journal, damaged, receipt>>

(* dispatch_status.json and the metadata that holds its digest. *)
Dispatched(c, blocked) ==
  /\ run' = [run EXCEPT !.channel[c] = IF blocked THEN "blocked" ELSE "ok"]
  /\ damaged' = damaged \ {c}
  /\ journal' = IF c = "gap" THEN [journal EXCEPT !.facts["dispatch"].of = {}]
                             ELSE journal

(* ... and the walks that have collected their facts hold an older one. *)
Outdated(c) == [v \in Walks |-> [walk[v] EXCEPT !.of = @ \ {c}]]

PublishDispatch(w) ==
  /\ walk[w].phase = "dispatch" /\ walk[w].todo = {} /\ Unlocked(w)
  /\ LET blocked == walk[w].half \/ run.status # "ready"
         next == IF walk[w].at = "dispatch"
                 THEN [walk[w] EXCEPT !.phase = "published", !.half = blocked]
                 ELSE IF blocked THEN AtRest ELSE AtNode(w, "service", walk[w].env)
     IN /\ Dispatched(ChannelOf(w), blocked)
        /\ walk' = [Outdated(ChannelOf(w)) EXCEPT ![w] = next]
  /\ UNCHANGED <<rows, receipt, faults>>

RecordDispatch(w) ==
  /\ At(w, "dispatch", "published")
  /\ IF walk[w].half
     THEN Record("dispatch", NoFact) /\ GoAfter(w, "dispatch", AtRest)
     ELSE /\ Record("dispatch", [NoFact EXCEPT !.env = walk[w].env, !.of = {"gap"}])
          /\ GoAfter(w, "dispatch", AtNode(w, "shim", walk[w].env))
  /\ UNCHANGED <<run, rows, receipt, faults>>

-----------------------------------------------------------------------------
(* Service and accuracy regressions, and the baseline frozen from them *)

Regressions == {"service", "accuracy"}

(* Defect: a regression is good for every later walk. *)
BugReusable(w, k) == Usable(k, walk[w].env)

(* What was measured before the operators were done certifies no delivery. *)
Reusable(w, k) == Usable(k, walk[w].env) /\ GateState # "ready"

ReuseRegression(w, k) ==
  /\ At(w, k, "enter") /\ Reusable(w, k) /\ Unlocked(w)
  /\ run' = Checked
  /\ Go(w, NodeAfter[k])
  /\ UNCHANGED <<rows, journal, damaged, receipt, faults>>

(* Also where a fact could be reused: an input of it may be newer.  The    *)
(* snapshot of the gate is written before the command starts.              *)
BeginRegression(w, k) ==
  /\ At(w, k, "enter") /\ Unlocked(w)
  /\ k = "accuracy" => Usable("service", walk[w].env)
  /\ run' = Checked
  /\ Become(w, [walk[w] EXCEPT !.phase = "running", !.gate = DeliveryStatus,
       !.of = IF k = "accuracy" THEN {"service"} ELSE {}])
  /\ UNCHANGED <<rows, journal, damaged, receipt, faults>>

PassRegression(w, k) ==
  /\ At(w, k, "running")
  /\ Record(k, [env |-> walk[w].env, gate |-> walk[w].gate, of |-> walk[w].of])
  /\ GoAfter(w, k, AtNode(w, NodeAfter[k], walk[w].env))
  /\ UNCHANGED <<run, rows, receipt, faults>>

(* The failure edge leads to triage, which is not followed here. *)
FailRegression(w, k) ==
  /\ At(w, k, "running") /\ Fault
  /\ Record(k, NoFact)
  /\ GoAfter(w, k, AtRest)
  /\ UNCHANGED <<run, rows, receipt>>

BaselineCurrent(w) ==
  Usable("baseline", walk[w].env)
    /\ Regressions \subseteq journal.facts["baseline"].of

ReuseBaseline(w) ==
  /\ At(w, "baseline", "enter") /\ BaselineCurrent(w)
  /\ Go(w, "integration")
  /\ UNCHANGED <<run, rows, journal, damaged, receipt, faults>>

FreezeBaseline(w) ==
  /\ At(w, "baseline", "enter") /\ ~BaselineCurrent(w)
  /\ \A k \in Regressions : Usable(k, walk[w].env)
  /\ Record("baseline", [env |-> walk[w].env, of |-> Regressions,
                         gate |-> journal.facts["service"].gate])
  /\ GoAfter(w, "baseline", AtNode(w, "integration", walk[w].env))
  /\ UNCHANGED <<run, rows, receipt, faults>>

(* Evidence a frozen baseline refers to must be as it was. *)
BaselineValid(w) ==
  /\ Usable("baseline", walk[w].env)
  /\ journal.facts["baseline"].of \cap damaged = {}

(* The process ends waiting or blocked, to be resumed at this node. *)
Integrate(w) ==
  /\ At(w, "integration", "enter") /\ Unlocked(w)
  /\ Usable("baseline", walk[w].env)
  /\ run' = Checked
  /\ IF GateState = "ready" /\ BaselineValid(w)
     THEN /\ Record("integration", [env |-> walk[w].env, gate |-> DeliveryStatus,
                                    of |-> {"baseline"}])
          /\ GoAfter(w, "integration", AtNode(w, "finish", walk[w].env))
     ELSE Record("integration", NoFact) /\ GoAfter(w, "integration", AtRest)
  /\ UNCHANGED <<rows, receipt, faults>>

(* INPUT_UNRESOLVED: a fact a node needs is not there. *)
Unresolved(w) ==
  /\ \/ At(w, "accuracy", "enter") /\ ~Usable("service", walk[w].env)
     \/ /\ At(w, "baseline", "enter") /\ ~BaselineCurrent(w)
        /\ \E k \in Regressions : ~Usable(k, walk[w].env)
     \/ At(w, "integration", "enter") /\ ~Usable("baseline", walk[w].env)
  /\ Exit(w)
  /\ UNCHANGED <<run, rows, journal, damaged, receipt, faults>>

-----------------------------------------------------------------------------
(* finish_scheduled_graph collects the facts; finalize compares them with  *)
(* the gate and with each other, in one transaction.                       *)

StagesRecorded(w) == \A k \in Kinds : Usable(k, walk[w].env)

(* The accuracy names the service it was measured on, the integration its  *)
(* baseline: which of them are the newest ones.                            *)
MeasuredOn ==
  (journal.facts["accuracy"].of \cap {"service"})
    \cup (journal.facts["integration"].of \cap {"baseline"})

(* Defect: what a stage was measured on is not looked at. *)
BugPaired == TRUE

Paired == MeasuredOn = {"service", "baseline"}

(* Paths that facts name do not change any more: they are compared here.   *)
(* From now on "of" says which of the facts that were collected are still  *)
(* the newest, and "gap" whether the dispatch is the accepted one.         *)
CollectFacts(w) ==
  /\ At(w, "finish", "enter")
  /\ Become(w, [walk[w] EXCEPT
       !.phase = "collected",
       !.half = ~(StagesRecorded(w) /\ UsableProofOf(walk[w].env) /\ UsableProof
                    /\ Paired),
       !.of = Kinds \cup journal.facts["dispatch"].of,
       !.found = [NoReceipt EXCEPT
         !.root = journal.proof, !.env = walk[w].env, !.on = MeasuredOn,
         !.service = journal.facts["service"].gate,
         !.accuracy = journal.facts["accuracy"].gate,
         !.integration = journal.facts["integration"].gate,
         !.baseline = journal.facts["baseline"].gate]])
  /\ UNCHANGED <<run, rows, journal, damaged, receipt, faults>>

(* The regressions were started with the gate as it is now. *)
StartedFrom(found) ==
  \A gate \in {found.service, found.accuracy} : gate = DeliveryStatus

(* Compared once more with what was recorded of it: the dispatch with the  *)
(* accepted one, the service with what the accuracy has kept of it, the    *)
(* evidence of the baseline with what the baseline has kept of it.         *)
Compared(w) ==
  {"dispatch", "service"}
    \cup IF "baseline" \in walk[w].of THEN journal.facts["baseline"].of ELSE {}

(* Other facts, and replaced ones, are only read again: what has become of *)
(* them may or may not still be a pass.                                    *)
MayReject(w) == ~(Kinds \subseteq walk[w].of \ damaged)

Deliverable(w) ==
  /\ GateState = "ready" /\ ~walk[w].half
  /\ walk[w].found.root = run.bound
  /\ StartedFrom(walk[w].found)
  /\ walk[w].found.integration = DeliveryStatus
  /\ "gap" \in walk[w].of
  /\ walk[w].of \cap Compared(w) \cap damaged = {}
  /\ ShimOps \subseteq Discovered

Rejected(w) ==
  /\ run' = [Checked EXCEPT !.delivery = "blocked"]
  /\ Exit(w)
  /\ UNCHANGED receipt

BeginDelivery(w) ==
  /\ At(w, "finish", "collected") /\ Unlocked(w)
  /\ \/ /\ Deliverable(w)
        /\ Become(w, [walk[w] EXCEPT !.phase = "locked",
                       !.found.gate = DeliveryStatus, !.found.files = run.accepted])
        /\ UNCHANGED <<run, receipt>>
     \/ (~Deliverable(w) \/ MayReject(w)) /\ Rejected(w)
  /\ UNCHANGED <<rows, journal, damaged, faults>>

Unchanged(w) ==
  /\ DeliveryStatus = walk[w].found.gate
  /\ "service" \notin walk[w].of \cap damaged

(* The gate and the snapshots are read once more, with the service that    *)
(* the accuracy names; then the receipt is put in an attempt of its own.   *)
WriteReceipt(w) ==
  /\ At(w, "finish", "locked")
  /\ \/ /\ Unchanged(w)
        /\ receipt' = walk[w].found
        /\ Become(w, [walk[w] EXCEPT !.phase = "written"])
        /\ UNCHANGED run
     \/ (~Unchanged(w) \/ "service" \notin walk[w].of) /\ Rejected(w)
  /\ UNCHANGED <<rows, journal, damaged, faults>>

CommitDelivery(w) ==
  /\ At(w, "finish", "written")
  /\ run' = [run EXCEPT !.delivery = "delivered"]
  /\ Exit(w)
  /\ UNCHANGED <<rows, journal, damaged, receipt, faults>>

-----------------------------------------------------------------------------
(* Around the walks *)

(* A transaction that was open is rolled back; a receipt file stays. *)
Kill(w) ==
  /\ walk[w] # AtRest /\ Fault
  /\ Exit(w)
  /\ UNCHANGED <<run, rows, journal, damaged, receipt>>

Damage(e) ==
  /\ e \notin damaged /\ Fault
  /\ \/ e \in Proofs /\ e \in {run.bound, run.accepted}
     \/ e \in Channels /\ run.channel[e] = "ok"
     \/ e \in Kinds /\ journal.facts[e] # NoFact
     \/ e \in Ops /\ rows[e] = "done"
  /\ damaged' = damaged \cup {e}
  /\ UNCHANGED <<run, rows, journal, walk, receipt>>

NobodyDelivers == \A w \in Walks : walk[w].phase \notin {"locked", "written"}

(* Workers of the scheduler (module TaskScheduler). *)
Integrated(o) ==
  /\ rows[o] = "open" /\ run.status = "ready" /\ NobodyDelivers
  /\ rows' = [rows EXCEPT ![o] = "done"]
  /\ UNCHANGED <<run, journal, walk, damaged, receipt, faults>>

Fails(o) ==
  /\ rows[o] = "open" /\ run.status = "ready" /\ NobodyDelivers
  /\ Fault
  /\ rows' = [rows EXCEPT ![o] = "failed"]
  /\ UNCHANGED <<run, journal, walk, damaged, receipt>>

Retried(o) ==
  /\ rows[o] = "failed" /\ NobodyDelivers
  /\ rows' = [rows EXCEPT ![o] = "open"]
  /\ UNCHANGED <<run, journal, walk, damaged, receipt, faults>>

(* "adaptation environment" binds on the side of the scheduler only. *)
BindByHand(p) ==
  /\ p \in journal.made /\ ~Refused(p) /\ NobodyDelivers
  /\ Fault
  /\ run' = [run EXCEPT !.status = "ready", !.bound = p]
  /\ UNCHANGED <<rows, journal, walk, damaged, receipt>>

(* "operator_lifecycle dispatch" with a report of its own. *)
DispatchByHand(o) ==
  /\ EnvironmentReady /\ NobodyDelivers
  /\ Fault
  /\ rows' = [rows EXCEPT ![o] = IF @ = "unknown" THEN "open" ELSE @]
  /\ Dispatched("gap", FALSE) /\ walk' = Outdated("gap")
  /\ UNCHANGED receipt

-----------------------------------------------------------------------------
WalkStep(w) ==
  \/ Scope(w) \/ Bind(w)
  \/ ReuseProof(w) \/ \E p \in Proofs : Prove(w, p)
  \/ DispatchGaps(w) \/ RegisterShims(w) \/ DispatchShims(w)
  \/ \E o \in Ops : Discover(w, o)
  \/ PublishDispatch(w) \/ RecordDispatch(w)
  \/ \E k \in Regressions :
       ReuseRegression(w, k) \/ BeginRegression(w, k) \/ PassRegression(w, k)
  \/ ReuseBaseline(w) \/ FreezeBaseline(w) \/ Integrate(w) \/ Unresolved(w)
  \/ CollectFacts(w) \/ BeginDelivery(w) \/ WriteReceipt(w) \/ CommitDelivery(w)

WalkFault(w) ==
  \/ ProofFails(w) \/ Kill(w)
  \/ \E o \in Ops : BadEntry(w, o)
  \/ \E k \in Regressions : FailRegression(w, k)

Resume(w) == Start(w, "proof") /\ UNCHANGED faults

Next ==
  \/ \E w \in Walks :
       \/ WalkStep(w) \/ WalkFault(w) \/ Resume(w)
       \/ \E from \in {"service", "integration"} : Start(w, from) /\ Fault
  \/ \E o \in Ops : Integrated(o) \/ Fails(o) \/ Retried(o) \/ DispatchByHand(o)
  \/ \E e \in Fragile : Damage(e)
  \/ \E p \in Proofs : BindByHand(p)

Spec == Init /\ [][Next]_vars

LiveSpec ==
  /\ Spec
  /\ \A w \in Walks : WF_vars(WalkStep(w)) /\ WF_vars(Resume(w))
  /\ \A o \in Ops : WF_vars(Integrated(o)) /\ WF_vars(Retried(o))

-----------------------------------------------------------------------------
Gates == [state : {"none", "blocked", "waiting", "ready"},
          fingerprint : Fingerprints \cup {NoFingerprint},
          rows : [Ops -> {"unknown", "open", "failed", "done"}]]

TypeOK ==
  /\ run \in [status : {"required", "ready", "failed"},
               bound : Proofs \cup {NoProof}, accepted : Proofs \cup {NoProof},
               channel : [Channels -> {"none", "ok", "blocked"}],
               delivery : {"none", "blocked", "delivered"}]
  /\ rows \in [Ops -> {"unknown", "open", "failed", "done"}]
  /\ journal.proof \in Proofs \cup {NoProof} /\ journal.made \subseteq Proofs
  /\ \A k \in Kinds : journal.facts[k].gate \in Gates
  /\ \A w \in Walks : walk[w].gate \in Gates /\ walk[w].todo \subseteq Ops
  /\ damaged \subseteq Fragile
  /\ faults \in 0..FaultBudget

(* A receipt covers every reported operator, and both of its regressions   *)
(* were started with all of them done; the accuracy was measured on the    *)
(* very service it names, and the operators were integrated on its very    *)
(* baseline (_regression_snapshot, _accuracy_snapshot, baseline_path).     *)
ReceiptAfterRegressions ==
  receipt # NoReceipt =>
    /\ \A o \in GapOps \cup ShimOps : receipt.gate.rows[o] = "done"
    /\ \A o \in Ops : receipt.gate.rows[o] \in {"unknown", "done"}
    /\ receipt.service.rows = receipt.gate.rows
    /\ receipt.accuracy.rows = receipt.gate.rows
    /\ receipt.on = {"service", "baseline"}

(* The stages of a receipt and its gate are of the environment whose proof *)
(* it names.  (Which files it lists is another matter: they are those of   *)
(* the accepted proof, and bind_environment moves the bound proof first.)  *)
ReceiptOfOneEnvironment ==
  receipt # NoReceipt =>
    /\ FpOf(receipt.root) = receipt.env
    /\ \A gate \in {receipt.gate, receipt.service, receipt.accuracy} :
         gate.fingerprint = receipt.env

(* What a delivery rests on is as it was accepted when its receipt is      *)
(* written, also what changed on disk after the comparison; and while it   *)
(* becomes visible, the run and its rows are what the receipt says: no     *)
(* other connection has come in between (finalize).                        *)
DeliveredAsReceived ==
  [][\A w \in Walks :
       /\ WriteReceipt(w) /\ receipt' # receipt =>
            /\ run.accepted \notin damaged
            /\ \A c \in Channels : run.channel[c] = "ok" => c \notin damaged
            /\ \A o \in Ops : receipt'.gate.rows[o] = "done" => o \notin damaged
       /\ CommitDelivery(w) =>
            /\ receipt.gate.rows = rows
            /\ run.status = "ready" /\ FpOf(run.bound) = receipt.env]_vars

(* Nothing brings a delivery about any more: the bound proof, or the       *)
(* evidence of a finished operator, is damaged, and no step records either *)
(* of them anew (bind_environment refuses it, delivery_status blocks).     *)
Obstructed ==
  \/ run.bound \in damaged
  \/ \E o \in Ops : rows[o] = "done" /\ o \in damaged

(* A run is delivered, or obstructed for good: other damage, kills, failed *)
(* proofs, refused entries and failed stages only delay the delivery.      *)
DeliveryComes == <>(run.delivery = "delivered") \/ <>[]Obstructed
=============================================================================
