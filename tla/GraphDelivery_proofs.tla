------------------------- MODULE GraphDelivery_proofs -------------------------
(* The delivery of a scheduled run: a receipt is of one environment, and   *)
(* what becomes visible is what the receipt says, for any number of walks, *)
(* proofs, operators and faults.                                           *)
(*                                                                         *)
(* A walk that has collected its facts keeps what it has compared; one     *)
(* that is in its transaction holds the gate it has compared them with.    *)
(* Every other step writes the database only while nobody delivers, and    *)
(* leaves what other walks have compared alone.                            *)
EXTENDS GraphDelivery, TLAPS

Fields == {"at", "phase", "env", "half", "queue", "todo", "gate", "of", "found"}

Parts == {"root", "files", "env", "gate", "service", "accuracy", "integration",
          "baseline", "on"}

Held == {"locked", "written"}

(* A process, and what it has compared when it is past that. *)
Process(c) ==
  /\ DOMAIN c = Fields /\ DOMAIN c.found = Parts
  /\ c.phase \in {"collected"} \cup Held /\ ~c.half =>
       FpOf(c.found.root) = c.found.env /\ c.found.on = {"service", "baseline"}
  /\ c.phase \in Held =>
       /\ ~c.half
       /\ c.found.gate.state = "ready"
       /\ c.found.gate.fingerprint = FpOf(c.found.root)
       /\ c.found.service = c.found.gate
       /\ c.found.accuracy = c.found.gate

(* The run as the transaction of a delivery found it. *)
AsCompared(c) ==
  /\ c.found.gate.rows = rows
  /\ run.status = "ready"
  /\ FpOf(run.bound) = FpOf(c.found.root)

Processes == DOMAIN walk = Walks /\ \A w \in Walks : Process(walk[w])

OneDelivers ==
  \A v, w \in Walks : walk[v].phase \in Held /\ walk[w].phase \in Held => v = w

Locked ==
  \A w \in Walks :
    /\ walk[w].phase \in Held => AsCompared(walk[w])
    /\ walk[w].phase = "written" => receipt = walk[w].found

DeliveryInv ==
  /\ DOMAIN run = {"status", "bound", "accepted", "channel", "delivery"}
  /\ Processes /\ OneDelivers /\ Locked /\ ReceiptOfOneEnvironment

-----------------------------------------------------------------------------
(* Steps that deliver nothing *)

(* What a delivery rests on is the same: other facts are newer at most.    *)
Alike(v) ==
  /\ walk'[v].phase = walk[v].phase /\ walk'[v].half = walk[v].half
  /\ walk'[v].found = walk[v].found /\ DOMAIN walk'[v] = DOMAIN walk[v]

RunShape == DOMAIN run' = DOMAIN run

(* A step of one process that neither enters a delivery nor publishes, and *)
(* that leaves the database alone while another one delivers.              *)
Mild(w) ==
  /\ DOMAIN walk' = Walks
  /\ \A v \in Walks \ {w} : Alike(v)
  /\ Process(walk'[w]) /\ walk'[w].phase \notin Held
  /\ receipt' = receipt /\ RunShape
  /\ UNCHANGED <<run, rows>> \/ Unlocked(w)

LEMMA MildKeeps ==
  ASSUME DeliveryInv, NEW w \in Walks, Mild(w)
  PROVE  DeliveryInv'
<1> USE DEF DeliveryInv
<1>1. \A v \in Walks \ {w} : Process(walk'[v])
  BY DEF Mild, Alike, Process, Processes
<1>2. Processes' /\ (DOMAIN run = {"status", "bound", "accepted", "channel", "delivery"})'
  BY <1>1 DEF Mild, Processes, Process, RunShape, FpOf
<1>3. OneDelivers'
  BY DEF Mild, Alike, OneDelivers
<1>4. Locked'
  <2>1. \A v \in Walks \ {w} : walk'[v].phase \in Held => UNCHANGED <<run, rows>>
    BY DEF Mild, Alike, Unlocked, Held
  <2> QED BY <2>1 DEF Mild, Alike, Locked, AsCompared, Held, FpOf
<1>5. ReceiptOfOneEnvironment'
  BY DEF Mild, ReceiptOfOneEnvironment, FpOf
<1> QED BY <1>2, <1>3, <1>4, <1>5

LEMMA RestIsCalm == Process(AtRest) /\ AtRest.phase \notin Held
BY DEF AtRest, Process, NoReceipt, Fields, Parts, Held

LEMMA NodeIsCalm ==
  ASSUME NEW n, NEW e, NEW w
  PROVE  /\ Process(AtNode(w, n, e)) /\ AtNode(w, n, e).phase \notin Held
         /\ AtNode(w, n, e).found = NoReceipt
BY DEF AtRest, AtNode, Process, NoReceipt, Fields, Parts, Held

(* A process that becomes another one, and the others stay. *)
LEMMA BecomeCalm ==
  ASSUME DeliveryInv, NEW w \in Walks, NEW c, Become(w, c),
         Process(c), c.phase \notin Held,
         receipt' = receipt, RunShape, UNCHANGED <<run, rows>> \/ Unlocked(w)
  PROVE  Mild(w)
BY DEF DeliveryInv, Processes, Become, Mild, Alike

LEMMA CheckedShape ==
  ASSUME DeliveryInv  PROVE  DOMAIN Checked = DOMAIN run
BY DEF DeliveryInv, Checked

(* A process in an earlier phase, whatever else changes. *)
LEMMA EarlyIsCalm ==
  ASSUME DeliveryInv, NEW w \in Walks, NEW c, DOMAIN c = Fields,
         c.found = walk[w].found, c.phase \notin {"collected"} \cup Held
  PROVE  Process(c) /\ c.phase \notin Held
BY DEF DeliveryInv, Processes, Process

-----------------------------------------------------------------------------
(* The steps of a walk before its delivery, one by one *)

LEMMA OpeningIsMild ==
  ASSUME DeliveryInv, NEW w \in Walks
  PROVE  /\ \A from : Start(w, from) => Mild(w)
         /\ Scope(w) => Mild(w)
         /\ Kill(w) => Mild(w)
<1>1. ASSUME NEW from, Start(w, from)  PROVE Mild(w)
  <2> DEFINE c == [AtRest EXCEPT !.at = from,
       !.phase = IF run.bound = NoProof THEN "scope" ELSE "rebind",
       !.queue = IF run.bound = NoProof THEN <<>> ELSE <<run.bound>>]
  <2>1. Process(c) /\ c.phase \notin Held
    BY DEF AtRest, Process, NoReceipt, Fields, Parts, Held
  <2>2. Become(w, c) /\ receipt' = receipt /\ run' = Checked /\ Unlocked(w)
    BY <1>1 DEF Start
  <2> HIDE DEF c
  <2> QED BY <2>1, <2>2, BecomeCalm, CheckedShape DEF RunShape
<1>2. ASSUME Scope(w)  PROVE Mild(w)
  <2> DEFINE known == IF ~UsableProof /\ run.bound # NoProof THEN run.bound
                      ELSE journal.proof
             usable == known # NoProof /\ known \notin damaged
             phase == IF usable THEN "bind" ELSE "enter"
             queue == IF usable THEN <<known>> ELSE <<>>
             c == [walk[w] EXCEPT !.phase = phase, !.queue = queue]
  <2>1. Become(w, c) /\ receipt' = receipt /\ UNCHANGED <<run, rows>>
    BY <1>2 DEF Scope
  <2>2. phase \notin {"collected"} \cup Held
    BY DEF Held
  <2> HIDE DEF phase, queue
  <2>3. DOMAIN c = Fields /\ c.found = walk[w].found /\ c.phase = phase
    BY DEF DeliveryInv, Processes, Process, Fields
  <2> HIDE DEF c
  <2> QED BY <2>1, <2>2, <2>3, EarlyIsCalm, BecomeCalm DEF RunShape
<1>3. ASSUME Kill(w)  PROVE Mild(w)
  BY <1>3, RestIsCalm, BecomeCalm DEF Kill, Exit, RunShape
<1> QED BY <1>1, <1>2, <1>3

LEMMA BindIsMild ==
  ASSUME DeliveryInv, NEW w \in Walks, Bind(w)
  PROVE  Mild(w)
<1>1. PICK p \in Proofs :
        BindRefused(w, p) \/ BindKnown(w, p) \/ BindRun(w, p) \/ BindGraph(w, p)
  BY DEF Bind
<1>2. Unlocked(w) /\ receipt' = receipt
  BY <1>1 DEF BindRefused, BindKnown, BindRun, BindGraph, Binding
<1>3. RunShape
  BY <1>1 DEF BindRefused, BindKnown, BindRun, BindGraph, RunShape
<1>4. ASSUME BindDone(w)  PROVE Mild(w)
  <2> DEFINE again == [AtRest EXCEPT !.at = walk[w].at, !.phase = "scope"]
             node == AtNode(w, walk[w].at, Proven)
  <2>1. Process(again) /\ again.phase \notin Held
    BY DEF AtRest, Process, NoReceipt, Fields, Parts, Held
  <2>2. Process(node) /\ node.phase \notin Held
    BY NodeIsCalm
  <2>3. Become(w, again) \/ Become(w, node)
    BY <1>4 DEF BindDone
  <2> HIDE DEF again, node
  <2> QED BY <1>2, <1>3, <2>1, <2>2, <2>3, BecomeCalm
<1>5. CASE BindRefused(w, p)
  BY <1>2, <1>3, <1>5, RestIsCalm, BecomeCalm DEF BindRefused, Exit
<1>6. CASE BindRun(w, p)
  <2> DEFINE c == [walk[w] EXCEPT !.half = TRUE]
  <2>1. DOMAIN c = Fields /\ c.found = walk[w].found /\ c.phase \in {"rebind", "bind"}
    BY <1>6 DEF BindRun, Binding, DeliveryInv, Processes, Process, Fields
  <2>2. Become(w, c)
    BY <1>6 DEF BindRun
  <2> HIDE DEF c
  <2> QED BY <1>2, <1>3, <2>1, <2>2, EarlyIsCalm, BecomeCalm DEF Held
<1> QED BY <1>1, <1>4, <1>5, <1>6 DEF BindKnown, BindGraph

LEMMA ProofIsMild ==
  ASSUME DeliveryInv, NEW w \in Walks
  PROVE  /\ ReuseProof(w) => Mild(w)
         /\ \A p \in Proofs : Prove(w, p) => Mild(w)
         /\ ProofFails(w) => Mild(w)
<1>1. ASSUME ReuseProof(w)  PROVE Mild(w)
  BY <1>1, NodeIsCalm, BecomeCalm DEF ReuseProof, Go, RunShape
<1>2. ASSUME NEW p \in Proofs, Prove(w, p)  PROVE Mild(w)
  <2> DEFINE c == [walk[w] EXCEPT !.at = "dispatch", !.phase = "bind", !.queue = <<p>>]
  <2>1. DOMAIN c = Fields /\ c.found = walk[w].found /\ c.phase = "bind"
    BY DEF DeliveryInv, Processes, Process, Fields
  <2>2. Become(w, c) /\ receipt' = receipt /\ UNCHANGED <<run, rows>>
    BY <1>2 DEF Prove
  <2> HIDE DEF c
  <2> QED BY <2>1, <2>2, EarlyIsCalm, BecomeCalm DEF Held, RunShape
<1>3. ASSUME ProofFails(w)  PROVE Mild(w)
  BY <1>3, RestIsCalm, BecomeCalm DEF ProofFails, Exit, RunShape
<1> QED BY <1>1, <1>2, <1>3

(* A newer fact outdates what others refer to, not what they compared.     *)
LEMMA OutdatedCalm ==
  ASSUME DeliveryInv, NEW k, NEW w \in Walks, NEW next,
         walk' = [Outdated(k) EXCEPT ![w] = next] \/ GoAfter(w, k, next),
         Process(next), next.phase \notin Held,
         receipt' = receipt, RunShape, UNCHANGED <<run, rows>> \/ Unlocked(w)
  PROVE  Mild(w)
<1>1. DOMAIN walk' = Walks /\ walk'[w] = next
  BY DEF Outdated, GoAfter
<1>2. ASSUME NEW v \in Walks \ {w}  PROVE Alike(v)
  <2> DEFINE of == walk[v].of \ {k}
             c == [walk[v] EXCEPT !.of = of]
  <2>1. DOMAIN walk[v] = Fields
    BY DEF DeliveryInv, Processes, Process
  <2>2. walk'[v] = c
    BY <2>1 DEF Outdated, GoAfter, Fields
  <2> HIDE DEF of
  <2>3. DOMAIN c = DOMAIN walk[v] /\ c.phase = walk[v].phase /\ c.half = walk[v].half
          /\ c.found = walk[v].found
    BY <2>1 DEF Fields
  <2> HIDE DEF c
  <2> QED BY <2>2, <2>3 DEF Alike
<1> QED BY <1>1, <1>2 DEF Mild

LEMMA DispatchIsMild ==
  ASSUME DeliveryInv, NEW w \in Walks
  PROVE  /\ DispatchGaps(w) \/ DispatchShims(w) => Mild(w)
         /\ RegisterShims(w) => Mild(w)
         /\ \A o \in Ops : Discover(w, o) \/ BadEntry(w, o) => Mild(w)
<1>1. ASSUME NEW reported, BeginDispatch(w, reported), receipt' = receipt
      PROVE  Mild(w)
  <2> DEFINE half == ~EnvironmentReady
             todo == IF EnvironmentReady THEN reported ELSE {}
             c == [walk[w] EXCEPT !.phase = "dispatch", !.half = half, !.todo = todo]
  <2>1. Become(w, c) /\ run' = Checked /\ Unlocked(w)
    BY <1>1 DEF BeginDispatch
  <2> HIDE DEF half, todo
  <2>2. DOMAIN c = Fields /\ c.found = walk[w].found /\ c.phase = "dispatch"
    BY DEF DeliveryInv, Processes, Process, Fields
  <2> HIDE DEF c
  <2> QED BY <1>1, <2>1, <2>2, EarlyIsCalm, BecomeCalm, CheckedShape DEF RunShape, Held
<1>2. ASSUME RegisterShims(w)  PROVE Mild(w)
  <2> DEFINE c == [walk[w] EXCEPT !.phase = "registered"]
  <2>1. GoAfter(w, "registry", c) /\ receipt' = receipt /\ UNCHANGED <<run, rows>>
    BY <1>2 DEF RegisterShims
  <2>2. DOMAIN c = Fields /\ c.found = walk[w].found /\ c.phase = "registered"
    BY DEF DeliveryInv, Processes, Process, Fields
  <2> HIDE DEF c
  <2> QED BY <2>1, <2>2, EarlyIsCalm, OutdatedCalm DEF RunShape, Held
<1>3. ASSUME NEW o \in Ops, Discover(w, o) \/ BadEntry(w, o)  PROVE Mild(w)
  <2>1. PICK todo, half : Become(w, [walk[w] EXCEPT !.todo = todo, !.half = half])
    <3>1. CASE Discover(w, o)
      <4> DEFINE todo == walk[w].todo \ {o}
                 half == walk[w].half \/ ~(run.status = "ready")
      <4>1. Become(w, [walk[w] EXCEPT !.todo = todo, !.half = half])
        BY <3>1 DEF Discover, DeliveryInv, Processes, Process, Fields, Become
      <4> HIDE DEF todo, half
      <4> QED BY <4>1
    <3>2. CASE BadEntry(w, o)
      <4> DEFINE todo == walk[w].todo \ {o}
      <4>1. Become(w, [walk[w] EXCEPT !.todo = todo, !.half = TRUE])
        BY <3>2 DEF BadEntry, DeliveryInv, Processes, Process, Fields, Become
      <4> HIDE DEF todo
      <4> QED BY <4>1
    <3> QED BY <1>3, <3>1, <3>2
  <2> DEFINE c == [walk[w] EXCEPT !.todo = todo, !.half = half]
  <2>2. walk[w].phase = "dispatch" /\ receipt' = receipt /\ run' = run
          /\ (rows' = rows \/ Unlocked(w))
    BY <1>3 DEF Discover, BadEntry
  <2>3. DOMAIN c = Fields /\ c.found = walk[w].found /\ c.phase = "dispatch"
    BY <2>2 DEF DeliveryInv, Processes, Process, Fields
  <2> QED BY <2>1, <2>2, <2>3, EarlyIsCalm, BecomeCalm DEF RunShape, Held
<1>4. ASSUME DispatchGaps(w) \/ DispatchShims(w)  PROVE Mild(w)
  BY <1>1, <1>4 DEF DispatchGaps, DispatchShims
<1> QED BY <1>2, <1>3, <1>4

LEMMA PublishIsMild ==
  ASSUME DeliveryInv, NEW w \in Walks
  PROVE  /\ PublishDispatch(w) => Mild(w)
         /\ RecordDispatch(w) => Mild(w)
<1>1. ASSUME PublishDispatch(w)  PROVE Mild(w)
  <2> DEFINE blocked == walk[w].half \/ run.status # "ready"
             published == [walk[w] EXCEPT !.phase = "published", !.half = blocked]
             next == IF walk[w].at = "dispatch" THEN published
                     ELSE IF blocked THEN AtRest ELSE AtNode(w, "service", walk[w].env)
  <2>1. walk' = [Outdated(ChannelOf(w)) EXCEPT ![w] = next] /\ Unlocked(w)
          /\ receipt' = receipt
    BY <1>1 DEF PublishDispatch
  <2>2. RunShape
    BY <1>1 DEF PublishDispatch, Dispatched, RunShape
  <2>3. Process(next) /\ next.phase \notin Held
    <3> HIDE DEF blocked
    <3>1. DOMAIN published = Fields /\ published.found = walk[w].found
            /\ published.phase = "published"
      BY DEF DeliveryInv, Processes, Process, Fields
    <3> HIDE DEF published
    <3>2. Process(published) /\ published.phase \notin Held
      BY <3>1, EarlyIsCalm DEF Held
    <3> QED BY <3>2, RestIsCalm, NodeIsCalm
  <2> HIDE DEF next
  <2> QED BY <2>1, <2>2, <2>3, OutdatedCalm
<1>2. ASSUME RecordDispatch(w)  PROVE Mild(w)
  BY <1>2, RestIsCalm, NodeIsCalm, OutdatedCalm DEF RecordDispatch, RunShape
<1> QED BY <1>1, <1>2

LEMMA RegressionIsMild ==
  ASSUME DeliveryInv, NEW w \in Walks, NEW k \in Regressions
  PROVE  /\ ReuseRegression(w, k) => Mild(w)
         /\ BeginRegression(w, k) => Mild(w)
         /\ PassRegression(w, k) => Mild(w)
         /\ FailRegression(w, k) => Mild(w)
<1>1. ASSUME ReuseRegression(w, k)  PROVE Mild(w)
  BY <1>1, NodeIsCalm, BecomeCalm, CheckedShape DEF ReuseRegression, Go, RunShape
<1>2. ASSUME BeginRegression(w, k)  PROVE Mild(w)
  <2> DEFINE of == IF k = "accuracy" THEN {"service"} ELSE {}
             c == [walk[w] EXCEPT !.phase = "running", !.gate = DeliveryStatus, !.of = of]
  <2>1. Become(w, c) /\ run' = Checked /\ Unlocked(w) /\ receipt' = receipt
    BY <1>2 DEF BeginRegression
  <2> HIDE DEF of
  <2>2. DOMAIN c = Fields /\ c.found = walk[w].found /\ c.phase = "running"
    BY DEF DeliveryInv, Processes, Process, Fields
  <2> HIDE DEF c
  <2> QED BY <2>1, <2>2, EarlyIsCalm, BecomeCalm, CheckedShape DEF RunShape, Held
<1>3. ASSUME PassRegression(w, k)  PROVE Mild(w)
  BY <1>3, NodeIsCalm, OutdatedCalm DEF PassRegression, RunShape
<1>4. ASSUME FailRegression(w, k)  PROVE Mild(w)
  BY <1>4, RestIsCalm, OutdatedCalm DEF FailRegression, RunShape
<1> QED BY <1>1, <1>2, <1>3, <1>4

LEMMA BaselineIsMild ==
  ASSUME DeliveryInv, NEW w \in Walks
  PROVE  /\ ReuseBaseline(w) => Mild(w)
         /\ FreezeBaseline(w) => Mild(w)
         /\ Integrate(w) => Mild(w)
         /\ Unresolved(w) => Mild(w)
<1>1. ASSUME ReuseBaseline(w)  PROVE Mild(w)
  BY <1>1, NodeIsCalm, BecomeCalm DEF ReuseBaseline, Go, RunShape
<1>2. ASSUME FreezeBaseline(w)  PROVE Mild(w)
  BY <1>2, NodeIsCalm, OutdatedCalm DEF FreezeBaseline, RunShape
<1>3. ASSUME Integrate(w)  PROVE Mild(w)
  BY <1>3, RestIsCalm, NodeIsCalm, OutdatedCalm, CheckedShape
     DEF Integrate, RunShape
<1>4. ASSUME Unresolved(w)  PROVE Mild(w)
  BY <1>4, RestIsCalm, BecomeCalm DEF Unresolved, Exit, RunShape
<1> QED BY <1>1, <1>2, <1>3, <1>4

-----------------------------------------------------------------------------
(* The delivery *)

(* Where the stages of a walk were recorded, its proof is of that place.   *)
LEMMA CollectIsMild ==
  ASSUME DeliveryInv, NEW w \in Walks, CollectFacts(w)
  PROVE  Mild(w)
<1> DEFINE clean == StagesRecorded(w) /\ UsableProofOf(walk[w].env) /\ UsableProof /\ Paired
           half == ~clean
           of == Kinds \cup journal.facts["dispatch"].of
           found == [NoReceipt EXCEPT
             !.root = journal.proof, !.env = walk[w].env, !.on = MeasuredOn,
             !.service = journal.facts["service"].gate,
             !.accuracy = journal.facts["accuracy"].gate,
             !.integration = journal.facts["integration"].gate,
             !.baseline = journal.facts["baseline"].gate]
           c == [walk[w] EXCEPT !.phase = "collected", !.half = half, !.of = of,
                                !.found = found]
<1>1. Become(w, c) /\ receipt' = receipt /\ UNCHANGED <<run, rows>>
  BY DEF CollectFacts
<1>2. clean => FpOf(journal.proof) = walk[w].env /\ MeasuredOn = {"service", "baseline"}
  BY DEF StagesRecorded, Usable, Kinds, UsableProofOf, Paired
<1>3. /\ DOMAIN found = Parts /\ found.root = journal.proof /\ found.env = walk[w].env
      /\ found.on = MeasuredOn
  BY DEF NoReceipt, Parts
<1> HIDE DEF found, clean, of
<1>4. /\ DOMAIN c = Fields /\ c.found = found /\ c.phase = "collected"
      /\ ~c.half => clean
  BY DEF DeliveryInv, Processes, Process, Fields
<1> HIDE DEF c
<1>5. Process(c) /\ c.phase \notin Held
  BY <1>2, <1>3, <1>4 DEF Process, Held
<1> QED BY <1>1, <1>5, BecomeCalm DEF RunShape

LEMMA RejectedIsMild ==
  ASSUME DeliveryInv, NEW w \in Walks, Rejected(w), rows' = rows,
         At(w, "finish", "locked") \/ Unlocked(w)
  PROVE  Mild(w)
<1>1. Unlocked(w)
  BY DEF At, Unlocked, DeliveryInv, OneDelivers, Held
<1>2. RunShape /\ Become(w, AtRest) /\ receipt' = receipt
  BY CheckedShape DEF Rejected, Exit, RunShape
<1> QED BY <1>1, <1>2, RestIsCalm, BecomeCalm

(* A delivery that has compared and goes on. *)
Compares(w) ==
  /\ Deliverable(w)
  /\ Become(w, [walk[w] EXCEPT !.phase = "locked", !.found.gate = DeliveryStatus,
                               !.found.files = run.accepted])
  /\ UNCHANGED <<run, receipt>>

LEMMA BeginsOrRejects ==
  ASSUME NEW w \in Walks, BeginDelivery(w)
  PROVE  Compares(w) \/ Rejected(w)
BY DEF BeginDelivery, Compares

(* In the transaction the gate is compared with what the walk has found.   *)
LEMMA BeginKeeps ==
  ASSUME DeliveryInv, NEW w \in Walks, BeginDelivery(w)
  PROVE  DeliveryInv'
<1>1. CASE Compares(w)
  <2> DEFINE found == [walk[w].found EXCEPT !.gate = DeliveryStatus, !.files = run.accepted]
             c == [walk[w] EXCEPT !.phase = "locked", !.found = found]
  <2>1. DOMAIN walk[w] = Fields /\ DOMAIN walk[w].found = Parts
    BY DEF DeliveryInv, Processes, Process
  <2>2. Become(w, c) /\ UNCHANGED <<run, rows, receipt>>
    BY <1>1, <2>1 DEF BeginDelivery, Compares, Become, Fields, Parts
  <2>3. run.status = "ready" /\ GateState = "ready"
    BY <1>1 DEF Compares, Deliverable, GateState, GateErrors, EnvironmentReady
  <2>4. /\ DOMAIN found = Parts /\ found.gate = DeliveryStatus
        /\ found.root = walk[w].found.root /\ found.env = walk[w].found.env
        /\ found.service = walk[w].found.service
        /\ found.accuracy = walk[w].found.accuracy /\ found.on = walk[w].found.on
    BY <2>1 DEF Parts
  <2>5. found.root = run.bound /\ found.service = found.gate /\ found.accuracy = found.gate
    BY <1>1, <2>4 DEF Compares, Deliverable, StartedFrom
  <2>6. ~walk[w].half /\ FpOf(found.root) = found.env /\ found.on = {"service", "baseline"}
    BY <1>1, <2>4 DEF Compares, Deliverable, BeginDelivery, At, DeliveryInv, Processes, Process
  <2> HIDE DEF found
  <2>7. DOMAIN c = Fields /\ c.found = found /\ c.phase = "locked" /\ c.half = walk[w].half
    BY <2>1 DEF Fields
  <2> HIDE DEF c
  <2>8. Process(c)
    BY <2>3, <2>4, <2>5, <2>6, <2>7 DEF Process, DeliveryStatus
  <2>9. /\ DOMAIN walk' = Walks /\ walk'[w] = c
        /\ \A v \in Walks \ {w} : walk'[v] = walk[v] /\ walk[v].phase \notin Held
    BY <2>2 DEF DeliveryInv, Processes, Become, BeginDelivery, Unlocked, Held
  <2>10. Processes' /\ OneDelivers'
    <3>1. \A v \in Walks : Process(walk'[v])
      BY <2>8, <2>9 DEF DeliveryInv, Processes
    <3> QED BY <2>9, <3>1 DEF Processes, OneDelivers, Process, FpOf
  <2>11. Locked'
    BY <2>2, <2>3, <2>4, <2>5, <2>7, <2>9
       DEF Locked, AsCompared, DeliveryStatus, Held, FpOf
  <2>12. ReceiptOfOneEnvironment' /\ (DOMAIN run)' = DOMAIN run
    BY <2>2 DEF DeliveryInv, ReceiptOfOneEnvironment, FpOf
  <2> QED BY <2>10, <2>11, <2>12 DEF DeliveryInv
<1>2. CASE Rejected(w)
  BY <1>2, RejectedIsMild, MildKeeps DEF BeginDelivery
<1> QED BY <1>1, <1>2, BeginsOrRejects

LEMMA WriteKeeps ==
  ASSUME DeliveryInv, NEW w \in Walks, WriteReceipt(w)
  PROVE  DeliveryInv'
<1>1. CASE receipt' = walk[w].found /\ UNCHANGED run
             /\ Become(w, [walk[w] EXCEPT !.phase = "written"])
  <2> DEFINE c == [walk[w] EXCEPT !.phase = "written"]
  <2>1. /\ DOMAIN c = Fields /\ c.found = walk[w].found /\ c.phase = "written"
        /\ c.half = walk[w].half
    BY DEF DeliveryInv, Processes, Process, Fields
  <2>2. Become(w, c) /\ UNCHANGED rows
    BY <1>1 DEF WriteReceipt
  <2> HIDE DEF c
  <2>3. walk[w].phase = "locked"
    BY DEF WriteReceipt, At
  <2>4. Process(walk[w]) /\ AsCompared(walk[w])
    BY <2>3 DEF DeliveryInv, Processes, Locked, Held
  <2>5. Process(c)
    BY <2>1, <2>3, <2>4 DEF Process, Held
  <2>6. /\ DOMAIN walk' = Walks /\ walk'[w] = c
        /\ \A v \in Walks \ {w} : walk'[v] = walk[v] /\ walk[v].phase \notin Held
    BY <2>2, <2>3 DEF DeliveryInv, Processes, Become, OneDelivers, Held
  <2>7. Processes' /\ OneDelivers'
    <3>1. \A v \in Walks : Process(walk'[v])
      BY <2>5, <2>6 DEF DeliveryInv, Processes
    <3> QED BY <2>6, <3>1 DEF Processes, OneDelivers, Process, FpOf
  <2>8. Locked'
    BY <1>1, <2>1, <2>2, <2>4, <2>6 DEF Locked, AsCompared, Held, FpOf
  <2>9. ReceiptOfOneEnvironment'
    <3>1. /\ FpOf(walk[w].found.root) = walk[w].found.env
          /\ walk[w].found.gate.fingerprint = FpOf(walk[w].found.root)
          /\ walk[w].found.service = walk[w].found.gate
          /\ walk[w].found.accuracy = walk[w].found.gate
      BY <2>3, <2>4 DEF Process, Held
    <3> QED BY <1>1, <3>1 DEF ReceiptOfOneEnvironment, FpOf
  <2> QED BY <1>1, <2>7, <2>8, <2>9 DEF DeliveryInv
<1>2. CASE Rejected(w)
  BY <1>2, RejectedIsMild, MildKeeps DEF WriteReceipt
<1> QED BY <1>1, <1>2 DEF WriteReceipt

LEMMA CommitIsMild ==
  ASSUME DeliveryInv, NEW w \in Walks, CommitDelivery(w)
  PROVE  Mild(w)
<1>1. Unlocked(w)
  BY DEF CommitDelivery, At, Unlocked, DeliveryInv, OneDelivers, Held
<1>2. RunShape /\ Become(w, AtRest) /\ receipt' = receipt
  BY DEF CommitDelivery, Exit, RunShape
<1> QED BY <1>1, <1>2, RestIsCalm, BecomeCalm

-----------------------------------------------------------------------------
(* Workers, the command line and the disk *)

LEMMA OutsideKeeps ==
  ASSUME DeliveryInv
  PROVE  /\ \A o \in Ops : Integrated(o) \/ Fails(o) \/ Retried(o) => DeliveryInv'
         /\ \A o \in Ops : DispatchByHand(o) => DeliveryInv'
         /\ \A e : Damage(e) => DeliveryInv'
         /\ \A p : BindByHand(p) => DeliveryInv'
<1>1. ASSUME UNCHANGED <<run, rows>> \/ NobodyDelivers,
             walk' = walk, receipt' = receipt, DOMAIN run' = DOMAIN run
      PROVE  DeliveryInv'
  <2>1. Processes' /\ OneDelivers' /\ ReceiptOfOneEnvironment'
    BY <1>1 DEF DeliveryInv, Processes, OneDelivers, ReceiptOfOneEnvironment, Process, FpOf
  <2>2. Locked'
    BY <1>1 DEF DeliveryInv, NobodyDelivers, Locked, AsCompared, Held, FpOf
  <2> QED BY <1>1, <2>1, <2>2 DEF DeliveryInv
<1>2. ASSUME NEW o \in Ops, DispatchByHand(o)  PROVE DeliveryInv'
  <2>1. NobodyDelivers /\ walk' = Outdated("gap") /\ receipt' = receipt
    BY <1>2 DEF DispatchByHand
  <2>2. DOMAIN run' = DOMAIN run
    BY <1>2 DEF DispatchByHand, Dispatched
  <2>3. ASSUME NEW v \in Walks  PROVE Process(walk'[v]) /\ walk'[v].phase \notin Held
    <3> DEFINE of == walk[v].of \ {"gap"}
               c == [walk[v] EXCEPT !.of = of]
    <3>1. Process(walk[v]) /\ walk[v].phase \notin Held
      BY <2>1 DEF DeliveryInv, Processes, NobodyDelivers, Held
    <3>2. walk'[v] = c
      BY <2>1, <3>1 DEF Outdated, Process, Fields
    <3> HIDE DEF of
    <3>3. DOMAIN c = Fields /\ c.phase = walk[v].phase /\ c.half = walk[v].half
            /\ c.found = walk[v].found
      BY <3>1 DEF Process, Fields
    <3> HIDE DEF c
    <3> QED BY <3>1, <3>2, <3>3 DEF Process
  <2>4. Processes' /\ OneDelivers' /\ Locked'
    BY <2>1, <2>3 DEF Processes, OneDelivers, Locked, Outdated, Held, Process, FpOf
  <2> QED BY <2>1, <2>2, <2>4 DEF DeliveryInv, ReceiptOfOneEnvironment, FpOf
<1>3. ASSUME NEW o \in Ops, Integrated(o) \/ Fails(o) \/ Retried(o)  PROVE DeliveryInv'
  BY <1>1, <1>3 DEF Integrated, Fails, Retried
<1>4. ASSUME NEW e, Damage(e)  PROVE DeliveryInv'
  BY <1>1, <1>4 DEF Damage
<1>5. ASSUME NEW p, BindByHand(p)  PROVE DeliveryInv'
  <2>1. DOMAIN run' = DOMAIN run
    BY <1>5 DEF BindByHand
  <2> QED BY <1>1, <1>5, <2>1 DEF BindByHand
<1> QED BY <1>2, <1>3, <1>4, <1>5

-----------------------------------------------------------------------------
LEMMA DeliveryStart == Init => DeliveryInv
<1> SUFFICES ASSUME Init PROVE DeliveryInv
  OBVIOUS
<1>1. \A w \in Walks : walk[w] = AtRest
  BY DEF Init
<1>2. Processes /\ OneDelivers /\ Locked
  BY <1>1, RestIsCalm DEF Init, Processes, OneDelivers, Locked, Held
<1> QED BY <1>2 DEF Init, DeliveryInv, ReceiptOfOneEnvironment

LEMMA DeliveryStep == DeliveryInv /\ [Next]_vars => DeliveryInv'
<1> SUFFICES ASSUME DeliveryInv, [Next]_vars PROVE DeliveryInv'
  OBVIOUS
<1>1. CASE UNCHANGED vars
  BY <1>1 DEF vars, DeliveryInv, Processes, Process, OneDelivers, Locked, AsCompared,
              ReceiptOfOneEnvironment, FpOf
<1>2. ASSUME NEW w \in Walks, WalkStep(w)  PROVE DeliveryInv'
  <2>1. CASE BeginDelivery(w)
    BY <2>1, BeginKeeps
  <2>2. CASE WriteReceipt(w)
    BY <2>2, WriteKeeps
  <2>3. CASE ~BeginDelivery(w) /\ ~WriteReceipt(w)
    <3>1. Mild(w)
      BY <1>2, <2>3, OpeningIsMild, BindIsMild, ProofIsMild, DispatchIsMild, PublishIsMild,
         RegressionIsMild, BaselineIsMild, CollectIsMild, CommitIsMild DEF WalkStep
    <3> QED BY <3>1, MildKeeps
  <2> QED BY <2>1, <2>2, <2>3
<1>3. ASSUME NEW w \in Walks, WalkFault(w)  PROVE DeliveryInv'
  <2>1. Mild(w)
    BY <1>3, OpeningIsMild, ProofIsMild, DispatchIsMild, RegressionIsMild DEF WalkFault
  <2> QED BY <2>1, MildKeeps
<1>4. ASSUME NEW w \in Walks, NEW from, Start(w, from)  PROVE DeliveryInv'
  BY <1>4, OpeningIsMild, MildKeeps
<1> QED BY <1>1, <1>2, <1>3, <1>4, OutsideKeeps DEF Next, Resume

(* A delivery compares the gate with what the walk found, in the            *)
(* transaction that publishes it, and every fact it takes was recorded in   *)
(* the environment whose proof is bound (GraphSchedulerBridge._finalize).   *)
THEOREM EnvironmentOfReceipt == Spec => []ReceiptOfOneEnvironment
<1>1. DeliveryInv => ReceiptOfOneEnvironment
  BY DEF DeliveryInv
<1> QED BY <1>1, DeliveryStart, DeliveryStep, PTL DEF Spec

(* Nothing comes between the comparison of a delivery and its publication:  *)
(* the transaction of GraphSchedulerBridge.finalize is held all along, and  *)
(* evidence on disk, which no transaction holds, is read again before the   *)
(* receipt is written.                                                      *)
THEOREM DeliveredAsCompared == Spec => DeliveredAsReceived
<1>1. ASSUME DeliveryInv, NEW w \in Walks, CommitDelivery(w)
      PROVE  /\ receipt.gate.rows = rows
             /\ run.status = "ready" /\ FpOf(run.bound) = receipt.env
  <2>1. walk[w].phase = "written"
    BY <1>1 DEF CommitDelivery, At
  <2>2. Process(walk[w]) /\ AsCompared(walk[w]) /\ receipt = walk[w].found
    BY <1>1, <2>1 DEF DeliveryInv, Processes, Locked, Held
  <2> QED BY <2>1, <2>2 DEF Process, AsCompared, Held
<1>2. ASSUME DeliveryInv, NEW w \in Walks, WriteReceipt(w), receipt' # receipt
      PROVE  /\ run.accepted \notin damaged
             /\ \A c \in Channels : run.channel[c] = "ok" => c \notin damaged
             /\ \A o \in Ops : receipt'.gate.rows[o] = "done" => o \notin damaged
  <2>1. Unchanged(w) /\ receipt' = walk[w].found
    BY <1>2 DEF WriteReceipt, Rejected
  <2>2. walk[w].found.gate.state = "ready"
    BY <1>2 DEF WriteReceipt, At, DeliveryInv, Processes, Process, Held
  <2>3. ~GateErrors /\ receipt'.gate.rows = rows
    BY <2>1, <2>2 DEF Unchanged, DeliveryStatus, GateState
  <2> QED BY <2>3 DEF GateErrors, EnvironmentReady
<1>3. DeliveryInv => [\A w \in Walks :
         /\ WriteReceipt(w) /\ receipt' # receipt =>
              /\ run.accepted \notin damaged
              /\ \A c \in Channels : run.channel[c] = "ok" => c \notin damaged
              /\ \A o \in Ops : receipt'.gate.rows[o] = "done" => o \notin damaged
         /\ CommitDelivery(w) =>
              /\ receipt.gate.rows = rows
              /\ run.status = "ready" /\ FpOf(run.bound) = receipt.env]_vars
  BY <1>1, <1>2
<1> QED BY <1>3, DeliveryStart, DeliveryStep, PTL DEF Spec, DeliveredAsReceived

-----------------------------------------------------------------------------
(* Every reported operator is known before a dispatch is recorded          *)

Covered == GapOps \subseteq Discovered

(* What a process says of the dispatch of the classification.              *)
Reporting(c, known) ==
  /\ "gap" \in c.of => GapOps \subseteq known
  /\ c.at = "dispatch" /\ c.phase = "published" /\ ~c.half => GapOps \subseteq known
  /\ c.at = "dispatch" /\ c.phase = "dispatch" /\ ~c.half =>
       GapOps \ c.todo \subseteq known

Facts == {"env", "gate", "of"}

JournalShape ==
  /\ DOMAIN journal = {"proof", "made", "facts"} /\ DOMAIN journal.facts = Kinds
  /\ \A k \in Kinds : DOMAIN journal.facts[k] = Facts

ReportInv ==
  /\ DOMAIN rows = Ops /\ JournalShape
  /\ "gap" \in journal.facts["dispatch"].of => Covered
  /\ \A w \in Walks : Reporting(walk[w], Discovered)

RowsGrow == DOMAIN rows' = Ops /\ Discovered \subseteq Discovered'

LEMMA RowsOnlyGrow ==
  ASSUME DOMAIN rows = Ops, Next
  PROVE  RowsGrow
<1>1. CASE rows' = rows
  BY <1>1 DEF RowsGrow, Discovered
<1>2. CASE \E o \in Ops : rows' = [rows EXCEPT ![o] = "open"]
  BY <1>2 DEF RowsGrow, Discovered
<1>3. CASE \E o \in Ops : rows[o] # "unknown" /\ (rows' = [rows EXCEPT ![o] = "done"]
                                        \/ rows' = [rows EXCEPT ![o] = "failed"])
  BY <1>3 DEF RowsGrow, Discovered
<1>4. ASSUME NEW w \in Walks, WalkStep(w)  PROVE rows' = rows \/ \E o \in Ops : rows' = [rows EXCEPT ![o] = "open"]
  BY <1>4 DEF WalkStep, Scope, Bind, BindRefused, BindKnown, BindRun, BindGraph, ReuseProof,
     Prove, DispatchGaps, RegisterShims, DispatchShims, Discover, PublishDispatch,
     RecordDispatch, ReuseRegression, BeginRegression, PassRegression, ReuseBaseline,
     FreezeBaseline, Integrate, Unresolved, CollectFacts, BeginDelivery, WriteReceipt,
     CommitDelivery
<1>5. ASSUME NEW w \in Walks, WalkFault(w)  PROVE rows' = rows
  BY <1>5 DEF WalkFault, ProofFails, Kill, BadEntry, FailRegression
<1>6. ASSUME NEW w \in Walks, NEW from, Start(w, from)  PROVE rows' = rows
  BY <1>6 DEF Start
<1>7. ASSUME NEW o \in Ops, Integrated(o) \/ Fails(o)
      PROVE  rows[o] # "unknown" /\ (rows' = [rows EXCEPT ![o] = "done"]
                                        \/ rows' = [rows EXCEPT ![o] = "failed"])
  BY <1>7 DEF Integrated, Fails
<1>8. ASSUME NEW o \in Ops, Retried(o)  PROVE rows' = [rows EXCEPT ![o] = "open"]
  BY <1>8 DEF Retried
<1>9. ASSUME NEW o \in Ops, DispatchByHand(o)
      PROVE  RowsGrow
  BY <1>9 DEF DispatchByHand, RowsGrow, Discovered
<1>10. ASSUME NEW e, Damage(e)  PROVE rows' = rows
  BY <1>10 DEF Damage
<1>11. ASSUME NEW p, BindByHand(p)  PROVE rows' = rows
  BY <1>11 DEF BindByHand
<1>12. CASE \E w \in Walks : WalkStep(w) \/ WalkFault(w) \/ (\E from : Start(w, from))
  BY <1>1, <1>2, <1>4, <1>5, <1>6, <1>12
<1>13. CASE \E o \in Ops : Integrated(o) \/ Fails(o) \/ Retried(o) \/ DispatchByHand(o)
  BY <1>2, <1>3, <1>7, <1>8, <1>9, <1>13
<1>14. CASE (\E e \in Fragile : Damage(e)) \/ \E p \in Proofs : BindByHand(p)
  BY <1>1, <1>10, <1>11, <1>14
<1> QED BY <1>12, <1>13, <1>14 DEF Next, Resume

(* The journal: a fact of kind k replaces the last one. *)
LEMMA RecordShape ==
  ASSUME JournalShape, NEW k \in Kinds, NEW fact, DOMAIN fact = Facts, Record(k, fact),
         k = "dispatch" /\ "gap" \in fact.of => Covered',
         "gap" \in journal.facts["dispatch"].of => Covered'
  PROVE  /\ JournalShape'
         /\ "gap" \in journal'.facts["dispatch"].of => Covered'
<1> DEFINE kept(j) == journal.facts[j].of \ {k}
<1>1. journal' = [journal EXCEPT !.facts = Recorded(k, fact)]
  BY DEF Record
<1>2. DOMAIN journal' = {"proof", "made", "facts"} /\ journal'.facts = Recorded(k, fact)
  BY <1>1 DEF JournalShape
<1>3. ASSUME NEW j \in Kinds
      PROVE  /\ DOMAIN Recorded(k, fact)[j] = Facts
             /\ j = k => Recorded(k, fact)[j] = fact
             /\ j # k => Recorded(k, fact)[j].of \subseteq journal.facts[j].of
  <2>1. Recorded(k, fact)[j] = IF j = k THEN fact
                               ELSE [journal.facts[j] EXCEPT !.of = kept(j)]
    BY DEF Recorded, JournalShape, Facts
  <2>2. kept(j) \subseteq journal.facts[j].of
    OBVIOUS
  <2> HIDE DEF kept
  <2> QED BY <2>1, <2>2 DEF JournalShape, Facts
<1>4. DOMAIN Recorded(k, fact) = Kinds /\ "dispatch" \in Kinds
  BY DEF Recorded, Kinds
<1>5. "gap" \in Recorded(k, fact)["dispatch"].of => Covered'
  BY <1>3, <1>4
<1>6. JournalShape'
  BY <1>2, <1>3, <1>4 DEF JournalShape
<1> QED BY <1>2, <1>5, <1>6

JournalKept ==
  /\ JournalShape'
  /\ "gap" \in journal'.facts["dispatch"].of => Covered'

LEMMA FactsKept ==
  ASSUME ReportInv, RowsGrow,
         journal' = journal \/ \E p, made : journal' = [journal EXCEPT !.proof = p, !.made = made]
                            \/ journal' = [journal EXCEPT !.proof = p]
  PROVE  JournalKept
<1>1. DOMAIN journal' = DOMAIN journal /\ journal'.facts = journal.facts
  BY DEF ReportInv, JournalShape
<1>2. Covered => Covered'
  BY DEF RowsGrow, Covered
<1> QED BY <1>1, <1>2 DEF ReportInv, JournalKept, JournalShape, Kinds

(* A process that goes on, or starts another attempt: it says no more of   *)
(* the dispatch than before, or than it may.                               *)
Kin(v) ==
  /\ walk'[v].at = walk[v].at /\ walk'[v].phase = walk[v].phase
  /\ walk'[v].half = walk[v].half /\ walk'[v].todo = walk[v].todo
  /\ walk'[v].of \subseteq walk[v].of

LEMMA ReportKept ==
  ASSUME ReportInv, RowsGrow, JournalKept, NEW w \in Walks,
         \A v \in Walks \ {w} : Kin(v), Reporting(walk'[w], Discovered')
  PROVE  ReportInv'
<1>1. ASSUME NEW v \in Walks \ {w}  PROVE Reporting(walk'[v], Discovered')
  BY DEF ReportInv, Kin, Reporting, RowsGrow
<1> QED BY <1>1 DEF ReportInv, RowsGrow, JournalKept

Plain(c) == c.phase \notin {"dispatch", "published"}

LEMMA BecomeReports ==
  ASSUME DeliveryInv, ReportInv, RowsGrow, JournalKept, NEW w \in Walks, NEW c, Become(w, c),
         Reporting(c, Discovered')
  PROVE  ReportInv'
<1>1. walk'[w] = c /\ \A v \in Walks \ {w} : walk'[v] = walk[v]
  BY DEF DeliveryInv, Processes, Become
<1> QED BY <1>1, ReportKept DEF Kin

LEMMA BecomePlain ==
  ASSUME DeliveryInv, ReportInv, RowsGrow, JournalKept, NEW w \in Walks, NEW c, Become(w, c),
         Plain(c), "gap" \notin c.of \/ c.of = walk[w].of
  PROVE  ReportInv'
<1>1. Reporting(c, Discovered')
  BY DEF ReportInv, Reporting, Plain, RowsGrow
<1> QED BY <1>1, BecomeReports

LEMMA RestIsPlain == Plain(AtRest) /\ "gap" \notin AtRest.of
BY DEF AtRest, Plain

LEMMA NodeIsPlain ==
  ASSUME NEW w, NEW n, NEW e
  PROVE  Plain(AtNode(w, n, e)) /\ "gap" \notin AtNode(w, n, e).of
BY DEF AtRest, AtNode, Plain

(* The same where a newer fact outdates what the others refer to. *)
LEMMA OutdatedPlain ==
  ASSUME DeliveryInv, ReportInv, RowsGrow, JournalKept, NEW w \in Walks, NEW k, NEW next,
         walk' = [Outdated(k) EXCEPT ![w] = next] \/ GoAfter(w, k, next),
         Reporting(next, Discovered')
  PROVE  ReportInv'
<1>1. walk'[w] = next
  BY DEF Outdated, GoAfter
<1>2. ASSUME NEW v \in Walks \ {w}  PROVE Kin(v)
  <2> DEFINE of == walk[v].of \ {k}
             c == [walk[v] EXCEPT !.of = of]
  <2>1. DOMAIN walk[v] = Fields
    BY DEF DeliveryInv, Processes, Process
  <2>2. walk'[v] = c
    BY <2>1 DEF Outdated, GoAfter, Fields
  <2>3. of \subseteq walk[v].of
    OBVIOUS
  <2> HIDE DEF of
  <2>4. /\ c.at = walk[v].at /\ c.phase = walk[v].phase /\ c.half = walk[v].half
        /\ c.todo = walk[v].todo /\ c.of = of
    BY <2>1 DEF Fields
  <2> HIDE DEF c
  <2> QED BY <2>2, <2>3, <2>4 DEF Kin
<1> QED BY <1>1, <1>2, ReportKept

LEMMA PlainReports ==
  ASSUME NEW c, Plain(c), "gap" \notin c.of, NEW known
  PROVE  Reporting(c, known)
BY DEF Plain, Reporting

LEMMA OpeningReports ==
  ASSUME DeliveryInv, ReportInv, RowsGrow, NEW w \in Walks
  PROVE  /\ \A from : Start(w, from) => ReportInv'
         /\ Scope(w) => ReportInv'
         /\ Bind(w) => ReportInv'
         /\ Kill(w) => ReportInv'
         /\ ReuseProof(w) => ReportInv'
         /\ \A p \in Proofs : Prove(w, p) => ReportInv'
         /\ ProofFails(w) => ReportInv'
<1> USE DEF Plain
<1>1. ASSUME NEW from, Start(w, from)  PROVE ReportInv'
  <2> DEFINE phase == IF run.bound = NoProof THEN "scope" ELSE "rebind"
             queue == IF run.bound = NoProof THEN <<>> ELSE <<run.bound>>
             c == [AtRest EXCEPT !.at = from, !.phase = phase, !.queue = queue]
  <2>1. Become(w, c) /\ journal' = journal
    BY <1>1 DEF Start
  <2>2. phase \in {"scope", "rebind"}
    OBVIOUS
  <2> HIDE DEF phase, queue
  <2>3. c.phase = phase /\ c.of = {}
    BY DEF AtRest
  <2> HIDE DEF c
  <2> QED BY <2>1, <2>2, <2>3, FactsKept, BecomePlain
<1>2. ASSUME Scope(w)  PROVE ReportInv'
  <2> DEFINE known == IF ~UsableProof /\ run.bound # NoProof THEN run.bound
                      ELSE journal.proof
             usable == known # NoProof /\ known \notin damaged
             phase == IF usable THEN "bind" ELSE "enter"
             queue == IF usable THEN <<known>> ELSE <<>>
             c == [walk[w] EXCEPT !.phase = phase, !.queue = queue]
  <2>1. Become(w, c) /\ journal' = [journal EXCEPT !.proof = known]
    BY <1>2 DEF Scope
  <2>2. JournalKept
    <3> HIDE DEF known
    <3> QED BY <2>1, FactsKept
  <2>3. phase \in {"bind", "enter"}
    OBVIOUS
  <2> HIDE DEF phase, queue
  <2>4. c.phase = phase /\ c.of = walk[w].of
    BY DEF DeliveryInv, Processes, Process, Fields
  <2> HIDE DEF c
  <2> QED BY <2>1, <2>2, <2>3, <2>4, BecomePlain
<1>3. ASSUME Bind(w)  PROVE ReportInv'
  <2>1. PICK p \in Proofs :
          BindRefused(w, p) \/ BindKnown(w, p) \/ BindRun(w, p) \/ BindGraph(w, p)
    BY <1>3 DEF Bind
  <2>2. JournalKept
    BY <2>1, FactsKept DEF BindRefused, BindKnown, BindRun, BindGraph
  <2>3. ASSUME BindDone(w)  PROVE ReportInv'
    <3> DEFINE again == [AtRest EXCEPT !.at = walk[w].at, !.phase = "scope"]
    <3>1. Plain(again) /\ again.of = {}
      BY DEF AtRest
    <3>2. Become(w, again) \/ Become(w, AtNode(w, walk[w].at, Proven))
      BY <2>3 DEF BindDone
    <3> HIDE DEF again, Plain
    <3> QED BY <2>2, <3>1, <3>2, NodeIsPlain, BecomePlain
  <2>4. CASE BindRefused(w, p)
    BY <2>2, <2>4, RestIsPlain, BecomePlain DEF BindRefused, Exit
  <2>5. CASE BindRun(w, p)
    <3> DEFINE c == [walk[w] EXCEPT !.half = TRUE]
    <3>1. c.phase \in {"rebind", "bind"} /\ c.of = walk[w].of
      BY <2>5 DEF BindRun, Binding, DeliveryInv, Processes, Process, Fields
    <3>2. Become(w, c)
      BY <2>5 DEF BindRun
    <3> HIDE DEF c
    <3> QED BY <2>2, <3>1, <3>2, BecomePlain
  <2> QED BY <2>1, <2>3, <2>4, <2>5 DEF BindKnown, BindGraph
<1>4. ASSUME Kill(w)  PROVE ReportInv'
  BY <1>4, RestIsPlain, FactsKept, BecomePlain DEF Kill, Exit
<1>5. ASSUME ReuseProof(w)  PROVE ReportInv'
  BY <1>5, NodeIsPlain, FactsKept, BecomePlain DEF ReuseProof, Go
<1>6. ASSUME NEW p \in Proofs, Prove(w, p)  PROVE ReportInv'
  <2> DEFINE c == [walk[w] EXCEPT !.at = "dispatch", !.phase = "bind", !.queue = <<p>>]
             made == journal.made \cup {p}
  <2>1. c.phase = "bind" /\ c.of = walk[w].of
    BY DEF DeliveryInv, Processes, Process, Fields
  <2>2. Become(w, c) /\ journal' = [journal EXCEPT !.proof = p, !.made = made]
    BY <1>6 DEF Prove, ReportInv, JournalShape
  <2>3. JournalKept
    <3> HIDE DEF made
    <3> QED BY <2>2, FactsKept
  <2> HIDE DEF c
  <2> QED BY <2>1, <2>2, <2>3, BecomePlain
<1>7. ASSUME ProofFails(w)  PROVE ReportInv'
  BY <1>7, RestIsPlain, FactsKept, BecomePlain DEF ProofFails, Exit
<1> QED BY <1>1, <1>2, <1>3, <1>4, <1>5, <1>6, <1>7

(* A report is dispatched whole, or with errors on record: an operator     *)
(* leaves the list when the scheduler knows it.                            *)
LEMMA DispatchReports ==
  ASSUME DeliveryInv, ReportInv, RowsGrow, NEW w \in Walks
  PROVE  /\ DispatchGaps(w) => ReportInv'
         /\ DispatchShims(w) => ReportInv'
         /\ RegisterShims(w) => ReportInv'
         /\ \A o \in Ops : Discover(w, o) => ReportInv'
         /\ \A o \in Ops : BadEntry(w, o) => ReportInv'
<1>a. DOMAIN walk[w] = Fields
  BY DEF DeliveryInv, Processes, Process
<1>1. ASSUME NEW reported, BeginDispatch(w, reported), journal' = journal,
             walk[w].at = "dispatch" => reported = GapOps
      PROVE  ReportInv'
  <2> DEFINE half == ~EnvironmentReady
             todo == IF EnvironmentReady THEN reported ELSE {}
             c == [walk[w] EXCEPT !.phase = "dispatch", !.half = half, !.todo = todo]
  <2>1. Become(w, c)
    BY <1>1 DEF BeginDispatch
  <2>2. walk[w].at = "dispatch" /\ ~half => todo = GapOps
    BY <1>1
  <2> HIDE DEF half, todo
  <2>3. /\ c.at = walk[w].at /\ c.phase = "dispatch" /\ c.half = half /\ c.todo = todo
        /\ c.of = walk[w].of
    BY <1>a DEF Fields
  <2> HIDE DEF c
  <2>4. Reporting(c, Discovered')
    BY <2>2, <2>3 DEF ReportInv, Reporting, RowsGrow
  <2> QED BY <1>1, <2>1, <2>4, FactsKept, BecomeReports
<1>2. ASSUME DispatchGaps(w)  PROVE ReportInv'
  BY <1>1, <1>2 DEF DispatchGaps
<1>3. ASSUME DispatchShims(w)  PROVE ReportInv'
  BY <1>1, <1>3 DEF DispatchShims, At
<1>4. ASSUME RegisterShims(w)  PROVE ReportInv'
  <2> DEFINE c == [walk[w] EXCEPT !.phase = "registered"]
             fact == [NoFact EXCEPT !.env = walk[w].env]
  <2>1. GoAfter(w, "registry", c) /\ Record("registry", fact)
    BY <1>4 DEF RegisterShims
  <2>2. c.phase = "registered" /\ c.of = walk[w].of
    BY <1>a DEF Fields
  <2>3. DOMAIN fact = Facts
    BY DEF NoFact, Facts
  <2> HIDE DEF c, fact
  <2>4. JournalKept
    BY <2>1, <2>3, RecordShape DEF ReportInv, RowsGrow, Covered, JournalKept, Kinds
  <2>5. Reporting(c, Discovered')
    BY <2>2 DEF ReportInv, Reporting, RowsGrow
  <2> QED BY <2>1, <2>4, <2>5, OutdatedPlain
<1>5. ASSUME NEW o \in Ops, Discover(w, o)  PROVE ReportInv'
  <2> DEFINE ready == run.status = "ready"
             todo == walk[w].todo \ {o}
             half == walk[w].half \/ ~ready
             c == [walk[w] EXCEPT !.todo = todo, !.half = half]
  <2>1. Become(w, c) /\ journal' = journal
    BY <1>5, <1>a DEF Discover, Fields, Become
  <2>2. ready => o \in Discovered'
    BY <1>5 DEF Discover, Discovered, ReportInv
  <2>3. ~half => ~walk[w].half /\ ready
    OBVIOUS
  <2>4. walk[w].phase = "dispatch"
    BY <1>5 DEF Discover
  <2> HIDE DEF half, ready
  <2>5. /\ c.at = walk[w].at /\ c.phase = "dispatch" /\ c.half = half /\ c.todo = todo
        /\ c.of = walk[w].of
    BY <1>a, <2>4 DEF Fields
  <2> HIDE DEF c
  <2>6. Reporting(c, Discovered')
    BY <2>2, <2>3, <2>4, <2>5 DEF ReportInv, Reporting, RowsGrow
  <2> QED BY <2>1, <2>6, FactsKept, BecomeReports
<1>6. ASSUME NEW o \in Ops, BadEntry(w, o)  PROVE ReportInv'
  <2> DEFINE todo == walk[w].todo \ {o}
             c == [walk[w] EXCEPT !.todo = todo, !.half = TRUE]
  <2>1. Become(w, c) /\ journal' = journal
    BY <1>6, <1>a DEF BadEntry, Fields, Become
  <2> HIDE DEF todo
  <2>2. c.half = TRUE /\ c.of = walk[w].of
    BY <1>a DEF Fields
  <2> HIDE DEF c
  <2>3. Reporting(c, Discovered')
    BY <2>2 DEF ReportInv, Reporting, RowsGrow
  <2> QED BY <2>1, <2>3, FactsKept, BecomeReports
<1> QED BY <1>2, <1>3, <1>4, <1>5, <1>6

LEMMA DispatchedKept ==
  ASSUME ReportInv, RowsGrow, NEW c, NEW blocked, Dispatched(c, blocked)
  PROVE  JournalKept
<1>1. CASE journal' = journal
  BY <1>1, FactsKept
<1>2. CASE journal' = [journal EXCEPT !.facts["dispatch"].of = {}]
  <2>1. /\ DOMAIN journal' = {"proof", "made", "facts"} /\ DOMAIN journal'.facts = Kinds
        /\ \A k \in Kinds : DOMAIN journal'.facts[k] = Facts
        /\ journal'.facts["dispatch"].of = {}
    BY <1>2 DEF ReportInv, JournalShape, Kinds, Facts
  <2> QED BY <2>1 DEF JournalKept, JournalShape
<1> QED BY <1>1, <1>2 DEF Dispatched

LEMMA PublishReports ==
  ASSUME DeliveryInv, ReportInv, RowsGrow, NEW w \in Walks
  PROVE  /\ PublishDispatch(w) => ReportInv'
         /\ RecordDispatch(w) => ReportInv'
<1>a. DOMAIN walk[w] = Fields
  BY DEF DeliveryInv, Processes, Process
<1>1. ASSUME PublishDispatch(w)  PROVE ReportInv'
  <2> DEFINE blocked == walk[w].half \/ run.status # "ready"
             published == [walk[w] EXCEPT !.phase = "published", !.half = blocked]
             next == IF walk[w].at = "dispatch" THEN published
                     ELSE IF blocked THEN AtRest ELSE AtNode(w, "service", walk[w].env)
  <2>1. /\ walk' = [Outdated(ChannelOf(w)) EXCEPT ![w] = next]
        /\ Dispatched(ChannelOf(w), blocked)
        /\ walk[w].phase = "dispatch" /\ walk[w].todo = {}
    BY <1>1 DEF PublishDispatch
  <2>2. ~blocked => ~walk[w].half
    OBVIOUS
  <2> HIDE DEF blocked
  <2>3. JournalKept
    BY <2>1, DispatchedKept
  <2>4. Reporting(next, Discovered')
    <3>1. /\ published.at = walk[w].at /\ published.phase = "published"
          /\ published.half = blocked /\ published.of = walk[w].of
      BY <1>a DEF Fields
    <3> HIDE DEF published
    <3>2. walk[w].at = "dispatch" => Reporting(published, Discovered')
      BY <2>1, <2>2, <3>1 DEF ReportInv, Reporting, RowsGrow
    <3> QED BY <3>2, RestIsPlain, NodeIsPlain, PlainReports
  <2> HIDE DEF next
  <2> QED BY <2>1, <2>3, <2>4, OutdatedPlain
<1>2. ASSUME RecordDispatch(w)  PROVE ReportInv'
  <2> DEFINE fact == [NoFact EXCEPT !.env = walk[w].env, !.of = {"gap"}]
  <2>1. DOMAIN NoFact = Facts /\ NoFact.of = {} /\ DOMAIN fact = Facts
    BY DEF NoFact, Facts
  <2>2. ~walk[w].half => Covered'
    BY <1>2 DEF RecordDispatch, At, ReportInv, Reporting, RowsGrow, Covered
  <2>3. CASE walk[w].half
    <3>1. Record("dispatch", NoFact) /\ GoAfter(w, "dispatch", AtRest)
      BY <1>2, <2>3 DEF RecordDispatch
    <3>2. JournalKept
      BY <2>1, <3>1, RecordShape DEF ReportInv, RowsGrow, Covered, JournalKept, Kinds
    <3> QED BY <3>1, <3>2, RestIsPlain, PlainReports, OutdatedPlain
  <2>4. CASE ~walk[w].half
    <3>1. /\ Record("dispatch", fact)
          /\ GoAfter(w, "dispatch", AtNode(w, "shim", walk[w].env))
      BY <1>2, <2>4 DEF RecordDispatch
    <3> HIDE DEF fact
    <3>2. JournalKept
      BY <2>1, <2>2, <2>4, <3>1, RecordShape DEF ReportInv, RowsGrow, Covered, JournalKept, Kinds
    <3> QED BY <3>1, <3>2, NodeIsPlain, PlainReports, OutdatedPlain
  <2> QED BY <2>3, <2>4
<1> QED BY <1>1, <1>2

(* A fact of another kind says nothing of the dispatch. *)
LEMMA OtherFactKept ==
  ASSUME ReportInv, RowsGrow, NEW k \in Kinds \ {"dispatch"}, NEW fact, DOMAIN fact = Facts,
         Record(k, fact)
  PROVE  JournalKept
BY RecordShape DEF ReportInv, RowsGrow, Covered, JournalKept

LEMMA RegressionReports ==
  ASSUME DeliveryInv, ReportInv, RowsGrow, NEW w \in Walks, NEW k \in Regressions
  PROVE  /\ ReuseRegression(w, k) => ReportInv'
         /\ BeginRegression(w, k) => ReportInv'
         /\ PassRegression(w, k) => ReportInv'
         /\ FailRegression(w, k) => ReportInv'
<1>a. k \in Kinds \ {"dispatch"}
  BY DEF Regressions, Kinds
<1>1. ASSUME ReuseRegression(w, k)  PROVE ReportInv'
  BY <1>1, NodeIsPlain, FactsKept, BecomePlain DEF ReuseRegression, Go
<1>2. ASSUME BeginRegression(w, k)  PROVE ReportInv'
  <2> DEFINE of == IF k = "accuracy" THEN {"service"} ELSE {}
             c == [walk[w] EXCEPT !.phase = "running", !.gate = DeliveryStatus, !.of = of]
  <2>1. Become(w, c) /\ journal' = journal
    BY <1>2 DEF BeginRegression
  <2>2. "gap" \notin of
    OBVIOUS
  <2> HIDE DEF of
  <2>3. c.phase = "running" /\ c.of = of
    BY DEF DeliveryInv, Processes, Process, Fields
  <2> HIDE DEF c
  <2> QED BY <2>1, <2>2, <2>3, FactsKept, BecomePlain DEF Plain
<1>3. ASSUME PassRegression(w, k)  PROVE ReportInv'
  <2> DEFINE fact == [env |-> walk[w].env, gate |-> walk[w].gate, of |-> walk[w].of]
  <2>1. DOMAIN fact = Facts
    BY DEF Facts
  <2>2. Record(k, fact)
    BY <1>3 DEF PassRegression
  <2> HIDE DEF fact
  <2>3. JournalKept
    BY <1>a, <2>1, <2>2, OtherFactKept
  <2> QED BY <1>3, <2>3, NodeIsPlain, PlainReports, OutdatedPlain DEF PassRegression
<1>4. ASSUME FailRegression(w, k)  PROVE ReportInv'
  <2>1. DOMAIN NoFact = Facts
    BY DEF NoFact, Facts
  <2>2. JournalKept
    BY <1>4, <1>a, <2>1, OtherFactKept DEF FailRegression
  <2> QED BY <1>4, <2>2, RestIsPlain, PlainReports, OutdatedPlain DEF FailRegression
<1> QED BY <1>1, <1>2, <1>3, <1>4

LEMMA BaselineReports ==
  ASSUME DeliveryInv, ReportInv, RowsGrow, NEW w \in Walks
  PROVE  /\ ReuseBaseline(w) => ReportInv'
         /\ FreezeBaseline(w) => ReportInv'
         /\ Integrate(w) => ReportInv'
         /\ Unresolved(w) => ReportInv'
<1>a. DOMAIN NoFact = Facts
  BY DEF NoFact, Facts
<1>1. ASSUME ReuseBaseline(w)  PROVE ReportInv'
  BY <1>1, NodeIsPlain, FactsKept, BecomePlain DEF ReuseBaseline, Go
<1>2. ASSUME FreezeBaseline(w)  PROVE ReportInv'
  <2> DEFINE fact == [env |-> walk[w].env, of |-> Regressions,
                      gate |-> journal.facts["service"].gate]
  <2>1. DOMAIN fact = Facts
    BY DEF Facts
  <2>2. Record("baseline", fact)
    BY <1>2 DEF FreezeBaseline
  <2> HIDE DEF fact
  <2>3. JournalKept
    BY <2>1, <2>2, OtherFactKept DEF Kinds
  <2> QED BY <1>2, <2>3, NodeIsPlain, PlainReports, OutdatedPlain DEF FreezeBaseline
<1>3. ASSUME Integrate(w)  PROVE ReportInv'
  <2> DEFINE fact == [env |-> walk[w].env, gate |-> DeliveryStatus, of |-> {"baseline"}]
  <2>1. DOMAIN fact = Facts
    BY DEF Facts
  <2>2. \/ /\ Record("integration", fact)
           /\ GoAfter(w, "integration", AtNode(w, "finish", walk[w].env))
        \/ Record("integration", NoFact) /\ GoAfter(w, "integration", AtRest)
    BY <1>3 DEF Integrate
  <2> HIDE DEF fact
  <2>3. JournalKept
    BY <1>a, <2>1, <2>2, OtherFactKept DEF Kinds
  <2> QED BY <2>2, <2>3, RestIsPlain, NodeIsPlain, PlainReports, OutdatedPlain
<1>4. ASSUME Unresolved(w)  PROVE ReportInv'
  BY <1>4, RestIsPlain, FactsKept, BecomePlain DEF Unresolved, Exit
<1> QED BY <1>1, <1>2, <1>3, <1>4

LEMMA DeliveryReports ==
  ASSUME DeliveryInv, ReportInv, RowsGrow, NEW w \in Walks
  PROVE  /\ CollectFacts(w) => ReportInv'
         /\ BeginDelivery(w) => ReportInv'
         /\ WriteReceipt(w) => ReportInv'
         /\ CommitDelivery(w) => ReportInv'
<1>a. DOMAIN walk[w] = Fields
  BY DEF DeliveryInv, Processes, Process
<1>1. ASSUME CollectFacts(w)  PROVE ReportInv'
  <2> DEFINE of == Kinds \cup journal.facts["dispatch"].of
             half == ~(StagesRecorded(w) /\ UsableProofOf(walk[w].env) /\ UsableProof /\ Paired)
             found == [NoReceipt EXCEPT
               !.root = journal.proof, !.env = walk[w].env, !.on = MeasuredOn,
               !.service = journal.facts["service"].gate,
               !.accuracy = journal.facts["accuracy"].gate,
               !.integration = journal.facts["integration"].gate,
               !.baseline = journal.facts["baseline"].gate]
             c == [walk[w] EXCEPT !.phase = "collected", !.half = half, !.of = of,
                                  !.found = found]
  <2>1. Become(w, c)
    BY <1>1 DEF CollectFacts
  <2> HIDE DEF half, found
  <2>2. "gap" \in of => GapOps \subseteq Discovered'
    BY DEF ReportInv, Covered, RowsGrow, Kinds
  <2>3. Become(w, c) /\ JournalKept
    BY <1>1, <2>1, FactsKept DEF CollectFacts
  <2> HIDE DEF of
  <2>4. c.phase = "collected" /\ c.of = of
    BY <1>a DEF Fields
  <2> HIDE DEF c
  <2>5. Reporting(c, Discovered')
    BY <2>2, <2>4 DEF Reporting
  <2> QED BY <2>3, <2>5, BecomeReports
<1>2. ASSUME Rejected(w), journal' = journal  PROVE ReportInv'
  BY <1>2, RestIsPlain, FactsKept, BecomePlain DEF Rejected, Exit
<1>3. ASSUME BeginDelivery(w)  PROVE ReportInv'
  <2> DEFINE found == [walk[w].found EXCEPT !.gate = DeliveryStatus, !.files = run.accepted]
             c == [walk[w] EXCEPT !.phase = "locked", !.found = found]
  <2>1. CASE Compares(w)
    <3>1. DOMAIN walk[w].found = Parts
      BY DEF DeliveryInv, Processes, Process
    <3>2. Become(w, c) /\ journal' = journal
      BY <1>3, <1>a, <2>1, <3>1 DEF BeginDelivery, Compares, Become, Fields, Parts
    <3> HIDE DEF found
    <3>3. c.phase = "locked" /\ c.of = walk[w].of
      BY <1>a DEF Fields
    <3> HIDE DEF c
    <3> QED BY <3>2, <3>3, FactsKept, BecomePlain DEF Plain
  <2> QED BY <1>2, <1>3, <2>1, BeginsOrRejects DEF BeginDelivery
<1>4. ASSUME WriteReceipt(w)  PROVE ReportInv'
  <2> DEFINE c == [walk[w] EXCEPT !.phase = "written"]
  <2>1. journal' = journal /\ (Become(w, c) \/ Rejected(w))
    BY <1>4 DEF WriteReceipt
  <2>2. c.phase = "written" /\ c.of = walk[w].of
    BY <1>a DEF Fields
  <2> HIDE DEF c
  <2> QED BY <1>2, <2>1, <2>2, FactsKept, BecomePlain DEF Plain
<1>5. ASSUME CommitDelivery(w)  PROVE ReportInv'
  BY <1>5, RestIsPlain, FactsKept, BecomePlain DEF CommitDelivery, Exit
<1> QED BY <1>1, <1>3, <1>4, <1>5

LEMMA OutsideReports ==
  ASSUME DeliveryInv, ReportInv, RowsGrow
  PROVE  /\ \A o \in Ops : Integrated(o) \/ Fails(o) \/ Retried(o) => ReportInv'
         /\ \A o \in Ops : DispatchByHand(o) => ReportInv'
         /\ \A e : Damage(e) => ReportInv'
         /\ \A p : BindByHand(p) => ReportInv'
<1>1. ASSUME walk' = walk, journal' = journal  PROVE ReportInv'
  <2>1. \A w \in Walks : Reporting(walk[w], Discovered')
    BY DEF ReportInv, Reporting, RowsGrow
  <2> QED BY <1>1, <2>1, FactsKept DEF ReportInv, JournalKept, RowsGrow
<1>2. ASSUME NEW o \in Ops, DispatchByHand(o)  PROVE ReportInv'
  <2>1. JournalKept
    BY <1>2, DispatchedKept DEF DispatchByHand
  <2>2. ASSUME NEW v \in Walks  PROVE Reporting(walk'[v], Discovered')
    <3> DEFINE of == walk[v].of \ {"gap"}
               c == [walk[v] EXCEPT !.of = of]
    <3>1. DOMAIN walk[v] = Fields
      BY DEF DeliveryInv, Processes, Process
    <3>2. walk'[v] = c
      BY <1>2, <3>1 DEF DispatchByHand, Outdated, Fields
    <3>3. "gap" \notin of
      OBVIOUS
    <3> HIDE DEF of
    <3>4. /\ c.at = walk[v].at /\ c.phase = walk[v].phase /\ c.half = walk[v].half
          /\ c.todo = walk[v].todo /\ c.of = of
      BY <3>1 DEF Fields
    <3> HIDE DEF c
    <3> QED BY <3>2, <3>3, <3>4 DEF ReportInv, Reporting, RowsGrow
  <2> QED BY <2>1, <2>2 DEF ReportInv, JournalKept, RowsGrow
<1> QED BY <1>1, <1>2 DEF Integrated, Fails, Retried, Damage, BindByHand

LEMMA ReportStart == Init => ReportInv
<1> SUFFICES ASSUME Init PROVE ReportInv
  OBVIOUS
<1>1. JournalShape /\ "gap" \notin journal.facts["dispatch"].of
  BY DEF Init, JournalShape, NoFact, Kinds, Facts
<1>2. \A w \in Walks : walk[w] = AtRest
  BY DEF Init
<1> QED BY <1>1, <1>2, RestIsPlain, PlainReports DEF Init, ReportInv

LEMMA ReportStep == DeliveryInv /\ ReportInv /\ [Next]_vars => ReportInv'
<1> SUFFICES ASSUME DeliveryInv, ReportInv, [Next]_vars PROVE ReportInv'
  OBVIOUS
<1>1. CASE UNCHANGED vars
  BY <1>1 DEF vars, ReportInv, Reporting, Covered, Discovered, JournalShape
<1>2. CASE Next
  <2>1. RowsGrow
    BY <1>2, RowsOnlyGrow DEF ReportInv
  <2>2. ASSUME NEW w \in Walks, WalkStep(w)  PROVE ReportInv'
    BY <2>1, <2>2, OpeningReports, DispatchReports, PublishReports, RegressionReports,
       BaselineReports, DeliveryReports DEF WalkStep
  <2>3. ASSUME NEW w \in Walks, WalkFault(w)  PROVE ReportInv'
    BY <2>1, <2>3, OpeningReports, DispatchReports, RegressionReports DEF WalkFault
  <2>4. ASSUME NEW w \in Walks, NEW from, Start(w, from)  PROVE ReportInv'
    BY <2>1, <2>4, OpeningReports
  <2> QED BY <1>2, <2>1, <2>2, <2>3, <2>4, OutsideReports DEF Next, Resume
<1> QED BY <1>1, <1>2

-----------------------------------------------------------------------------
(* What a delivery compares covers every reported operator *)

Covering(c) ==
  c.phase \in Held =>
    /\ \A o \in GapOps \cup ShimOps : c.found.gate.rows[o] = "done"
    /\ \A o \in Ops : c.found.gate.rows[o] \in {"unknown", "done"}

CoverInv == (\A w \in Walks : Covering(walk[w])) /\ ReceiptAfterRegressions

LEMMA CoverStep ==
  ASSUME DeliveryInv, ReportInv, CoverInv, [Next]_vars  PROVE CoverInv'
<1>1. ASSUME NEW w \in Walks, Mild(w)  PROVE CoverInv'
  BY <1>1 DEF Mild, Alike, CoverInv, Covering, ReceiptAfterRegressions
<1>2. ASSUME NEW w \in Walks, BeginDelivery(w), Compares(w)  PROVE CoverInv'
  <2> DEFINE found == [walk[w].found EXCEPT !.gate = DeliveryStatus, !.files = run.accepted]
             c == [walk[w] EXCEPT !.phase = "locked", !.found = found]
  <2>1. DOMAIN walk = Walks /\ DOMAIN walk[w] = Fields /\ DOMAIN walk[w].found = Parts
    BY DEF DeliveryInv, Processes, Process
  <2>2. walk' = [walk EXCEPT ![w] = c] /\ receipt' = receipt
    BY <1>2, <2>1 DEF Compares, Become, Fields, Parts
  <2>3. \A o \in Ops : rows[o] \in {"unknown", "done"}
    BY <1>2 DEF Compares, Deliverable, GateState, Discovered
  <2>4. GapOps \cup ShimOps \subseteq Discovered
    BY <1>2 DEF Compares, Deliverable, ReportInv, Reporting
  <2>5. \A o \in GapOps \cup ShimOps : rows[o] = "done"
    BY <2>3, <2>4 DEF Discovered
  <2>6. found.gate = DeliveryStatus
    BY <2>1 DEF Parts
  <2> HIDE DEF found
  <2>7. c.found = found
    BY <2>1 DEF Fields
  <2> HIDE DEF c
  <2>8. Covering(c)
    BY <2>3, <2>5, <2>6, <2>7 DEF Covering, DeliveryStatus
  <2>9. walk'[w] = c /\ \A v \in Walks \ {w} : walk'[v] = walk[v]
    BY <2>1, <2>2
  <2> QED BY <2>2, <2>8, <2>9 DEF CoverInv, Covering, ReceiptAfterRegressions
<1>3. ASSUME NEW w \in Walks, WriteReceipt(w), ~Rejected(w)  PROVE CoverInv'
  <2> DEFINE c == [walk[w] EXCEPT !.phase = "written"]
  <2>1. /\ DOMAIN walk = Walks /\ DOMAIN walk[w] = Fields
        /\ Process(walk[w]) /\ Covering(walk[w])
    BY DEF DeliveryInv, Processes, Process, CoverInv
  <2>2. walk' = [walk EXCEPT ![w] = c] /\ receipt' = walk[w].found /\ walk[w].phase = "locked"
    BY <1>3 DEF WriteReceipt, Become, At
  <2>3. c.found = walk[w].found
    BY <2>1 DEF Fields
  <2> HIDE DEF c
  <2>4. walk'[w] = c /\ \A v \in Walks \ {w} : walk'[v] = walk[v]
    BY <2>1, <2>2
  <2>5. /\ \A o \in GapOps \cup ShimOps : receipt'.gate.rows[o] = "done"
        /\ \A o \in Ops : receipt'.gate.rows[o] \in {"unknown", "done"}
        /\ receipt'.service = receipt'.gate /\ receipt'.accuracy = receipt'.gate
        /\ receipt'.on = {"service", "baseline"}
    BY <2>1, <2>2 DEF Process, Covering, Held
  <2>6. \A v \in Walks : Covering(walk'[v])
    BY <2>1, <2>2, <2>3, <2>4 DEF Covering, Held, CoverInv
  <2> QED BY <2>5, <2>6 DEF CoverInv, ReceiptAfterRegressions, Covering
<1>4. ASSUME walk' = walk \/ walk' = Outdated("gap"), receipt' = receipt  PROVE CoverInv'
  <2>1. ASSUME NEW v \in Walks  PROVE Covering(walk'[v])
    <3> DEFINE of == walk[v].of \ {"gap"}
               c == [walk[v] EXCEPT !.of = of]
    <3>1. DOMAIN walk[v] = Fields /\ Covering(walk[v])
      BY DEF DeliveryInv, Processes, Process, CoverInv
    <3>2. walk'[v] = walk[v] \/ walk'[v] = c
      BY <1>4, <3>1 DEF Outdated, Fields
    <3> HIDE DEF of
    <3>3. c.phase = walk[v].phase /\ c.found = walk[v].found
      BY <3>1 DEF Fields
    <3> HIDE DEF c
    <3> QED BY <3>1, <3>2, <3>3 DEF Covering
  <2> QED BY <1>4, <2>1 DEF CoverInv, Covering, ReceiptAfterRegressions
<1>5. CASE UNCHANGED vars
  BY <1>4, <1>5 DEF vars
<1>6. ASSUME NEW w \in Walks, WalkStep(w)  PROVE CoverInv'
  <2>1. CASE BeginDelivery(w)
    BY <1>1, <1>2, <2>1, RejectedIsMild, BeginsOrRejects DEF BeginDelivery
  <2>2. CASE WriteReceipt(w)
    BY <1>1, <1>3, <2>2, RejectedIsMild DEF WriteReceipt
  <2>3. CASE ~BeginDelivery(w) /\ ~WriteReceipt(w)
    BY <1>1, <1>6, <2>3, OpeningIsMild, BindIsMild, ProofIsMild, DispatchIsMild, PublishIsMild,
       RegressionIsMild, BaselineIsMild, CollectIsMild, CommitIsMild DEF WalkStep
  <2> QED BY <2>1, <2>2, <2>3
<1>7. ASSUME NEW w \in Walks, WalkFault(w)  PROVE CoverInv'
  BY <1>1, <1>7, OpeningIsMild, ProofIsMild, DispatchIsMild, RegressionIsMild DEF WalkFault
<1>8. ASSUME NEW w \in Walks, NEW from, Start(w, from)  PROVE CoverInv'
  BY <1>1, <1>8, OpeningIsMild
<1>9. CASE \E o \in Ops : Integrated(o) \/ Fails(o) \/ Retried(o) \/ DispatchByHand(o)
  BY <1>4, <1>9 DEF Integrated, Fails, Retried, DispatchByHand
<1>10. CASE (\E e \in Fragile : Damage(e)) \/ \E p \in Proofs : BindByHand(p)
  BY <1>4, <1>10 DEF Damage, BindByHand
<1> QED BY <1>5, <1>6, <1>7, <1>8, <1>9, <1>10 DEF Next, Resume

(* A delivery needs every operator either channel reported done, and both   *)
(* regressions started with all of them done: a channel counts when its     *)
(* whole report was dispatched (GraphSchedulerBridge.dispatch), a           *)
(* regression when its snapshot is the gate of the delivery (_finalize).    *)
(* The accuracy is of the service in the receipt (_accuracy_snapshot), the  *)
(* integration of the baseline in it.                                       *)
THEOREM ReceiptCoversReports == Spec => []ReceiptAfterRegressions
<1>1. Init => CoverInv
  <2> SUFFICES ASSUME Init PROVE CoverInv
    OBVIOUS
  <2>1. \A w \in Walks : walk[w] = AtRest
    BY DEF Init
  <2> QED BY <2>1, RestIsCalm DEF Init, CoverInv, Covering, ReceiptAfterRegressions
<1>2. DeliveryInv /\ ReportInv /\ CoverInv /\ [Next]_vars => CoverInv'
  BY CoverStep
<1>3. CoverInv => ReceiptAfterRegressions
  BY DEF CoverInv
<1> QED BY <1>1, <1>2, <1>3, DeliveryStart, DeliveryStep, ReportStart, ReportStep, PTL DEF Spec

=============================================================================
