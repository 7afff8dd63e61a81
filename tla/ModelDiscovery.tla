--------------------------- MODULE ModelDiscovery ---------------------------
(***************************************************************************)
(* What is known of a model before anything is deployed: the intake        *)
(* fingerprints the checkpoint (MAT-001), the scan asks whether its        *)
(* architectures are implemented (MAT-002), the match whether the          *)
(* installation provides what the configuration demands (MAT-003), and the *)
(* classification turns both reports into the next action (MAT-004).       *)
(*                                                                         *)
(* Installation, upstream and checkpoint change between the tools; each    *)
(* report keeps, as a ghost, what it was made from.                        *)
(***************************************************************************)
EXTENDS Naturals, Sequences

CONSTANTS
  Archs,
  Installations,  \* what the pod and upstream may hold
  Checkpoints     \* what may lie at the model's path

(* found: where an architecture is.  "variants": upstream ships it once    *)
(* per accelerator; "selects", "depends": the choice among them does not   *)
(* raise here, what it imports is here.  registry: can the list of         *)
(* quantization methods be imported.                                       *)
Places == {"oot", "vllm", "variants", "selects", "depends", "main", "pull request"}
AnyInstallation ==
  [found : [Archs -> SUBSET Places], registry : BOOLEAN,
   provides : SUBSET {"attention", "quantization", "moe"}]

(* known: is the attention variant one that the probe knows. *)
Axes == <<"attention", "quantization", "moe", "multimodal", "speculative_decode">>
AnyCheckpoint ==
  [archs : UNION {[1..n -> Archs] : n \in 1..2}, known : BOOLEAN, demands : SUBSET {Axes[i] : i \in 2..5}]

ASSUME DiscoveryConstants ==
  Installations \subseteq AnyInstallation /\ Checkpoints \subseteq AnyCheckpoint

VARIABLES
  pod, checkpoint,
  request,      \* model_request.yaml: what it was made from
  probePods,    \* throwaway pods left in the cluster: ready or not
  scan, matched, classified   \* the three reports

discoveryVars == <<pod, checkpoint, request, probePods, scan, matched, classified>>

NoScan  == [state |-> "none", verdicts |-> <<>>, accepted |-> FALSE, of |-> {}, archs |-> <<>>]
NoMatch == [state |-> "none", axes |-> <<>>, of |-> {}, config |-> {}]
NoClass == [class |-> "none", blocking |-> {}, scan |-> NoScan, matched |-> NoMatch]

DiscoveryInit ==
  /\ pod \in Installations /\ checkpoint \in Checkpoints
  /\ request = {} /\ probePods = {}
  /\ scan = NoScan /\ matched = NoMatch /\ classified = NoClass

(* A patch, an upgrade, a merge upstream, another checkpoint. *)
Reinstall(p) ==
  /\ pod' = p
  /\ UNCHANGED <<checkpoint, request, probePods, scan, matched, classified>>

Replace(c) ==
  /\ checkpoint' = c
  /\ UNCHANGED <<pod, request, probePods, scan, matched, classified>>

-----------------------------------------------------------------------------
(* Intake. *)

(* ls-remote is tried this often when upstream cannot be reached. *)
Attempts == 3

(* tries: the outcomes of ls-remote in order.  The last one counts. *)
Resolves(tries) == tries # <<>> /\ tries[Len(tries)] = "commit"

(* The probe runs in a pod of the caller, or in a throwaway pod that is    *)
(* applied, awaited, and deleted whatever the probe does; an error before  *)
(* it is ready passes the deletion by.  A pod without the labels of this   *)
(* attempt is not deleted.                                                 *)
PodFates == {"attached", "not applied", "never ready", "deleted", "not ours"}
LeftBehind(fate) == {fate} \cap {"never ready", "not ours"}

(* readable: the probe found a checkpoint; sound: the validator has no     *)
(* objection to the request.  A refused request stays where it is.         *)
Intake(tries, fate, readable) ==
  /\ IF Resolves(tries)
     THEN probePods' = probePods \cup LeftBehind(fate)
     ELSE UNCHANGED probePods
  /\ request' = IF Resolves(tries) /\ fate \in {"attached", "deleted", "not ours"} /\ readable
                THEN {checkpoint} ELSE request
  /\ UNCHANGED <<pod, checkpoint, scan, matched, classified>>

-----------------------------------------------------------------------------
(* Scan. *)

(* Defect: a lookup that cannot be made has found nothing. *)
BugLookup(there, reached) == IF there /\ reached THEN "FOUND" ELSE "NOT_FOUND"

Lookup(there, reached) ==
  IF ~reached THEN "UNKNOWN" ELSE IF there THEN "FOUND" ELSE "NOT_FOUND"

(* inspected: the source of the architecture could be located. *)
VariantRuns(places, inspected) ==
  inspected /\ "variants" \in places => {"selects", "depends"} \subseteq places

Upstream(main, pr) ==
  CASE main = "FOUND" -> "MAIN_ONLY"
    [] main # "FOUND" /\ pr = "FOUND" -> "PR_PENDING"
    [] "FOUND" \notin {main, pr} /\ "UNKNOWN" \in {main, pr} -> "UNKNOWN_UPSTREAM"
    [] OTHER -> "ABSENT"

(* reach: what could be reached, and whether the source was located. *)
Verdict(places, reach) ==
  IF "oot" \in places THEN "KUNLUN_OOT"
  ELSE IF "vllm" \in places
  THEN IF VariantRuns(places, "source" \in reach)
       THEN "UPSTREAM_GENERIC" ELSE "UPSTREAM_VENDORED_VARIANT"
  ELSE Upstream(Lookup("main" \in places, "main" \in reach),
                Lookup("pull request" \in places, "pull request" \in reach))

(* validate_support_card: a variant that does not run has to name what it  *)
(* misses; one whose selection raises may miss nothing.                    *)
CardAccepted(verdicts, archs, p) ==
  /\ verdicts # <<>>
  /\ \A i \in DOMAIN verdicts :
       verdicts[i] = "UPSTREAM_VENDORED_VARIANT" => "depends" \notin p.found[archs[i]]

(* The report is written before its verdict.  The probe fails as a whole   *)
(* on a runtime it cannot import.                                          *)
ScanSupport(c, usable, reach) ==
  /\ c \in request
  /\ LET verdicts == IF ~usable THEN <<>>
                     ELSE [i \in DOMAIN c.archs |-> Verdict(pod.found[c.archs[i]], reach)]
     IN scan' = [state |-> IF usable THEN "SCAN_READY" ELSE "SCAN_FAILED",
                 verdicts |-> verdicts,
                 accepted |-> usable /\ CardAccepted(verdicts, c.archs, pod),
                 of |-> {pod}, archs |-> c.archs]
  /\ UNCHANGED <<pod, checkpoint, request, probePods, matched, classified>>

-----------------------------------------------------------------------------
(* Match. *)

Module(axis, p) == IF axis \in p.provides THEN "PROVIDED_MODULE_ONLY" ELSE "NOT_PROVIDED"

(* An attention variant the probe does not know has no backend, and a      *)
(* registry that cannot be imported lists no method.  Multimodal input and *)
(* speculative layers are not looked into.                                 *)
AxisVerdict(axis, c, p) ==
  CASE axis = "attention" -> IF c.known THEN Module(axis, p) ELSE "NOT_PROVIDED"
    [] axis # "attention" /\ axis \notin c.demands -> "NOT_REQUIRED"
    [] axis = "quantization" /\ axis \in c.demands ->
         IF p.registry /\ axis \in p.provides THEN "PROVIDED" ELSE "NOT_PROVIDED"
    [] axis = "moe" /\ axis \in c.demands -> Module(axis, p)
    [] OTHER -> "UNKNOWN"

(* The match wants a scan that is ready, accepted or not.  It reads the    *)
(* configuration that lies at the path by now.                             *)
Match(usable) ==
  /\ request # {} /\ scan.state = "SCAN_READY"
  /\ matched' = [state |-> IF usable THEN "MATCH_READY" ELSE "MATCH_FAILED",
                 axes |-> IF usable
                          THEN [i \in DOMAIN Axes |-> AxisVerdict(Axes[i], checkpoint, pod)]
                          ELSE <<>>,
                 of |-> {pod}, config |-> {checkpoint}]
  /\ UNCHANGED <<pod, checkpoint, request, probePods, scan, classified>>

-----------------------------------------------------------------------------
(* Classification. *)

(* A verdict that the table does not know is unverified, which is all that *)
(* becomes of a variant written for other hardware.                        *)
ScanClass(verdict) ==
  CASE verdict = "ABSENT" -> "REGISTRATION_MISSING"
    [] verdict \in {"PR_PENDING", "MAIN_ONLY"} -> "VERSION_LAG"
    [] verdict \in {"KUNLUN_OOT", "UPSTREAM_GENERIC"} -> "none"
    [] OTHER -> "UNVERIFIED"

AxisClass(verdict) ==
  CASE verdict = "NOT_PROVIDED" -> "CAPABILITY_MISSING"
    [] verdict = "UNKNOWN" -> "UNVERIFIED"
    [] OTHER -> "none"

(* Architectures before axes; a class is a gap unless it is none. *)
Classes(verdicts, axes) ==
  [i \in DOMAIN verdicts |-> ScanClass(verdicts[i])] \o [i \in DOMAIN axes |-> AxisClass(axes[i])]

Gaps(classes) == {i \in DOMAIN classes : classes[i] # "none"}

Blocking(classes) ==
  {i \in DOMAIN classes : classes[i] \in {"REGISTRATION_MISSING", "CAPABILITY_MISSING"}}

First(positions) == CHOOSE i \in positions : \A j \in positions : i <= j

(* The first blocking gap, else the first. *)
Classification(classes) ==
  IF Gaps(classes) = {} THEN "NO_STATIC_GAP"
  ELSE classes[First(IF Blocking(classes) # {} THEN Blocking(classes) ELSE Gaps(classes))]

(* Both reports are taken as they are, whatever their validators said and  *)
(* whichever pods and times they are of.                                   *)
Classify ==
  /\ scan.state = "SCAN_READY" /\ matched.state = "MATCH_READY"
  /\ LET classes == Classes(scan.verdicts, matched.axes) IN
     classified' = [class |-> Classification(classes),
                    blocking |-> {classes[i] : i \in Blocking(classes)},
                    scan |-> scan, matched |-> matched]
  /\ UNCHANGED <<pod, checkpoint, request, probePods, scan, matched>>

DiscoveryNext ==
  \/ \E p \in Installations : Reinstall(p)
  \/ \E c \in Checkpoints : Replace(c)
  \/ \E n \in 0..Attempts - 1, last \in {"commit", "no such ref", "unreachable"},
        fate \in PodFates, readable \in BOOLEAN :
       /\ last = "unreachable" => n = Attempts - 1
       /\ Intake([i \in 1..n + 1 |-> IF i <= n THEN "unreachable" ELSE last], fate, readable)
  \/ \E c \in request, usable \in BOOLEAN, reach \in SUBSET {"source", "main", "pull request"} :
       ScanSupport(c, usable, reach)
  \/ \E usable \in BOOLEAN : Match(usable)
  \/ Classify

DiscoverySpec == DiscoveryInit /\ [][DiscoveryNext]_discoveryVars

-----------------------------------------------------------------------------
(* What the next action rests on.  A model file is written only for an     *)
(* architecture that was nowhere when it was scanned, and not because      *)
(* upstream could not be reached; and a deployment is attempted only when  *)
(* every architecture was implemented and every axis that could be looked  *)
(* into was provided, in the installations the reports are of (classify,   *)
(* upstream_state).                                                        *)
StaticVerdictsAreTrue ==
  LET report == classified
      places(p) == {p.found[report.scan.archs[i]] : i \in DOMAIN report.scan.archs}
      somewhere == {"oot", "vllm", "main", "pull request"}
  IN /\ "REGISTRATION_MISSING" \in report.blocking =>
          \E p \in report.scan.of : \E there \in places(p) : there \cap somewhere = {}
     /\ report.class = "NO_STATIC_GAP" =>
          /\ \A p \in report.scan.of : \A there \in places(p) : there \cap {"oot", "vllm"} # {}
          /\ \A p \in report.matched.of, c \in report.matched.config :
               {"attention"} \cup c.demands \subseteq p.provides
=============================================================================
