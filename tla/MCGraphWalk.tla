---------------------------- MODULE MCGraphWalk ----------------------------
(* Instances of GraphWalk for TLC, and what the theorem about deliveries   *)
(* assumes of a workflow.  The whole of                                    *)
(* src/workflows/model_adaptation.yaml is written down here; the instances *)
(* keep the nodes where repairs happen.  An edge to a node that is not     *)
(* kept leads to the next one that is, and a need of it is a need of what  *)
(* it needs.  So the gap classification stands for everything before the   *)
(* plan, and the service for everything up to the matrix.                  *)
EXTENDS GraphWalk, FiniteSets

CONSTANTS MaxAstray  \* bound: facts that no walk could use as things are

AstrayWithinBound ==
  Cardinality({i \in DOMAIN journal :
    \/ journal[i].scope \notin {Base, Bound(journal)}
    \/ ~journal[i].intact
    \/ journal[i].method # method[journal[i].node]}) <= MaxAstray

MainLine ==
  <<"proof", "intake", "drift", "scan", "match", "gap", "dispatch", "evaluation", "plan",
    "bringup", "shim", "service", "accuracy", "baseline", "integration", "budget",
    "conformance", "matrix">>

Workflow == {MainLine[i] : i \in DOMAIN MainLine} \cup {"triage", "patch", "ticket"}

SuccessEdges ==
  [n \in Workflow |->
     CASE n \in {"matrix", "ticket"} -> "DELIVERED"
       [] n = "triage" -> "patch"
       [] n = "patch" -> "bringup"
       [] OTHER -> MainLine[1 + CHOOSE i \in DOMAIN MainLine : MainLine[i] = n]]

(* Reports that are for information lead on whatever they say. *)
FailureEdges ==
  [n \in Workflow |->
     CASE n = "proof" -> "NEEDS_HUMAN"
       [] n \in {"drift", "dispatch", "integration", "budget", "conformance"} -> SuccessEdges[n]
       [] n = "triage" -> "ticket"
       [] OTHER -> "triage"]

NeededFacts ==
  [n \in Workflow |->
     CASE n \in {"proof", "budget"} -> {}
       [] n \in {"intake", "drift", "shim", "triage"} -> {"proof"}
       [] n \in {"scan", "bringup"} -> {"intake", "proof"}
       [] n = "match" -> {"intake", "scan", "proof"}
       [] n = "gap" -> {"scan", "match"}
       [] n = "dispatch" -> {"gap"}
       [] n = "evaluation" -> {"match"}
       [] n = "plan" -> {"intake", "gap"}
       [] n = "service" -> {"plan"}
       [] n \in {"accuracy", "conformance"} -> {"intake"}
       [] n = "baseline" -> {"service", "accuracy"}
       [] n = "integration" -> {"baseline"}
       [] n = "matrix" -> {"accuracy"}
       [] n = "patch" -> {"triage", "plan"}
       [] n = "ticket" -> {"triage"}]

OptionalFacts ==
  [n \in Workflow |->
     CASE n = "plan" -> {"patch"}
       [] n = "triage" -> {"plan"}
       [] n = "matrix" -> {"service", "budget", "plan"}
       [] OTHER -> {}]

(* The part of the workflow that keeps some of its nodes *)

KeptOn(kept) ==
  LET on[n \in Workflow] ==
        IF n \in kept THEN n
        ELSE LET next == SuccessEdges[n] IN IF next \in Workflow THEN on[next] ELSE next
  IN [next \in Workflow \cup {"DELIVERED", "NEEDS_HUMAN"} |->
        IF next \in Workflow THEN on[next] ELSE next]

KeptNeeds(kept) ==
  LET needs[n \in Workflow] ==
        UNION {IF k \in kept THEN {k} ELSE needs[k] : k \in NeededFacts[n]}
  IN needs

(* No node of the loop needs the bring-up: the core goes on without it. *)
Loop == {"proof", "gap", "plan", "bringup", "service", "triage", "patch", "ticket"}
Core == Loop \ {"bringup"}

LoopSuccess == [n \in Loop |-> KeptOn(Loop)[SuccessEdges[n]]]
LoopFailure == [n \in Loop |-> KeptOn(Loop)[FailureEdges[n]]]
LoopNeeds == [n \in Loop |-> KeptNeeds(Loop)[n]]
LoopOptional == [n \in Loop |-> OptionalFacts[n]]

CoreSuccess == [n \in Core |-> KeptOn(Core)[SuccessEdges[n]]]
CoreFailure == [n \in Core |-> KeptOn(Core)[FailureEdges[n]]]
CoreNeeds == [n \in Core |-> KeptNeeds(Core)[n]]
CoreOptional == [n \in Core |-> OptionalFacts[n]]

-----------------------------------------------------------------------------
(* What a delivery of one piece takes of a workflow w, a record of its     *)
(* edges and needs                                                         *)

(* A node to which only a failed triage leads and which needs one that     *)
(* passed: no walk from the start runs it.                                 *)
IsDeadEnd(w, n) ==
  /\ Triage \in w.needs[n]
  /\ \A m \in DOMAIN w.needs : w.success[m] # n /\ (w.failure[m] = n => m = Triage)

Edges(w, n) ==
  IF IsDeadEnd(w, n) THEN {} ELSE {w.success[n], w.failure[n]} \cap DOMAIN w.needs

(* Where the edges lead from a node, without leaving any of those in past. *)
Reached(w, k, past) ==
  LET within[i \in Nat] ==
        IF i = 0 THEN {k}
        ELSE LET r == within[i - 1] IN r \cup UNION {Edges(w, m) : m \in r \ past}
  IN within[Cardinality(DOMAIN w.needs)]

ReachedIsClosed(w, k, past) ==
  LET r == Reached(w, k, past)
  IN k \in r /\ r \subseteq DOMAIN w.needs /\ \A m \in r \ past : Edges(w, m) \subseteq r

Delivers(w, n) == w.success[n] \notin DOMAIN w.needs /\ ~IsDeadEnd(w, n)

(* The first node proves the environment and is visited once.  All that a  *)
(* node needs, but for the plan, lies before it on every way to it.  A     *)
(* need that a walk visits again is followed by the node before the walk   *)
(* delivers.  And none delivers without a plan or a diagnosis.             *)
HangsTogether(w) ==
  LET nodes == DOMAIN w.needs
      early == Reached(w, Entry, {Plan, Triage})
  IN /\ Entry = Prover /\ Prover \notin {Plan, Triage} /\ Plan # Triage
     /\ \A n \in nodes : Prover \notin {w.success[n], w.failure[n]}
     /\ \A n, k \in nodes : \A past \in {{}, {n}, {Plan, Triage}} :
          ReachedIsClosed(w, k, past)
     /\ \A n \in nodes : n \notin w.needs[n]
     /\ \A n \in nodes : \A k \in w.needs[n] \ {Plan} : n \notin Reached(w, Entry, {k})
     /\ \A n \in nodes : \A k \in w.needs[n] :
          /\ w.success[n] \in nodes /\ k \in Reached(w, w.success[n], {})
          => \A m \in Reached(w, k, {n}) \ {n} : ~Delivers(w, m)
     /\ {Plan, Triage} \subseteq early
     /\ \A m \in early \ {Plan, Triage} : ~Delivers(w, m)
     /\ w.failure[Plan] \in early \/ w.failure[Plan] \notin nodes
     /\ w.failure[Triage] \notin nodes \/ IsDeadEnd(w, w.failure[Triage])

Given == [success |-> OnSuccess, failure |-> OnFailure, needs |-> Needs]

ASSUME LoopAssumption == HangsTogether(Given)

(* It holds of the whole workflow. *)
ASSUME WorkflowHangsTogether ==
  HangsTogether([success |-> SuccessEdges, failure |-> FailureEdges, needs |-> NeededFacts])

-----------------------------------------------------------------------------
(* From the proof with recovery, the proof again by itself, and a start in *)
(* the middle.                                                             *)
AskedFor ==
  {[NoRequest EXCEPT !.resume = TRUE, !.recover = TRUE],
   [NoRequest EXCEPT !.until = Prover],
   [NoRequest EXCEPT !.from = "service", !.resume = TRUE]}

Resumed == {[NoRequest EXCEPT !.resume = TRUE]}

(* "Every repair must pass dummy-weight bring-up again before shim handoff *)
(* and the expensive target checkpoint load" (model_adaptation.yaml:110):  *)
(* when the service of the target starts, a patch this walk placed is      *)
(* older than the bring-up the walk rests on.                              *)
RepairIsBroughtUp ==
  pc = "running" /\ current = "service" /\ "patch" \in used =>
    \A p \in Newest("patch"), b \in Newest("bringup") : p < b
=============================================================================
