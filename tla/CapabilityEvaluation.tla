------------------------ MODULE CapabilityEvaluation ------------------------
(***************************************************************************)
(* The two nodes that exercise what the match only reads about: the        *)
(* capability evaluation (MAT-008), which the graph runner fans out over   *)
(* the dimensions a model demands and in again, and the conformance of the *)
(* parsers (MAT-009).  Each attempt of a node starts in a fresh directory. *)
(*                                                                         *)
(* A child runs a probe in the pod, writes the probe's report, and then    *)
(* the verdict of its validator; the fan-in reads the reports, the runner  *)
(* the exit codes and the status of the fan-in.                            *)
(***************************************************************************)
EXTENDS Naturals, FiniteSets

Dimensions == {"quantization", "moe", "swa", "multimodal"}
Parsers == {"reasoning", "tool"}
Subjects == Dimensions \cup Parsers

VARIABLES
  node,       \* the node under way, or "none"
  demanded,   \* what its list command printed, one child each, or its profile names
  sampled,    \* those of them there is something to exercise with
  todo,       \* the children that have not run
  reports,    \* of each subject in this attempt: the report, as far as written
  accepted,   \* the subjects whose validator had no objection
  returncode, \* the first that was not zero
  passed      \* did the node pass, once it has ended

evaluationVars == <<node, demanded, sampled, todo, reports, accepted, returncode, passed>>

(* What becomes of a negative control: it misses the gate, it clears it as *)
(* the kernel does, or it raises.                                          *)
Controls == {"told apart", "cleared the gate", "raised"}

(* right, control: what an observer would say of the kernel or parser and  *)
(* of the control, at the time of the probe.                               *)
NoReport == [state |-> "missing", right |-> FALSE, control |-> "not run"]

EvaluationInit ==
  /\ node = "none" /\ demanded = {} /\ sampled = {} /\ todo = {}
  /\ reports = [s \in Subjects |-> NoReport]
  /\ accepted = {} /\ returncode = 0 /\ passed = FALSE

(* dimensions_for, from the axes of the match: the value the attention     *)
(* axis demands, and the axes that are not NOT_REQUIRED.  Unimplemented    *)
(* dimensions are listed like the others.                                  *)
DimensionsFor(attention, axes) ==
  (axes \cap {"quantization", "moe", "multimodal"})
    \cup IF attention = "sliding_window" THEN {"swa"} ELSE {}

Start(n, subjects, samples) ==
  /\ node = "none" /\ node' = n
  /\ demanded' = subjects /\ sampled' = samples /\ todo' = subjects
  /\ reports' = [s \in Subjects |-> NoReport]
  /\ accepted' = {} /\ returncode' = 0 /\ passed' = FALSE

(* An empty list leaves nothing to exercise and stops the walk. *)
StartEvaluation ==
  \E attention \in {"gqa", "mla", "sliding_window", "unknown"},
     axes \in SUBSET {"quantization", "moe", "multimodal", "speculative_decode"} :
    /\ DimensionsFor(attention, axes) # {}
    /\ Start("capability_evaluation",
             DimensionsFor(attention, axes), DimensionsFor(attention, axes))

(* A profile of the contract names parsers, or none; one child runs them.  *)
(* It has samples for the reasoning, and may have one of a tool call.      *)
StartConformance ==
  \E requested \in SUBSET Parsers, samples \in {{"reasoning"}, Parsers} :
    Start("api_conformance", requested, requested \cap samples)

-----------------------------------------------------------------------------
(* Probes. *)

(* These call the kernel once more for the control and catch what it       *)
(* raises; the others compare what they have with another reference.       *)
RunsItsControl == {"quantization", "swa"}

(* A probe passes what it computed with a control that came out wrong. A   *)
(* control that raised counts as one: it was told apart by no comparison.  *)
ProbeState(raised, control, right) ==
  IF raised THEN "EVALUATION_ERROR"
  ELSE IF control \notin {"told apart", "raised"} THEN "EVALUATION_INCONCLUSIVE"
  ELSE IF right THEN "EXERCISED_PASS" ELSE "EXERCISED_FAIL"

(* validate_evaluation: complete when operators, host, cases, thresholds   *)
(* and control are all there and as in the contract; an error needs only   *)
(* its text.                                                               *)
EvaluationAccepted(state, complete) ==
  complete \/ state \in {"EVALUATION_ERROR", "EVALUATION_UNIMPLEMENTED"}

(* Defect: the last exit code counts. *)
BugFirstError(rc) == rc

FirstError(rc) == IF returncode # 0 THEN returncode ELSE rc

(* A dimension without a probe is reported as such and nothing runs. *)
Unimplemented ==
  /\ node = "capability_evaluation" /\ "multimodal" \in todo
  /\ todo' = todo \ {"multimodal"}
  /\ reports' = [reports EXCEPT !["multimodal"].state = "EVALUATION_UNIMPLEMENTED"]
  /\ accepted' = accepted \cup {"multimodal"}
  /\ UNCHANGED <<node, demanded, sampled, returncode, passed>>

(* A child of the fan-out.  It may be killed before its report or before   *)
(* its verdict, and raises without a report when the pod is not its user's *)
(* or the probe leaves no JSON.  Only EXERCISED_FAIL and an objection are  *)
(* exit codes; the other children run all the same.                        *)
Child(d, raised, control, right, complete, ends) ==
  LET state == ProbeState(raised, control, right) IN
  /\ node = "capability_evaluation" /\ d \in todo \ {"multimodal"}
  /\ todo' = todo \ {d}
  /\ reports' = IF ends = "before the report" THEN reports
                ELSE [reports EXCEPT ![d] = [state |-> state, right |-> right, control |-> control]]
  /\ IF ends = "whole" /\ EvaluationAccepted(state, complete)
     THEN /\ accepted' = accepted \cup {d}
          /\ returncode' = FirstError(IF state = "EXERCISED_FAIL" THEN 1 ELSE 0)
     ELSE /\ accepted' = accepted
          /\ returncode' = FirstError(1)
  /\ UNCHANGED <<node, demanded, sampled, passed>>

-----------------------------------------------------------------------------
(* The fan-in. *)

(* States from the worst to the best. *)
Rank(state) ==
  CASE state \in {"missing", "EVALUATION_ERROR"} -> 0
    [] state = "EXERCISED_FAIL" -> 1
    [] state = "EVALUATION_INCONCLUSIVE" -> 2
    [] state = "EVALUATION_UNIMPLEMENTED" -> 3
    [] state = "EXERCISED_PASS" -> 4

Worst(children) ==
  CHOOSE r \in {Rank(reports[d].state) : d \in children} :
    \A d \in children : r <= Rank(reports[d].state)

(* aggregate takes a report's own state, not the verdict of its validator. *)
Aggregate(children) ==
  CASE Worst(children) = 4 -> "EVALUATION_PASS"
    [] Worst(children) = 3 -> "EVALUATION_PARTIAL"
    [] OTHER -> "EVALUATION_FAIL"

(* Only EVALUATION_PASS is among the runner's states of success. *)
FanIn(killed) ==
  LET state == Aggregate(demanded)
      rc == FirstError(IF killed \/ state = "EVALUATION_FAIL" THEN 1 ELSE 0)
  IN /\ node = "capability_evaluation" /\ todo = {}
     /\ returncode' = rc
     /\ passed' = (~killed /\ rc = 0 /\ state = "EVALUATION_PASS")
     /\ node' = "none"
     /\ UNCHANGED <<demanded, sampled, todo, reports, accepted>>

-----------------------------------------------------------------------------
(* Conformance. *)

(* The probe asks in this order: are the registries there, are the parsers *)
(* registered, does the chat template contain the markers of the sample,   *)
(* what do the parsers make of sample and control.  A parser needs both; a *)
(* tool parser without a sample is not asked, and not missed.              *)
ConformanceState(fault, right, control) ==
  CASE fault = "registries" -> "EVALUATION_ERROR"
    [] fault = "not registered" -> "PARSER_ABSENT"
    [] fault = "markers" -> "EVALUATION_INCONCLUSIVE"
    [] fault = "parser raised" -> "EVALUATION_ERROR"
    [] fault = "none" ->
         IF sampled = {} \/ ~(sampled \subseteq control) THEN "EVALUATION_INCONCLUSIVE"
         ELSE IF sampled \subseteq right THEN "CONFORMANT" ELSE "NONCONFORMANT"

(* What the probe has to say of one parser. *)
ParserReport(s, state, right, control) ==
  [state |-> state, right |-> s \in right,
   control |-> IF s \in control THEN "told apart" ELSE "cleared the gate"]

(* A verdict is refused when the contract declares no markers to confirm.  *)
(* Only CONFORMANT exits with zero.                                        *)
Conformance(fault, declared, right, control, ends) ==
  LET state == ConformanceState(fault, right, control)
      whole == ends = "whole" /\ (state \in {"CONFORMANT", "NONCONFORMANT"} => declared)
      rc == IF whole /\ state = "CONFORMANT" THEN 0 ELSE 1
  IN /\ node = "api_conformance"
     /\ fault = "markers" => declared
     /\ node' = "none" /\ todo' = {}
     /\ reports' = IF ends = "before the report" THEN reports
                   ELSE [s \in Subjects |-> IF s \in sampled
                                            THEN ParserReport(s, state, right, control)
                                            ELSE reports[s]]
     /\ accepted' = IF whole THEN sampled ELSE {}
     /\ returncode' = rc
     /\ passed' = (rc = 0)
     /\ UNCHANGED <<demanded, sampled>>

Ends == {"before the report", "before the verdict", "whole"}

EvaluationNext ==
  \/ StartEvaluation
  \/ StartConformance
  \/ Unimplemented
  \/ \E d \in todo, raised, right, complete \in BOOLEAN, control \in Controls, ends \in Ends :
       /\ raised => control = "cleared the gate" /\ ~right
       /\ control = "raised" => d \in RunsItsControl
       /\ Child(d, raised, control, right, complete, ends)
  \/ \E killed \in BOOLEAN : FanIn(killed)
  \/ \E fault \in {"registries", "not registered", "markers", "parser raised", "none"},
        declared \in BOOLEAN, right, control \in SUBSET Parsers, ends \in Ends :
       Conformance(fault, declared, right, control, ends)

EvaluationSpec == EvaluationInit /\ [][EvaluationNext]_evaluationVars

-----------------------------------------------------------------------------
(* A node that passed exercised something, and all it had samples for:     *)
(* each kernel or parser was right, its validator agreed, and no control   *)
(* cleared the gate, although the fan-in reads unvalidated reports and     *)
(* goes on after a child that failed (aggregate, node_passed).  What was   *)
(* not exercised is a tool parser without a sample; what was not told      *)
(* apart is a control that raised, which counts as one that missed.        *)
PassIsExercised ==
  passed =>
    /\ sampled # {} /\ demanded \ sampled \subseteq {"tool"}
    /\ \A s \in sampled :
         /\ s \in accepted /\ reports[s].right
         /\ \/ reports[s].control = "told apart"
            \/ reports[s].control = "raised" /\ s \in RunsItsControl
=============================================================================
