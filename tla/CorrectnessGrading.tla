------------------------- MODULE CorrectnessGrading -------------------------
(***************************************************************************)
(* The three correctness gates of a walk (MAT-021, MAT-022, MAT-023).  A   *)
(* probe in the pod computes with the kernel and dumps tensors into a      *)
(* directory of its mode, always the same one; the executor fetches what   *)
(* lies there and grades it.  The end-to-end gate runs the accuracy        *)
(* differential as a child and reads the two files it leaves.              *)
(*                                                                         *)
(* One grading runs at a time in a pod; the kernel is replaced between     *)
(* gradings.                                                               *)
(***************************************************************************)
EXTENDS Integers, FiniteSets

CONSTANTS MaxGradings   \* bound: gradings

ASSUME GradingConstants == MaxGradings \in Nat \ {0}

VARIABLES
  kernel,     \* the installed kernel: does it raise, does it compute rightly
  measured,   \* what the kernel was at each grading
  dumps,      \* the pod: for each mode the grading that wrote each file
  out,        \* the output directory of the grading
  grading,    \* the number of the grading
  probe,      \* the state its probe reported, if it is under way
  verdict     \* the last status written

gradingVars == <<kernel, measured, dumps, out, grading, probe, verdict>>

Kernels == [raises : BOOLEAN, right : BOOLEAN]
Missing == 0
Torn    == -1

(* The files of a dump in the order they are written: the candidate, the   *)
(* reference, the control, and for sparse attention the selected blocks.   *)
Files3 == [kernel |-> 1..3, sparse |-> 1..4]
Candidate == 1

(* raw: does grade_raw.json exist.  report, status: the grading whose      *)
(* child wrote accuracy_differential.json and accuracy_status.json, and    *)
(* what they say.                                                          *)
NewOut == [raw |-> FALSE, report |-> [by |-> Missing, state |-> "none"],
           status |-> [by |-> Missing, state |-> "none", passed |-> FALSE]]

NoVerdict == [mode |-> "none", state |-> "none", by |-> Missing, evidence |-> Missing]

GradingInit ==
  /\ kernel \in Kernels
  /\ measured = [n \in 1..MaxGradings |-> kernel]
  /\ dumps = [mode \in DOMAIN Files3 |-> [f \in Files3[mode] |-> Missing]]
  /\ out = NewOut
  /\ grading = 0
  /\ probe = [mode |-> "none", state |-> "none"]
  /\ verdict = NoVerdict

(* A patch replaces the kernel. *)
Install(k) ==
  /\ probe.mode = "none"
  /\ kernel' = k
  /\ UNCHANGED <<measured, dumps, out, grading, probe, verdict>>

(* A grading starts in a directory of its own, or within one attempt of a  *)
(* node where the last one was; a tool on its own wants an empty one.      *)
Begin(mode, reuse) ==
  /\ probe.mode = "none" /\ grading < MaxGradings
  /\ grading' = grading + 1
  /\ measured' = [measured EXCEPT ![grading + 1] = kernel]
  /\ out' = IF reuse THEN out ELSE NewOut
  /\ probe' = [mode |-> mode, state |-> "starting"]
  /\ UNCHANGED <<kernel, dumps, verdict>>

(* The executor is killed; the pod and the directory keep what they have. *)
Kill ==
  /\ probe.mode # "none"
  /\ probe' = [mode |-> "none", state |-> "none"]
  /\ UNCHANGED <<kernel, measured, dumps, out, grading, verdict>>

-----------------------------------------------------------------------------
(* The probes. *)

Starts(mode) == probe.mode = mode /\ probe.state = "starting"
Says(state) == probe' = [probe EXCEPT !.state = state]

(* The first k files are written; the next one may be cut off within. *)
Dump(mode, k, cut) ==
  dumps' = [dumps EXCEPT ![mode] =
    [f \in Files3[mode] |-> IF f <= k THEN grading
                            ELSE IF cut /\ f = k + 1 THEN Torn ELSE @[f]]]

Whole(mode, k) == k = Cardinality(Files3[mode])

(* Defect: a kernel that raised has nothing to dump, and the fallback's    *)
(* own result is reported.                                                 *)
BugProbeWithoutOutput ==
  /\ Starts("kernel")
  /\ Says("EXERCISED")
  /\ UNCHANGED dumps

(* The platform kernel or the control raised: nothing is dumped. *)
ProbeWithoutOutput ==
  /\ Starts("kernel")
  /\ Says("EVALUATION_INCONCLUSIVE")
  /\ UNCHANGED dumps

(* The torch fallback raised, or the probe left no JSON; it may have died  *)
(* in the middle of its dump.  The sparse probe says so too when the block *)
(* scores or the sparse attention raised.                                  *)
ProbeError(mode, k, cut) ==
  /\ Starts(mode) /\ ~Whole(mode, k)
  /\ k > 0 \/ cut => ~kernel.raises
  /\ Says("EVALUATION_ERROR")
  /\ Dump(mode, k, cut)

(* The state is that of the torch fallback, whose control discriminates or *)
(* not; the candidate is the output of the kernel.                         *)
ProbeKernel(state) ==
  /\ Starts("kernel") /\ ~kernel.raises
  /\ Says(state)
  /\ Dump("kernel", Cardinality(Files3.kernel), FALSE)

(* A dump that failed counts as a control that discriminates.  The top-k   *)
(* transform may have raised: then the chain is incomplete.                *)
ProbeSparse(state, k, cut) ==
  /\ Starts("sparse") /\ ~kernel.raises
  /\ Says(state)
  /\ Dump("sparse", k, cut)

-----------------------------------------------------------------------------
(* The executor. *)

Finish(state, evidence) ==
  /\ verdict' = [mode |-> probe.mode, state |-> state, by |-> grading, evidence |-> evidence]
  /\ probe' = [mode |-> "none", state |-> "none"]

(* tensor_diff refuses a directory that has a grade and files it cannot    *)
(* read; an empty file counts as missing.  (Half a selection is read before *)
(* the grade and ends the executor: see Kill.)                             *)
Gradeable(mode) ==
  /\ ~out.raw
  /\ \A f \in Files3[mode] : dumps[mode][f] \notin {Missing, Torn}

(* context_len does not cross the boundary of the selection: no probe runs. *)
ContextTooShort ==
  /\ Starts("sparse")
  /\ Finish("CONTRACT_INVALID", Missing)
  /\ UNCHANGED <<kernel, measured, dumps, out, grading>>

(* A probe without a result is taken for a kernel that raised. *)
JudgeError ==
  /\ probe.state = "EVALUATION_ERROR"
  /\ Finish("FAIL", grading)
  /\ UNCHANGED <<kernel, measured, dumps, out, grading>>

JudgeAmbiguous ==
  /\ \/ probe.state = "EVALUATION_INCONCLUSIVE"
     \/ probe.state = "EXERCISED" /\ ~Gradeable(probe.mode)
  /\ Finish("AMBIGUOUS", Missing)
  /\ UNCHANGED <<kernel, measured, dumps, out, grading>>

(* The fetched control discriminates or not, whatever the probe said.  A   *)
(* pass whose report the validator refuses (no blocks were selected) is    *)
(* none; a failure stays one.                                              *)
JudgeTensors(discriminates, valid) ==
  /\ probe.state = "EXERCISED" /\ Gradeable(probe.mode)
  /\ LET by == dumps[probe.mode][Candidate] IN
     Finish(IF ~discriminates \/ (measured[by].right /\ ~valid) THEN "AMBIGUOUS"
            ELSE IF measured[by].right THEN "PASS" ELSE "FAIL", by)
  /\ out' = [out EXCEPT !.raw = TRUE]
  /\ UNCHANGED <<kernel, measured, dumps, grading>>

(* The accuracy differential ends: it wrote both files, or only the report *)
(* before it was killed, or was refused an answer and wrote none.          *)
ChildEnds(state, passed, written) ==
  /\ Starts("end-to-end")
  /\ out' = [out EXCEPT !.report = IF "report" \in written THEN [by |-> grading, state |-> state] ELSE @,
                        !.status = IF "status" \in written
                                   THEN [by |-> grading, state |-> state, passed |-> passed] ELSE @]
  /\ Says(IF "status" \notin written THEN "rc 1"
          ELSE IF state = "ACCURACY_PASS" /\ passed THEN "rc 0" ELSE "rc 6")
  /\ UNCHANGED <<kernel, measured, dumps, grading, verdict>>

(* Defect: what the files say is enough. *)
BugChildAccepted ==
  /\ out.status.state \in {"ACCURACY_PASS", "ACCURACY_FAIL"} /\ out.status.passed
  /\ out.report.state = out.status.state

(* Report, validator and exit status have to agree. *)
ChildAccepted ==
  /\ out.status.state \in {"ACCURACY_PASS", "ACCURACY_FAIL"} /\ out.status.passed
  /\ out.report.state = out.status.state
  /\ probe.state = IF out.status.state = "ACCURACY_PASS" THEN "rc 0" ELSE "rc 6"

JudgeChild ==
  /\ probe.state \in {"rc 0", "rc 1", "rc 6"}
  /\ IF Missing \in {out.report.by, out.status.by} THEN Finish("NEEDS_HUMAN", Missing)
     ELSE IF ~ChildAccepted THEN Finish("CONTRACT_INVALID", Missing)
     ELSE Finish(IF out.report.state = "ACCURACY_PASS" THEN "PASS" ELSE "FAIL", out.report.by)
  /\ UNCHANGED <<kernel, measured, dumps, out, grading>>

-----------------------------------------------------------------------------
Probe ==
  /\ \/ ProbeWithoutOutput
     \/ \E mode \in {"kernel", "sparse"}, cut \in BOOLEAN :
          \E k \in Files3[mode] \cup {0} : ProbeError(mode, k, cut)
     \/ \E state \in {"EXERCISED", "EVALUATION_INCONCLUSIVE"} :
          \/ ProbeKernel(state)
          \/ \E k \in Files3.sparse \cup {0}, cut \in BOOLEAN : ProbeSparse(state, k, cut)
  /\ UNCHANGED <<kernel, measured, out, grading, verdict>>

GradingNext ==
  \/ \E k \in Kernels : Install(k)
  \/ \E mode \in {"kernel", "sparse", "end-to-end"}, reuse \in BOOLEAN : Begin(mode, reuse)
  \/ Kill
  \/ Probe
  \/ ContextTooShort
  \/ JudgeError
  \/ JudgeAmbiguous
  \/ \E discriminates, valid \in BOOLEAN : JudgeTensors(discriminates, valid)
  \/ \E state \in {"ACCURACY_PASS", "ACCURACY_FAIL"}, passed \in BOOLEAN,
        written \in {{}, {"report"}, {"report", "status"}} : ChildEnds(state, passed, written)
  \/ JudgeChild

GradingSpec == GradingInit /\ [][GradingNext]_gradingVars

-----------------------------------------------------------------------------
(* A platform kernel is passed or failed on what its own grading measured, *)
(* and an end-to-end verdict on the report of its own child, whatever an   *)
(* earlier grading left in the pod or in the directory (run_kernel_grade,  *)
(* run_end_to_end).                                                        *)
VerdictOnOwnEvidence ==
  verdict.mode \in {"kernel", "end-to-end"} /\ verdict.state \in {"PASS", "FAIL"} =>
    verdict.evidence = verdict.by

(* "a probe that cannot produce the tensors grades nothing"                *)
(* (correctness_executor.py:16): a sparse kernel is passed only on tensors *)
(* that its own probe dumped (run_long_context, block_sparse finish).      *)
SparsePassOnOwnTensors ==
  verdict.mode = "sparse" /\ verdict.state = "PASS" => verdict.evidence = verdict.by
=============================================================================
