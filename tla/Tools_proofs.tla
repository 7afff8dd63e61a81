---------------------------- MODULE Tools_proofs ----------------------------
(***************************************************************************)
(* The safety theorems of the document-driven tools, each for one tool     *)
(* and any number of its calls.                                            *)
(***************************************************************************)
EXTENDS MCTools, FiniteSetTheorems, SequenceTheorems, WellFoundedInduction, TLAPS

-----------------------------------------------------------------------------
(* Two facts about data that several tools need. *)

(* A set of natural numbers has a least element. *)
LEMMA LeastNatural ==
  ASSUME NEW S \in SUBSET Nat, S # {}
  PROVE  \E n \in S : \A m \in S : n <= m
<1>1. PICK n \in S : \A m \in S : ~(<<m, n>> \in OpToRel(<, Nat))
  BY NatLessThanWellFounded, WFMin
<1>2. \A m \in S : ~(m < n)
  BY <1>1, Zenon DEF OpToRel
<1> QED
  BY <1>2

(* Each part of a concatenation lies where it was put. *)
LEMMA Concatenated ==
  ASSUME NEW S, NEW f \in Seq(S), NEW g \in Seq(S)
  PROVE  /\ DOMAIN (f \o g) = 1..(Len(f) + Len(g))
         /\ \A i \in 1..Len(f) : (f \o g)[i] = f[i]
         /\ \A i \in 1..Len(g) : (f \o g)[Len(f) + i] = g[i]
<1>1. f \o g \in Seq(S) /\ Len(f \o g) = Len(f) + Len(g)
  BY ConcatProperties
<1>2. \A i \in 1..(Len(f) + Len(g)) : (f \o g)[i] = IF i <= Len(f) THEN f[i] ELSE g[i - Len(f)]
  BY ConcatProperties
<1>3. DOMAIN (f \o g) = 1..(Len(f) + Len(g))
  BY <1>1, LenProperties
<1>4. Len(f) \in Nat /\ Len(g) \in Nat
  BY LenProperties
<1>5. ASSUME NEW i \in 1..Len(f) PROVE (f \o g)[i] = f[i]
  <2>1. i \in 1..(Len(f) + Len(g)) /\ i <= Len(f)
    BY <1>4
  <2> QED
    BY <1>2, <2>1
<1>6. ASSUME NEW i \in 1..Len(g) PROVE (f \o g)[Len(f) + i] = g[i]
  <2> DEFINE k == Len(f) + i
  <2>1. k \in 1..(Len(f) + Len(g)) /\ ~(k <= Len(f)) /\ k - Len(f) = i
    BY <1>4
  <2> HIDE DEF k
  <2>2. (f \o g)[k] = g[i]
    BY <1>2, <2>1
  <2> QED
    BY <2>2 DEF k
<1> QED
  BY <1>3, <1>5, <1>6

-----------------------------------------------------------------------------
(* OperatorCandidates *)

BaselineInv == manifest \subseteq {Pass} /\ (decision = "READY_FOR_INTEGRATION" => manifest # {})

(* No candidate becomes ready without a baseline of passing evidence,      *)
(* whatever was frozen into the directory in between (freeze_baseline,     *)
(* integration_decision).                                                  *)
THEOREM CandidatesHaveBaselines == CandidatesSpec => []ReadyHasPassingBaseline
<1>1. CandidatesInit => BaselineInv
  BY DEF CandidatesInit, BaselineInv
<1>2. BaselineInv /\ [CandidatesNext]_candidateVars => BaselineInv'
  BY DEF BaselineInv, CandidatesNext, candidateVars, ProveAgain, FreezeBaseline,
         AwaitCandidate, Decide
<1>3. BaselineInv => ReadyHasPassingBaseline
  BY DEF BaselineInv, ReadyHasPassingBaseline
<1> QED
  BY <1>1, <1>2, <1>3, PTL DEF CandidatesSpec

-----------------------------------------------------------------------------
(* SupportClaims *)

(* A row that says validated is backed. *)
Backed(row) == row.status = "validated" => row.backed

Rows == [status : {"absent", "validated", "runs_unverified_accuracy", "not_yet_validated"},
         backed : BOOLEAN]
DifferentialReports == [status : {"none", "ACCURACY_PASS", "ACCURACY_FAIL"}, agreed : BOOLEAN]

ClaimsType ==
  /\ differentials \in [Models -> DifferentialReports]
  /\ matrix \in [Models -> Rows]
  /\ entries \in [Updates -> [model : SUBSET Models, row : Rows, read : SUBSET [Models -> Rows]]]

ClaimsInv ==
  /\ ClaimsType
  /\ \A m \in Models : differentials[m].status = "ACCURACY_PASS" => differentials[m].agreed
  /\ \A m \in Models : Backed(matrix[m])
  /\ \A u \in Updates :
       /\ Backed(entries[u].row)
       /\ \A read \in entries[u].read, m \in Models : Backed(read[m])

LEMMA BuildEntryBacked ==
  ASSUME ClaimsInv, NEW u \in Updates, NEW m \in Models, NEW pinned \in BOOLEAN,
         NEW proof, NEW differential \in {NoDifferential, differentials[m]},
         BuildEntry(u, m, proof, differential, pinned)
  PROVE  ClaimsInv'
<1> DEFINE row == [status |-> RowStatus(proof, differential),
                   backed |-> proof = "DEPLOYMENT_READY" /\ differential.agreed]
           entry == [model |-> {m}, row |-> row, read |-> {}]
<1>1. differential.status = "ACCURACY_PASS" => differential.agreed
  BY DEF ClaimsInv, NoDifferential
<1>2. differential \in DifferentialReports
  <2>1. differentials[m] \in DifferentialReports
    BY DEF ClaimsInv, ClaimsType
  <2>2. NoDifferential \in DifferentialReports
    BY DEF NoDifferential, DifferentialReports
  <2> QED
    BY <2>1, <2>2
<1>3. row \in Rows /\ Backed(row)
  <2>1. row.backed \in BOOLEAN /\ row.status = RowStatus(proof, differential)
    BY <1>2 DEF DifferentialReports
  <2>2. row.status \in {"validated", "runs_unverified_accuracy", "not_yet_validated"}
    BY <2>1 DEF RowStatus
  <2>3. row = [status |-> row.status, backed |-> row.backed]
    OBVIOUS
  <2>4. row \in Rows
    BY <2>1, <2>2, <2>3 DEF Rows
  <2>5. row.status = "validated" => row.backed
    BY <1>1, <2>1 DEF RowStatus
  <2> QED
    BY <2>4, <2>5 DEF Backed
<1>4. entries' = [entries EXCEPT ![u] = entry] /\ UNCHANGED <<differentials, matrix>>
  BY DEF BuildEntry
<1>5. entry \in [model : SUBSET Models, row : Rows, read : SUBSET [Models -> Rows]]
  BY <1>3
<1> HIDE DEF row
<1> QED
  BY <1>3, <1>4, <1>5 DEF ClaimsInv, ClaimsType

LEMMA ReadMatrixBacked ==
  ASSUME ClaimsInv, NEW u \in Updates, ReadMatrix(u)
  PROVE  ClaimsInv'
<1>1. entries' = [entries EXCEPT ![u].read = {matrix}] /\ UNCHANGED <<differentials, matrix>>
  BY DEF ReadMatrix
<1>2. ClaimsType'
  BY <1>1 DEF ClaimsInv, ClaimsType
<1>3. ASSUME NEW v \in Updates
      PROVE  /\ entries'[v].row = entries[v].row
             /\ entries'[v].read \in {entries[v].read, {matrix}}
  BY <1>1 DEF ClaimsInv, ClaimsType
<1> QED
  BY <1>1, <1>2, <1>3 DEF ClaimsInv

LEMMA WriteMatrixBacked ==
  ASSUME ClaimsInv, NEW u \in Updates, WriteMatrix(u)
  PROVE  ClaimsInv'
<1>1. PICK m \in entries[u].model, read \in entries[u].read :
        matrix' = [read EXCEPT ![m] = entries[u].row]
  BY DEF WriteMatrix
<1>2. entries' = [entries EXCEPT ![u] = NoEntry] /\ UNCHANGED differentials
  BY DEF WriteMatrix
<1>3. /\ m \in Models /\ read \in [Models -> Rows] /\ entries[u].row \in Rows
  BY DEF ClaimsInv, ClaimsType
<1>4. NoEntry \in [model : SUBSET Models, row : Rows, read : SUBSET [Models -> Rows]]
  BY DEF NoEntry, NoRow, Rows
<1>5. ClaimsType'
  BY <1>1, <1>2, <1>3, <1>4 DEF ClaimsInv, ClaimsType
<1>6. \A n \in Models : Backed(matrix'[n])
  BY <1>1, <1>3 DEF ClaimsInv
<1>7. ASSUME NEW v \in Updates
      PROVE  entries'[v] \in {entries[v], NoEntry}
  BY <1>2 DEF ClaimsInv, ClaimsType
<1>8. Backed(NoEntry.row) /\ NoEntry.read = {}
  BY DEF Backed, NoEntry, NoRow
<1> QED
  BY <1>2, <1>5, <1>6, <1>7, <1>8 DEF ClaimsInv

(* No row of the matrix says validated unless its model was served and     *)
(* agreed with the reference, for any number of models and of updates that *)
(* overlap (build_entry, accuracy_differential.execute).                   *)
THEOREM MatrixIsBacked == ClaimsSpec => []ValidatedRowsAgreed
<1>1. ClaimsInit => ClaimsInv
  BY DEF ClaimsInit, ClaimsInv, ClaimsType, NoDifferential, NoEntry, NoRow, Rows,
         DifferentialReports, Backed
<1>2. ASSUME ClaimsInv, [ClaimsNext]_claimVars PROVE ClaimsInv'
  <2>1. CASE \E m \in Models, state \in {"DEPLOYMENT_READY", "DEPLOYMENT_FAILED"} : Deploy(m, state)
    BY <1>2, <2>1 DEF ClaimsInv, ClaimsType, Deploy
  <2>2. ASSUME NEW m \in Models, NEW whole \in BOOLEAN, NEW agreed \in BOOLEAN,
               NEW close \in BOOLEAN, Differential(m, whole, agreed, close)
        PROVE  ClaimsInv'
    BY <1>2, <2>2 DEF ClaimsInv, ClaimsType, Differential,
         DifferentialStatus, PassAccepted, DifferentialReports
  <2>3. CASE UNCHANGED claimVars
    BY <1>2, <2>3 DEF ClaimsInv, ClaimsType, claimVars
  <2> QED
    BY <1>2, <2>1, <2>2, <2>3, BuildEntryBacked, ReadMatrixBacked, WriteMatrixBacked DEF ClaimsNext
<1>3. ClaimsInv => ValidatedRowsAgreed
  BY DEF ClaimsInv, Backed, ValidatedRowsAgreed
<1> QED
  BY <1>1, <1>2, <1>3, PTL DEF ClaimsSpec

-----------------------------------------------------------------------------
(* CorrectnessGrading *)

GradingType ==
  /\ probe = [mode |-> probe.mode, state |-> probe.state]
  /\ dumps = [kernel |-> dumps.kernel, sparse |-> dumps.sparse]
  /\ out = [raw |-> out.raw, report |-> out.report, status |-> out.status]

(* A kernel that was exercised has dumped its own output, and a child that *)
(* ended with one of its two codes has written the report.                 *)
OwnEvidence ==
  /\ probe.state = "EXERCISED" => probe.mode \in {"kernel", "sparse"}
  /\ probe.state = "EXERCISED" /\ probe.mode = "kernel" =>
       dumps["kernel"][Candidate] = grading
  /\ probe.state \in {"rc 0", "rc 6"} => out.report.by = grading

GradingInv == GradingType /\ OwnEvidence /\ VerdictOnOwnEvidence

LEMMA DumpType ==
  ASSUME GradingType, NEW mode \in {"kernel", "sparse"}, NEW k \in Int, NEW cut \in BOOLEAN,
         Dump(mode, k, cut)
  PROVE  /\ dumps' = [kernel |-> dumps'.kernel, sparse |-> dumps'.sparse]
         /\ mode = "kernel" /\ k >= 1 => dumps'.kernel[Candidate] = grading
<1> DEFINE old == dumps[mode]
           d == [f \in Files3[mode] |->
                   IF f <= k THEN grading ELSE IF cut /\ f = k + 1 THEN Torn ELSE old[f]]
<1>1. dumps' = [dumps EXCEPT ![mode] = d]
  BY DEF Dump, GradingType
<1>2. mode = "kernel" /\ k >= 1 => d[Candidate] = grading
  BY DEF Files3, Candidate
<1> HIDE DEF d
<1> QED
  BY <1>1, <1>2 DEF GradingType

(* A finished grading reports what VerdictOnOwnEvidence asks, or leaves. *)
LEMMA JudgedOnOwnEvidence ==
  ASSUME GradingInv,
         JudgeError \/ (\E discriminates, valid \in BOOLEAN : JudgeTensors(discriminates, valid)) \/ JudgeChild
  PROVE  VerdictOnOwnEvidence'
<1>1. CASE JudgeError
  BY <1>1 DEF JudgeError, Finish, VerdictOnOwnEvidence
<1>2. ASSUME NEW discriminates \in BOOLEAN, NEW valid \in BOOLEAN,
             JudgeTensors(discriminates, valid)
      PROVE  VerdictOnOwnEvidence'
  <2>1. verdict'.mode = probe.mode /\ verdict'.by = grading
        /\ verdict'.evidence = dumps[probe.mode][Candidate] /\ probe.state = "EXERCISED"
    BY <1>2 DEF JudgeTensors, Finish
  <2>2. probe.mode = "kernel" => dumps["kernel"][Candidate] = grading
    BY <2>1 DEF GradingInv, OwnEvidence
  <2>3. probe.mode # "end-to-end"
    BY <2>1 DEF GradingInv, OwnEvidence
  <2> QED
    BY <2>1, <2>2, <2>3 DEF VerdictOnOwnEvidence
<1>3. CASE JudgeChild
  <2>1. CASE Missing \in {out.report.by, out.status.by} \/ ~ChildAccepted
    <3>1. verdict'.state \in {"NEEDS_HUMAN", "CONTRACT_INVALID"}
      <4>1. Finish("NEEDS_HUMAN", Missing) \/ Finish("CONTRACT_INVALID", Missing)
        BY <1>3, <2>1 DEF JudgeChild
      <4> QED
        BY <4>1 DEF Finish
    <3> QED
      BY <3>1 DEF VerdictOnOwnEvidence
  <2>2. CASE Missing \notin {out.report.by, out.status.by} /\ ChildAccepted
    <3>1. out.report.by = grading
      BY <2>2 DEF ChildAccepted, GradingInv, OwnEvidence
    <3>2. Finish(IF out.report.state = "ACCURACY_PASS" THEN "PASS" ELSE "FAIL", out.report.by)
      BY <1>3, <2>2 DEF JudgeChild
    <3>3. verdict'.by = grading /\ verdict'.evidence = out.report.by
      BY <3>2 DEF Finish
    <3> QED
      BY <3>1, <3>3 DEF VerdictOnOwnEvidence
  <2> QED
    BY <2>1, <2>2
<1> QED
  BY <1>1, <1>2, <1>3

LEMMA ProbesDumpTheirOwn ==
  ASSUME GradingInv, Probe
  PROVE  GradingInv'
<1>1. UNCHANGED <<kernel, measured, out, grading, verdict>>
  BY DEF Probe
<1>2. CASE ProbeWithoutOutput
  <2>1. probe' = [probe EXCEPT !.state = "EVALUATION_INCONCLUSIVE"] /\ UNCHANGED dumps
    BY <1>2 DEF ProbeWithoutOutput, Says
  <2> QED
    BY <1>1, <2>1 DEF GradingInv, GradingType, OwnEvidence, VerdictOnOwnEvidence
<1>3. ASSUME NEW mode \in {"kernel", "sparse"}, NEW cut \in BOOLEAN,
             NEW k \in Files3[mode] \cup {0}, ProbeError(mode, k, cut)
      PROVE  GradingInv'
  <2>1. probe' = [probe EXCEPT !.state = "EVALUATION_ERROR"] /\ Dump(mode, k, cut)
    BY <1>3 DEF ProbeError, Says
  <2>2. k \in Int
    BY DEF Files3
  <2>3. dumps' = [kernel |-> dumps'.kernel, sparse |-> dumps'.sparse]
    BY <2>1, <2>2, DumpType DEF GradingInv
  <2> QED
    BY <1>1, <2>1, <2>3 DEF GradingInv, GradingType, OwnEvidence, VerdictOnOwnEvidence
<1>4. ASSUME NEW state \in {"EXERCISED", "EVALUATION_INCONCLUSIVE"}, ProbeKernel(state)
      PROVE  GradingInv'
  <2>1. probe' = [probe EXCEPT !.state = state] /\ probe.mode = "kernel"
        /\ Dump("kernel", Cardinality(Files3.kernel), FALSE)
    BY <1>4 DEF ProbeKernel, Says, Starts
  <2>2. Cardinality(Files3.kernel) = 3
    <3>1. Files3.kernel = 1..3
      BY DEF Files3
    <3>2. Cardinality(1..3) = 3
      <4>1. 1 \in Int /\ 3 \in Int
        OBVIOUS
      <4>2. Cardinality(1..3) = IF 1 > 3 THEN 0 ELSE 3 - 1 + 1
        BY <4>1, FS_Interval, Zenon
      <4> QED
        BY <4>2
    <3> QED
      BY <3>1, <3>2
  <2>3. /\ dumps' = [kernel |-> dumps'.kernel, sparse |-> dumps'.sparse]
        /\ dumps'["kernel"][Candidate] = grading
    <3>1. Dump("kernel", 3, FALSE)
      BY <2>1, <2>2
    <3>2. "kernel" \in {"kernel", "sparse"} /\ 3 \in Int /\ FALSE \in BOOLEAN /\ 3 >= 1
      OBVIOUS
    <3> QED
      BY <3>1, <3>2, DumpType DEF GradingInv
  <2> QED
    BY <1>1, <2>1, <2>3 DEF GradingInv, GradingType, OwnEvidence, VerdictOnOwnEvidence
<1>5. ASSUME NEW state \in {"EXERCISED", "EVALUATION_INCONCLUSIVE"}, NEW cut \in BOOLEAN,
             NEW k \in Files3.sparse \cup {0}, ProbeSparse(state, k, cut)
      PROVE  GradingInv'
  <2>1. probe' = [probe EXCEPT !.state = state] /\ probe.mode = "sparse" /\ Dump("sparse", k, cut)
    BY <1>5 DEF ProbeSparse, Says, Starts
  <2>2. k \in Int
    BY DEF Files3
  <2>3. dumps' = [kernel |-> dumps'.kernel, sparse |-> dumps'.sparse]
    BY <2>1, <2>2, DumpType DEF GradingInv
  <2> QED
    BY <1>1, <2>1, <2>3 DEF GradingInv, GradingType, OwnEvidence, VerdictOnOwnEvidence
<1> QED
  BY <1>2, <1>3, <1>4, <1>5 DEF Probe

LEMMA JudgingKeepsTypes ==
  ASSUME GradingInv,
         \/ ContextTooShort \/ JudgeError \/ JudgeAmbiguous
         \/ \E discriminates, valid \in BOOLEAN : JudgeTensors(discriminates, valid)
         \/ JudgeChild
  PROVE  GradingType' /\ OwnEvidence'
<1>1. probe' = [mode |-> "none", state |-> "none"] /\ UNCHANGED <<dumps, grading>>
  BY DEF ContextTooShort, JudgeError, JudgeAmbiguous, JudgeTensors, JudgeChild, Finish
<1>2. out' \in {out, [out EXCEPT !.raw = TRUE]}
  BY DEF ContextTooShort, JudgeError, JudgeAmbiguous, JudgeTensors, JudgeChild
<1> QED
  BY <1>1, <1>2 DEF GradingInv, GradingType, OwnEvidence

(* Kernel and end-to-end verdicts rest on what their own grading measured, *)
(* for any number of gradings, kernels and kills, whatever earlier ones    *)
(* left in the pod and in the directory (run_kernel_grade, run_end_to_end). *)
THEOREM GradedOnOwnEvidence == GradingSpec => []VerdictOnOwnEvidence
<1>1. GradingInit => GradingInv
  <2> SUFFICES ASSUME GradingInit PROVE GradingInv
    OBVIOUS
  <2>1. dumps = [kernel |-> dumps.kernel, sparse |-> dumps.sparse]
    BY DEF GradingInit, Files3, Missing
  <2>2. out = [raw |-> out.raw, report |-> out.report, status |-> out.status]
    BY DEF GradingInit, NewOut
  <2> QED
    BY <2>1, <2>2 DEF GradingInit, GradingInv, GradingType, OwnEvidence, VerdictOnOwnEvidence, NoVerdict
<1>2. ASSUME GradingInv, [GradingNext]_gradingVars PROVE GradingInv'
  <2>1. ASSUME NEW k \in Kernels, Install(k) PROVE GradingInv'
    BY <1>2, <2>1 DEF Install, GradingInv, GradingType, OwnEvidence, VerdictOnOwnEvidence
  <2>2. ASSUME NEW mode \in {"kernel", "sparse", "end-to-end"}, NEW reuse \in BOOLEAN,
               Begin(mode, reuse)
        PROVE  GradingInv'
    <3>1. NewOut = [raw |-> NewOut.raw, report |-> NewOut.report, status |-> NewOut.status]
      BY DEF NewOut
    <3> QED
      BY <1>2, <2>2, <3>1
      DEF Begin, GradingInv, GradingType, OwnEvidence, VerdictOnOwnEvidence
  <2>3. CASE Kill
    BY <1>2, <2>3 DEF Kill, GradingInv, GradingType, OwnEvidence, VerdictOnOwnEvidence
  <2>4. CASE Probe
    BY <1>2, <2>4, ProbesDumpTheirOwn
  <2>5. CASE ContextTooShort \/ JudgeAmbiguous
    <3>1. VerdictOnOwnEvidence'
      BY <2>5 DEF ContextTooShort, JudgeAmbiguous, Finish, VerdictOnOwnEvidence
    <3> QED
      BY <1>2, <2>5, <3>1, JudgingKeepsTypes DEF GradingInv
  <2>6. CASE \/ JudgeError \/ JudgeChild
             \/ \E discriminates, valid \in BOOLEAN : JudgeTensors(discriminates, valid)
    BY <1>2, <2>6, JudgingKeepsTypes, JudgedOnOwnEvidence DEF GradingInv
  <2>7. ASSUME NEW state \in {"ACCURACY_PASS", "ACCURACY_FAIL"}, NEW ok \in BOOLEAN,
               NEW written \in {{}, {"report"}, {"report", "status"}},
               ChildEnds(state, ok, written)
        PROVE  GradingInv'
    <3>1. CASE "status" \in written
      <4>1. out' = [raw |-> out.raw, report |-> [by |-> grading, state |-> state],
                   status |-> [by |-> grading, state |-> state, passed |-> ok]]
        BY <1>2, <2>7, <3>1 DEF ChildEnds, GradingInv, GradingType
      <4>2. probe' \in {[probe EXCEPT !.state = "rc 0"], [probe EXCEPT !.state = "rc 6"]}
        BY <2>7, <3>1 DEF ChildEnds, Says
      <4> QED
        <5>1. UNCHANGED <<dumps, grading, verdict>>
          BY <2>7 DEF ChildEnds
        <5>2. out'.report.by = grading /\ GradingType'
          BY <1>2, <4>1, <4>2, <5>1 DEF GradingInv, GradingType
        <5>3. probe'.state # "EXERCISED"
          BY <1>2, <4>2 DEF GradingInv, GradingType
        <5> QED
          BY <1>2, <5>1, <5>2, <5>3 DEF GradingInv, OwnEvidence, VerdictOnOwnEvidence
    <3>2. CASE "status" \notin written
      <4>1. out' \in {out, [out EXCEPT !.report = [by |-> grading, state |-> state]]}
        BY <1>2, <2>7, <3>2 DEF ChildEnds, GradingInv, GradingType
      <4>2. probe' = [probe EXCEPT !.state = "rc 1"]
        BY <2>7, <3>2 DEF ChildEnds, Says
      <4> QED
        BY <1>2, <2>7, <4>1, <4>2
        DEF ChildEnds, GradingInv, GradingType, OwnEvidence, VerdictOnOwnEvidence
    <3> QED
      BY <3>1, <3>2
  <2>8. CASE UNCHANGED gradingVars
    BY <1>2, <2>8 DEF gradingVars, GradingInv, GradingType, OwnEvidence, VerdictOnOwnEvidence
  <2> QED
    BY <1>2, <2>1, <2>2, <2>3, <2>4, <2>5, <2>6, <2>7, <2>8 DEF GradingNext
<1>3. GradingInv => VerdictOnOwnEvidence
  BY DEF GradingInv
<1> QED
  BY <1>1, <1>2, <1>3, PTL DEF GradingSpec

-----------------------------------------------------------------------------
(* CapabilityEvaluation *)

ChildStates == {"missing", "EVALUATION_ERROR", "EXERCISED_FAIL", "EVALUATION_INCONCLUSIVE",
                "EVALUATION_UNIMPLEMENTED", "EXERCISED_PASS"}

AllStates == ChildStates \cup {"PARSER_ABSENT", "CONFORMANT", "NONCONFORMANT"}

IsReport(r) ==
  /\ r = [state |-> r.state, right |-> r.right, control |-> r.control]
  /\ r.state \in AllStates

EvaluationType ==
  /\ reports = [s \in Subjects |-> reports[s]]
  /\ \A s \in Subjects : IsReport(reports[s])
  /\ demanded \subseteq Subjects /\ todo \subseteq demanded
  /\ sampled \subseteq demanded

(* What a passing report says of its kernel and control. *)
Exercised(s, r) ==
  /\ r.right
  /\ \/ r.control = "told apart"
     \/ r.control = "raised" /\ s \in RunsItsControl

(* While a node is under way: a dimension that is done passed rightly if   *)
(* its report says so, and was accepted if no exit code says otherwise.    *)
Underway ==
  /\ node # "none" => ~passed
  /\ \A s \in Subjects :
       reports[s].state = "EXERCISED_PASS" => Exercised(s, reports[s])
  /\ node = "capability_evaluation" =>
       /\ demanded # {} /\ sampled = demanded
       /\ \A s \in Subjects : reports[s].state \in ChildStates
       /\ \A d \in demanded \ todo : returncode = 0 => d \in accepted
  /\ node = "api_conformance" => demanded \ sampled \subseteq {"tool"}

EvaluationInv == EvaluationType /\ Underway /\ PassIsExercised

(* The worst of the children is the best state only if all of them are. *)
LEMMA WorstIsBest ==
  ASSUME NEW children \in SUBSET Subjects, children # {}, Worst(children) = 4,
         \A d \in children : reports[d].state \in ChildStates
  PROVE  \A d \in children : reports[d].state = "EXERCISED_PASS"
<1> DEFINE R(d) == Rank(reports[d].state)
           S == {R(d) : d \in children}
<1>1. \A d \in children : R(d) \in 0..4 /\ (R(d) = 4 => reports[d].state = "EXERCISED_PASS")
  BY DEF Rank, ChildStates
<1>2. Worst(children) = CHOOSE r \in S : \A d \in children : r <= R(d)
  BY DEF Worst
<1> HIDE DEF R
<1>3. \E r \in S : \A d \in children : r <= R(d)
  <2>1. S # {} /\ S \subseteq 0..4
    BY <1>1
  <2>2. \A d \in children : R(d) \in S
    OBVIOUS
  <2> HIDE DEF S
  <2>3. \E r \in S : \A q \in S : r <= q
    <3>1. CASE 0 \in S
      BY <2>1, <3>1
    <3>2. CASE 0 \notin S /\ 1 \in S
      BY <2>1, <3>2
    <3>3. CASE 0 \notin S /\ 1 \notin S /\ 2 \in S
      BY <2>1, <3>3
    <3>4. CASE 0 \notin S /\ 1 \notin S /\ 2 \notin S /\ 3 \in S
      BY <2>1, <3>4
    <3>5. CASE 0 \notin S /\ 1 \notin S /\ 2 \notin S /\ 3 \notin S
      <4>1. \A q \in S : q = 4
        BY <2>1, <3>5
      <4>2. 4 \in S
        <5>1. PICK q \in S : TRUE
          BY <2>1
        <5> QED
          BY <4>1, <5>1
      <4> QED
        BY <4>1, <4>2
    <3> QED
      BY <3>1, <3>2, <3>3, <3>4, <3>5
  <2> QED
    BY <2>2, <2>3
<1>4. \A d \in children : Worst(children) <= R(d)
  BY <1>2, <1>3
<1> QED
  BY <1>1, <1>4

(* An exit code of one is not the success of node_passed. *)
LEMMA ZeroIsNotOne == 0 # 1
OBVIOUS

LEMMA ChildKeepsInv ==
  ASSUME EvaluationInv, NEW d \in todo, NEW raised \in BOOLEAN, NEW control \in Controls,
         NEW right \in BOOLEAN, NEW complete \in BOOLEAN, NEW ends \in Ends,
         raised => control = "cleared the gate" /\ ~right,
         control = "raised" => d \in RunsItsControl,
         Child(d, raised, control, right, complete, ends)
  PROVE  EvaluationInv'
<1> DEFINE state == ProbeState(raised, control, right)
           r == [state |-> state, right |-> right, control |-> control]
<1>1. /\ state \in ChildStates
      /\ state = "EXERCISED_PASS" => Exercised(d, r)
  BY DEF ProbeState, ChildStates, Exercised
<1>2. /\ UNCHANGED <<node, demanded, sampled, passed>> /\ todo' = todo \ {d}
      /\ node = "capability_evaluation"
      /\ reports' \in {reports, [reports EXCEPT ![d] = r]}
  BY DEF Child
<1>3. /\ accepted \subseteq accepted'
      /\ returncode' = 0 => returncode = 0 /\ d \in accepted'
  <2>1. CASE ends = "whole" /\ EvaluationAccepted(state, complete)
    <3>1. accepted' = accepted \cup {d}
      BY <2>1 DEF Child
    <3>2. returncode' = FirstError(IF state = "EXERCISED_FAIL" THEN 1 ELSE 0)
      BY <2>1 DEF Child
    <3> QED
      BY <3>1, <3>2 DEF FirstError
  <2>2. CASE ~(ends = "whole" /\ EvaluationAccepted(state, complete))
    <3>1. accepted' = accepted
      BY <2>2 DEF Child
    <3>2. returncode' = FirstError(1)
      BY <2>2 DEF Child
    <3>3. returncode' # 0
      BY <3>2, ZeroIsNotOne DEF FirstError
    <3> QED
      BY <3>1, <3>3
  <2> QED
    BY <2>1, <2>2
<1>4. IsReport(r)
  BY <1>1 DEF AllStates, IsReport
<1> HIDE DEF state
<1>5. EvaluationType'
  BY <1>2, <1>4 DEF EvaluationInv, EvaluationType
<1>6. ~passed'
  BY <1>2 DEF EvaluationInv, Underway
<1>7. ASSUME NEW s \in Subjects
      PROVE  /\ reports'[s].state \in ChildStates
             /\ reports'[s].state = "EXERCISED_PASS" => Exercised(s, reports'[s])
  <2>1. reports'[s] = reports[s] \/ (s = d /\ reports'[s] = r)
    BY <1>2 DEF EvaluationInv, EvaluationType
  <2>2. CASE reports'[s] = reports[s]
    BY <1>2, <2>2 DEF EvaluationInv, Underway
  <2>3. CASE s = d /\ reports'[s] = r
    <3>1. r.state = state
      OBVIOUS
    <3> HIDE DEF r
    <3> QED
      BY <1>1, <2>3, <3>1
  <2> QED
    BY <2>1, <2>2, <2>3
<1> QED
  BY <1>2, <1>3, <1>5, <1>6, <1>7 DEF EvaluationInv, Underway, PassIsExercised

LEMMA FanInKeepsInv ==
  ASSUME EvaluationInv, NEW killed \in BOOLEAN, FanIn(killed)
  PROVE  EvaluationInv'
<1>1. /\ node = "capability_evaluation" /\ todo = {} /\ node' = "none"
      /\ UNCHANGED <<demanded, sampled, todo, reports, accepted>>
  BY DEF FanIn
<1>2. passed' => returncode = 0 /\ Worst(demanded) = 4
  BY DEF FanIn, FirstError, Aggregate
<1>3. passed' => \A d \in demanded : reports[d].state = "EXERCISED_PASS"
  BY <1>1, <1>2, WorstIsBest DEF EvaluationInv, EvaluationType, Underway
<1>4. PassIsExercised'
  BY <1>1, <1>2, <1>3 DEF EvaluationInv, EvaluationType, Underway, PassIsExercised, Exercised
<1> QED
  BY <1>1, <1>4 DEF EvaluationInv, EvaluationType, Underway

LEMMA ConformanceKeepsInv ==
  ASSUME EvaluationInv,
         NEW fault \in {"registries", "not registered", "markers", "parser raised", "none"},
         NEW declared \in BOOLEAN, NEW right \in SUBSET Parsers, NEW control \in SUBSET Parsers,
         NEW ends \in Ends, Conformance(fault, declared, right, control, ends)
  PROVE  EvaluationInv'
<1> DEFINE state == ConformanceState(fault, right, control)
           r(s) == ParserReport(s, state, right, control)
           new == [s \in Subjects |-> IF s \in sampled THEN r(s) ELSE reports[s]]
<1>1. /\ node = "api_conformance" /\ node' = "none" /\ todo' = {}
      /\ UNCHANGED <<demanded, sampled>>
      /\ reports' = reports \/ reports' = new
  BY DEF Conformance
<1>2. state \in AllStates \ {"EXERCISED_PASS"}
  BY DEF ConformanceState, AllStates, ChildStates
<1>3. ASSUME passed'
      PROVE  state = "CONFORMANT" /\ accepted' = sampled /\ reports' = new
  <2> DEFINE whole == ends = "whole" /\ (state \in {"CONFORMANT", "NONCONFORMANT"} => declared)
             rc == IF whole /\ state = "CONFORMANT" THEN 0 ELSE 1
  <2>1. /\ passed' = (rc = 0)
        /\ accepted' = IF whole THEN sampled ELSE {}
        /\ reports' = IF ends = "before the report" THEN reports ELSE new
    BY DEF Conformance
  <2>2. returncode' = rc /\ (passed' = (returncode' = 0))
    BY DEF Conformance
  <2>3. whole /\ state = "CONFORMANT"
    <3>1. CASE ~(whole /\ state = "CONFORMANT")
      <4>1. returncode' = 1
        BY <2>2, <3>1
      <4>2. returncode' = 0
        BY <1>3, <2>2
      <4> HIDE DEF whole, rc, new, r, state
      <4> QED
        BY <4>1, <4>2, ZeroIsNotOne
    <3> QED
      BY <3>1
  <2> QED
    BY <2>1, <2>3
<1>4. state = "CONFORMANT" => sampled # {} /\ sampled \subseteq control /\ sampled \subseteq right
  BY DEF ConformanceState
<1> HIDE DEF state
<1>5. ASSUME NEW s
      PROVE  /\ IsReport(r(s)) /\ r(s).state = state
             /\ r(s).right = (s \in right)
             /\ s \in control => r(s).control = "told apart"
  BY <1>2 DEF IsReport, ParserReport
<1> HIDE DEF r
<1>6. EvaluationType'
  <2>1. CASE reports' = reports
    BY <1>1, <2>1 DEF EvaluationInv, EvaluationType
  <2>2. CASE reports' = new
    BY <1>1, <1>5, <2>2 DEF EvaluationInv, EvaluationType
  <2> QED
    BY <1>1, <2>1, <2>2
<1>7. \A s \in Subjects : reports'[s].state = "EXERCISED_PASS" => reports'[s] = reports[s]
  <2>1. CASE reports' = reports
    BY <2>1
  <2>2. CASE reports' = new
    BY <1>2, <1>5, <2>2
  <2> QED
    BY <1>1, <2>1, <2>2
<1>8. ~passed
  BY <1>1 DEF EvaluationInv, Underway
<1>9. Underway'
  BY <1>1, <1>7 DEF EvaluationInv, Underway
<1>10. PassIsExercised'
  <2> SUFFICES ASSUME passed' PROVE PassIsExercised'
    BY DEF PassIsExercised
  <2>1. demanded \ sampled \subseteq {"tool"}
    BY <1>1 DEF EvaluationInv, Underway
  <2>2. sampled \subseteq Subjects
    BY DEF EvaluationInv, EvaluationType
  <2>3. \A s \in sampled : reports'[s].right /\ reports'[s].control = "told apart"
    BY <1>3, <1>4, <1>5, <2>2
  <2> QED
    BY <1>1, <1>3, <1>4, <2>1, <2>3 DEF PassIsExercised
<1> QED
  BY <1>6, <1>9, <1>10 DEF EvaluationInv

LEMMA StartKeepsInv ==
  ASSUME EvaluationInv, StartEvaluation \/ StartConformance
  PROVE  EvaluationInv'
<1>1. PICK n \in {"capability_evaluation", "api_conformance"}, subjects \in SUBSET Subjects,
           samples \in SUBSET Subjects :
        /\ Start(n, subjects, samples) /\ samples \subseteq subjects
        /\ n = "capability_evaluation" => subjects # {} /\ samples = subjects
        /\ n = "api_conformance" => subjects \ samples \subseteq {"tool"}
  <2>1. CASE StartEvaluation
    <3>1. PICK attention \in {"gqa", "mla", "sliding_window", "unknown"},
               axes \in SUBSET {"quantization", "moe", "multimodal", "speculative_decode"} :
            /\ DimensionsFor(attention, axes) # {}
            /\ Start("capability_evaluation",
                     DimensionsFor(attention, axes), DimensionsFor(attention, axes))
      BY <2>1 DEF StartEvaluation
    <3>2. DimensionsFor(attention, axes) \subseteq Subjects
      BY DEF DimensionsFor, Subjects, Dimensions
    <3> QED
      BY <3>1, <3>2
  <2>2. CASE StartConformance
    <3>1. PICK requested \in SUBSET Parsers, samples \in {{"reasoning"}, Parsers} :
            Start("api_conformance", requested, requested \cap samples)
      BY <2>2 DEF StartConformance
    <3>2. requested \in SUBSET Subjects /\ requested \ (requested \cap samples) \subseteq {"tool"}
      BY DEF Subjects, Parsers
    <3> QED
      BY <3>1, <3>2
  <2> QED
    BY <2>1, <2>2
<1>2. IsReport(NoReport)
      /\ NoReport.state \in ChildStates /\ NoReport.state # "EXERCISED_PASS"
  BY DEF NoReport, AllStates, ChildStates, IsReport
<1>3. /\ node' = n /\ demanded' = subjects /\ sampled' = samples /\ todo' = subjects
      /\ ~passed'
      /\ reports' = [s \in Subjects |-> NoReport]
  BY <1>1 DEF Start
<1>4. \A s \in Subjects : reports'[s] = NoReport
  BY <1>3
<1>5. EvaluationType'
  BY <1>1, <1>2, <1>3, <1>4 DEF EvaluationType
<1>6. Underway'
  BY <1>1, <1>2, <1>3, <1>4 DEF Underway
<1> QED
  BY <1>3, <1>5, <1>6 DEF EvaluationInv, PassIsExercised

(* A node that passed exercised all it had samples for, although the       *)
(* fan-in reads unvalidated reports and runs after children that failed or *)
(* died (aggregate, node_passed); a control that raised counts as told     *)
(* apart, and a tool parser without a sample is not missed.                *)
THEOREM PassedIsExercised == EvaluationSpec => []PassIsExercised
<1>1. EvaluationInit => EvaluationInv
  <2> SUFFICES ASSUME EvaluationInit PROVE EvaluationInv
    OBVIOUS
  <2>1. /\ IsReport(NoReport) /\ NoReport.state = "missing"
        /\ "missing" \in ChildStates /\ "missing" # "EXERCISED_PASS"
    BY DEF NoReport, IsReport, AllStates, ChildStates
  <2>2. EvaluationType
    BY <2>1 DEF EvaluationInit, EvaluationType
  <2>3. ~passed /\ node = "none" /\ \A s \in Subjects : reports[s] = NoReport
    BY DEF EvaluationInit
  <2> QED
    BY <2>1, <2>2, <2>3 DEF EvaluationInv, Underway, PassIsExercised
<1>2. ASSUME EvaluationInv, [EvaluationNext]_evaluationVars PROVE EvaluationInv'
  <2>1. CASE StartEvaluation \/ StartConformance
    BY <1>2, <2>1, StartKeepsInv
  <2>2. CASE Unimplemented
    <3>1. "EVALUATION_UNIMPLEMENTED" \in ChildStates /\ ChildStates \subseteq AllStates
      BY DEF ChildStates, AllStates
    <3>2. \A s \in Subjects \ {"multimodal"} : reports'[s] = reports[s]
      BY <1>2, <2>2 DEF Unimplemented, EvaluationInv, EvaluationType
    <3>3. reports'["multimodal"].state = "EVALUATION_UNIMPLEMENTED" /\ EvaluationType'
      <4>1. "multimodal" \in Subjects
        BY DEF Subjects, Dimensions
      <4>2. /\ reports'["multimodal"].state = "EVALUATION_UNIMPLEMENTED"
            /\ IsReport(reports'["multimodal"])
        BY <1>2, <2>2, <3>1, <4>1 DEF Unimplemented, EvaluationInv, EvaluationType, IsReport
      <4>3. reports' = [s \in Subjects |-> reports'[s]]
        BY <1>2, <2>2 DEF Unimplemented, EvaluationInv, EvaluationType
      <4> QED
        BY <1>2, <2>2, <3>2, <4>2, <4>3 DEF Unimplemented, EvaluationInv, EvaluationType, Underway
    <3> QED
      BY <1>2, <2>2, <3>1, <3>2, <3>3 DEF Unimplemented, EvaluationInv, Underway, PassIsExercised
  <2>3. ASSUME NEW d \in todo, NEW raised \in BOOLEAN, NEW control \in Controls,
               NEW right \in BOOLEAN, NEW complete \in BOOLEAN, NEW ends \in Ends,
               raised => control = "cleared the gate" /\ ~right,
               control = "raised" => d \in RunsItsControl,
               Child(d, raised, control, right, complete, ends)
        PROVE  EvaluationInv'
    BY <1>2, <2>3, ChildKeepsInv
  <2>4. ASSUME NEW killed \in BOOLEAN, FanIn(killed) PROVE EvaluationInv'
    BY <1>2, <2>4, FanInKeepsInv
  <2>5. ASSUME NEW fault \in {"registries", "not registered", "markers", "parser raised", "none"},
               NEW declared \in BOOLEAN, NEW right \in SUBSET Parsers,
               NEW control \in SUBSET Parsers, NEW ends \in Ends,
               Conformance(fault, declared, right, control, ends)
        PROVE  EvaluationInv'
    BY <1>2, <2>5, ConformanceKeepsInv
  <2>6. CASE UNCHANGED evaluationVars
    BY <1>2, <2>6
    DEF evaluationVars, EvaluationInv, EvaluationType, Underway, PassIsExercised
  <2> QED
    BY <1>2, <2>1, <2>2, <2>3, <2>4, <2>5, <2>6 DEF EvaluationNext
<1>3. EvaluationInv => PassIsExercised
  BY DEF EvaluationInv
<1> QED
  BY <1>1, <1>2, <1>3, PTL DEF EvaluationSpec

-----------------------------------------------------------------------------
(* VendorHandoff *)

VendorInv == document \in Documents /\ SuccessIsJudged /\ OneOwnerEach /\ VendorOwnsBinaries

LEMMA AuthorKeepsDocuments ==
  ASSUME document \in Documents,
         \/ \E f \in Findings : Write(f)
         \/ \E i \in DOMAIN document.findings : Reach(i)
         \/ Serve
  PROVE  document' \in Documents /\ UNCHANGED <<package, ticket, status, exit>>
<1>1. document.findings \in Seq(Findings) /\ document.serves \in BOOLEAN
  BY DEF Documents
<1>2. ASSUME NEW f \in Findings, Write(f)
      PROVE  document' \in Documents
  <2>1. document' = [document EXCEPT !.findings = Append(@, f)]
    BY <1>2 DEF Write
  <2>2. Append(document.findings, f) \in Seq(Findings)
    BY <1>1
  <2> QED
    BY <2>1, <2>2 DEF Documents
<1>3. ASSUME NEW i \in DOMAIN document.findings, Reach(i)
      PROVE  document' \in Documents
  <2> DEFINE old == document.findings[i]
             new == [old EXCEPT !.kind = "observed_failure", !.evidence = @ \cup {"error"}]
  <2>1. old \in Findings
    BY <1>1
  <2>2. new \in Findings
    BY <2>1 DEF Findings
  <2>3. document' = [document EXCEPT !.findings = [document.findings EXCEPT ![i] = new]]
    BY <1>3 DEF Reach, Documents
  <2> HIDE DEF new
  <2>4. [document.findings EXCEPT ![i] = new] \in Seq(Findings)
    BY <1>1, <2>2
  <2> QED
    BY <2>3, <2>4 DEF Documents
<1>4. CASE Serve
  BY <1>1, <1>4 DEF Serve, Documents
<1>5. UNCHANGED <<package, ticket, status, exit>>
  BY DEF Write, Reach, Serve
<1> QED
  BY <1>2, <1>3, <1>4, <1>5

(* An accepted finding lies in a layer that its owner can change. *)
LEMMA AcceptedFitsItsOwner ==
  ASSUME NEW f \in Findings, FindingAccepted(f)
  PROVE  f.owner = "vendor" <=> f.layer \in Binary
BY DEF Findings, FindingAccepted, OwnerFits, Binary, Owned

(* In an accepted document no two findings share an identifier. *)
LEMMA OnePackageOneOwner ==
  ASSUME document \in Documents, PackageAccepted(document),
         NEW o1 \in DOMAIN Routing(document), NEW o2 \in DOMAIN Routing(document), o1 # o2
  PROVE  Routing(document)[o1] \cap Routing(document)[o2] = {}
<1> DEFINE F == document.findings
<1>1. F \in Seq(Findings) /\ DOMAIN F \subseteq Nat
  BY DEF Documents
<1>2. ASSUME NEW i \in DOMAIN F, NEW j \in DOMAIN F, F[i].id = F[j].id
      PROVE  i = j
  <2>1. Len(F) \in Nat /\ DOMAIN F = 1..Len(F)
    BY <1>1
  <2>2. i < j => i \in 1..(j - 1)
    BY <2>1
  <2>3. j < i => j \in 1..(i - 1)
    BY <2>1
  <2>4. ~(i < j) /\ ~(j < i)
    BY <1>2, <2>2, <2>3 DEF PackageAccepted
  <2> QED
    BY <2>1, <2>4
<1>3. ASSUME NEW id \in Routing(document)[o1], id \in Routing(document)[o2]
      PROVE  FALSE
  <2>1. PICK i \in DOMAIN F : F[i].owner = o1 /\ F[i].id = id
    BY DEF Routing
  <2>2. PICK j \in DOMAIN F : F[j].owner = o2 /\ F[j].id = id
    BY <1>3 DEF Routing
  <2> QED
    BY <1>2, <2>1, <2>2
<1> QED
  BY <1>3

LEMMA PackageKeepsInv ==
  ASSUME VendorInv, Package
  PROVE  VendorInv'
<1>1. /\ document' = document /\ document \in Documents
      /\ package' = Built(document) /\ status'.package = Built(document)
      /\ status'.form = "package" /\ status'.ticket = {}
      /\ status'.passed = PackageAccepted(document)
      /\ exit' = IF PackageAccepted(document) THEN "ok" ELSE "refused"
  BY DEF Package, WritePackage, VendorInv
<1>2. /\ status'.package.routing = Routing(document)
      /\ status'.package.findings = document.findings
  BY <1>1 DEF Built
<1>3. SuccessIsJudged'
  BY <1>1 DEF SuccessIsJudged
<1>4. CASE PackageAccepted(document)
  <2>1. \A i \in DOMAIN document.findings :
          document.findings[i] \in Findings /\ FindingAccepted(document.findings[i])
    BY <1>1, <1>4 DEF PackageAccepted, Documents
  <2>2. VendorOwnsBinaries'
    BY <1>1, <1>2, <2>1, AcceptedFitsItsOwner DEF VendorOwnsBinaries
  <2>3. OneOwnerEach'
    BY <1>1, <1>2, <1>4, OnePackageOneOwner DEF OneOwnerEach
  <2> QED
    BY <1>1, <1>3, <2>2, <2>3 DEF VendorInv
<1>5. CASE ~PackageAccepted(document)
  BY <1>1, <1>3, <1>5 DEF VendorInv, OneOwnerEach, VendorOwnsBinaries
<1> QED
  BY <1>4, <1>5

LEMMA TicketKeepsInv ==
  ASSUME VendorInv, Ticket
  PROVE  VendorInv'
<1>1. /\ document' = document /\ ticket' = {triage}
      /\ status'.form = "ticket" /\ status'.package.findings = <<>>
      /\ status'.ticket = {triage} /\ status'.passed = triage.complete
      /\ exit' = IF triage.complete THEN "ok" ELSE "refused"
  BY DEF Ticket, NoPackage
<1>2. triage.state = "TRIAGE_READY" /\ triage.layer \in Binary
  BY DEF Ticket, NotATicket
<1>3. SuccessIsJudged'
  BY <1>1 DEF SuccessIsJudged
<1> QED
  BY <1>1, <1>2, <1>3 DEF VendorInv, OneOwnerEach, VendorOwnsBinaries

(* A run that succeeds leaves what it judged, and what passed can be       *)
(* changed by whom it is sent to, for any number of findings, of runs that *)
(* break off, and of triages in between (build_package,                    *)
(* validate_handoff_package, execute).                                     *)
THEOREM VendorGetsItsOwn == VendorSpec => []HandoffReachesItsOwner
<1>1. VendorInit => VendorInv
  BY DEF VendorInit, VendorInv, NoStatus, NoPackage, Documents, SuccessIsJudged, OneOwnerEach,
         VendorOwnsBinaries
<1>2. ASSUME VendorInv, [VendorNext]_vendorVars PROVE VendorInv'
  <2> USE DEF VendorInv, SuccessIsJudged, OneOwnerEach, VendorOwnsBinaries
  <2>1. CASE \/ \E f \in Findings : Write(f)
             \/ \E i \in DOMAIN document.findings : Reach(i)
             \/ Serve
    BY <1>2, <2>1, AuthorKeepsDocuments
  <2>2. CASE Package
    BY <1>2, <2>2, PackageKeepsInv
  <2>3. CASE PackageBreaksOff \/ TicketBreaksOff
    BY <1>2, <2>3 DEF PackageBreaksOff, TicketBreaksOff
  <2>4. CASE TicketWithoutTriage
    <3>1. ~status'.passed /\ document' = document /\ exit' = "refused"
      BY <2>4 DEF TicketWithoutTriage, NoStatus
    <3> QED
      BY <1>2, <3>1
  <2>5. CASE Ticket
    BY <1>2, <2>5, TicketKeepsInv
  <2>6. CASE StopEarly
    BY <1>2, <2>6 DEF StopEarly
  <2>7. CASE (\E t \in Triages : Triaged(t)) \/ UNCHANGED vendorVars
    BY <1>2, <2>7 DEF Triaged, vendorVars
  <2> QED
    BY <1>2, <2>1, <2>2, <2>3, <2>4, <2>5, <2>6, <2>7 DEF VendorNext
<1>3. VendorInv => HandoffReachesItsOwner
  BY DEF VendorInv, HandoffReachesItsOwner
<1> QED
  BY <1>1, <1>2, <1>3, PTL DEF VendorSpec

-----------------------------------------------------------------------------
(* OperatorHandoff *)

(* Entries as they are before anything is known of their numbers. *)
ShimEntries ==
  [name : Shims, file : Files \cup {Nowhere}, facts : BOOLEAN, reason : BOOLEAN,
   status : {"REGISTERED", "DISPATCHED", "WAIVED"}, request : Nat, thisRun : BOOLEAN]

ShimReports == [state : {"none", "HANDOFF_CLEAR", "HANDOFF_FOUND"}, entries : Seq(ShimEntries),
                signals : SUBSET Shims, accepted : BOOLEAN]

(* A number in an entry is that of a request which was written for its shim. *)
Requested(list, files) ==
  \A i \in DOMAIN list :
    list[i].request = 0 \/ \E r \in files : r.id = list[i].request /\ r.shim = list[i].name

HandoffType ==
  /\ plugin \in [Shims -> Files \cup {Nowhere}]
  /\ registry \in Seq(ShimEntries)
  /\ report.entries \in Seq(ShimEntries)

HandoffInv ==
  /\ HandoffType
  /\ Requested(registry, requests)
  /\ Requested(report.entries, requests)
  /\ ClearIsHandedOver

LEMMA RequestNumberIsNat ==
  ASSUME NEW list, NEW i \in Nat
  PROVE  RequestNumber(list, i) \in Nat
<1>1. IsFiniteSet(1..i)
  BY FS_Interval
<1>2. IsFiniteSet({j \in 1..i : Dispatchable(list[j])})
  BY <1>1, FS_Subset
<1> QED
  BY <1>2, FS_CardinalityType DEF RequestNumber

(* An edit changes neither requests nor report; an entry keeps its number  *)
(* and its name, and a new one has none.                                   *)
LEMMA EditKeepsRequested ==
  ASSUME HandoffInv, Edit
  PROVE  HandoffInv'
<1>1. UNCHANGED <<report, requests>>
  BY DEF Edit, Patch, Spoil, Declare, Waive, Correct, Adopt
<1>2. CASE \/ \E s \in Shims, file \in Files : Patch(s, file)
           \/ \E file \in Files : Spoil(file)
  <2>1. registry' = registry /\ plugin' \in [Shims -> Files \cup {Nowhere}]
    BY <1>2 DEF HandoffInv, HandoffType, Patch, Spoil
  <2> QED
    BY <1>1, <2>1 DEF HandoffInv, HandoffType, ClearIsHandedOver, HandedOver
<1>3. ASSUME NEW s \in Shims, NEW facts \in BOOLEAN, Declare(s, facts)
      PROVE  HandoffInv'
  <2> DEFINE e == [name |-> s, file |-> plugin[s], facts |-> facts, reason |-> FALSE,
                   status |-> "REGISTERED", request |-> 0, thisRun |-> FALSE]
  <2>1. e \in ShimEntries /\ e.request = 0
    BY DEF HandoffInv, HandoffType, ShimEntries
  <2>2. registry' = Append(registry, e) /\ plugin' = plugin
    BY <1>3 DEF Declare
  <2> HIDE DEF e
  <2>3. registry' \in Seq(ShimEntries)
    BY <2>1, <2>2 DEF HandoffInv, HandoffType
  <2>4. \A i \in DOMAIN registry' :
          registry'[i] = e \/ (i \in DOMAIN registry /\ registry'[i] = registry[i])
    BY <2>1, <2>2 DEF HandoffInv, HandoffType
  <2>5. Requested(registry', requests)
    BY <2>1, <2>4 DEF HandoffInv, Requested
  <2> QED
    BY <1>1, <2>2, <2>3, <2>5 DEF HandoffInv, HandoffType, ClearIsHandedOver, HandedOver
<1>4. ASSUME NEW i \in DOMAIN registry,
             \/ \E reason \in BOOLEAN : Waive(i, reason)
             \/ Correct(i)
      PROVE  HandoffInv'
  <2>1. registry[i] \in ShimEntries /\ plugin' = plugin
    <3>1. registry[i] \in ShimEntries
      BY DEF HandoffInv, HandoffType
    <3>2. plugin' = plugin
      BY <1>4 DEF Waive, Correct
    <3> QED
      BY <3>1, <3>2
  <2>2. PICK e \in ShimEntries :
          /\ registry' = [registry EXCEPT ![i] = e]
          /\ e.request = registry[i].request /\ e.name = registry[i].name
    <3>1. ASSUME NEW reason \in BOOLEAN, Waive(i, reason)
          PROVE  \E e \in ShimEntries :
                   /\ registry' = [registry EXCEPT ![i] = e]
                   /\ e.request = registry[i].request /\ e.name = registry[i].name
      <4> DEFINE e == [registry[i] EXCEPT !.status = "WAIVED", !.reason = reason]
      <4>1. e \in ShimEntries /\ e.request = registry[i].request /\ e.name = registry[i].name
        BY <2>1 DEF ShimEntries
      <4>2. registry' = [registry EXCEPT ![i] = e]
        BY <3>1, <2>1 DEF Waive, HandoffInv, HandoffType
      <4> QED
        BY <4>1, <4>2
    <3>2. ASSUME Correct(i)
          PROVE  \E e \in ShimEntries :
                   /\ registry' = [registry EXCEPT ![i] = e]
                   /\ e.request = registry[i].request /\ e.name = registry[i].name
      <4> DEFINE e == [registry[i] EXCEPT !.facts = TRUE, !.file = plugin[registry[i].name]]
      <4>1. plugin[registry[i].name] \in Files \cup {Nowhere}
        BY <2>1 DEF HandoffInv, HandoffType, ShimEntries
      <4>2. e \in ShimEntries /\ e.request = registry[i].request /\ e.name = registry[i].name
        BY <2>1, <4>1 DEF ShimEntries
      <4>3. registry' = [registry EXCEPT ![i] = e]
        BY <3>2, <2>1 DEF Correct, HandoffInv, HandoffType
      <4> QED
        BY <4>2, <4>3
    <3> QED
      BY <1>4, <3>1, <3>2
  <2>3. registry' \in Seq(ShimEntries) /\ Requested(registry', requests)
    BY <2>2 DEF HandoffInv, HandoffType, Requested
  <2> QED
    BY <1>1, <2>1, <2>3 DEF HandoffInv, HandoffType, ClearIsHandedOver, HandedOver
<1>5. ASSUME NEW flags \in BOOLEAN, Adopt(flags)
      PROVE  HandoffInv'
  <2> DEFINE old == report.entries
             new(i) == [old[i] EXCEPT !.thisRun = flags /\ @]
  <2>1. old \in Seq(ShimEntries)
    BY DEF HandoffInv, HandoffType
  <2>2. ASSUME NEW i \in DOMAIN old
        PROVE  /\ new(i) \in ShimEntries
               /\ new(i).request = old[i].request /\ new(i).name = old[i].name
    <3> DEFINE b == flags /\ old[i].thisRun
    <3>1. old[i] \in ShimEntries
      BY <2>1, <2>2
    <3>2. b \in BOOLEAN /\ new(i) = [old[i] EXCEPT !.thisRun = b]
      BY <3>1
    <3> HIDE DEF b, new
    <3> QED
      BY <3>1, <3>2 DEF ShimEntries
  <2>3. registry' = [i \in DOMAIN old |-> new(i)] /\ plugin' = plugin
    BY <1>5 DEF Adopt
  <2> HIDE DEF new
  <2>4. registry' \in Seq(ShimEntries)
    BY <2>1, <2>2, <2>3
  <2>5. Requested(registry', requests)
    BY <2>2, <2>3 DEF HandoffInv, Requested
  <2> QED
    BY <1>1, <2>3, <2>4, <2>5 DEF HandoffInv, HandoffType, ClearIsHandedOver, HandedOver
<1> QED
  BY <1>2, <1>3, <1>4, <1>5 DEF Edit

(* A scan writes a request for every entry it gives a number. *)
LEMMA ScanRequests ==
  ASSUME HandoffInv
  PROVE  /\ Dispatched(registry) \in Seq(ShimEntries)
         /\ \A i \in DOMAIN registry :
              LET e == Dispatched(registry)[i]
              IN \/ \E r \in requests \cup RequestFiles(registry) :
                      r.id = e.request /\ r.shim = e.name
                 \/ e.status = "WAIVED" /\ e.request = 0
<1>1. registry \in Seq(ShimEntries) /\ DOMAIN registry = 1..Len(registry)
  BY DEF HandoffInv, HandoffType
<1> DEFINE D == Dispatched(registry)
<1>2. ASSUME NEW i \in DOMAIN registry
      PROVE  /\ D[i] \in ShimEntries /\ D[i].name = registry[i].name
             /\ Dispatchable(registry[i]) => D[i].request = RequestNumber(registry, i)
             /\ ~Dispatchable(registry[i]) => D[i] = registry[i]
  <2>1. RequestNumber(registry, i) \in Nat
    BY <1>1, RequestNumberIsNat
  <2>2. registry[i] \in ShimEntries
    BY <1>1
  <2> QED
    BY <2>1, <2>2 DEF Dispatched, ShimEntries
<1>3. D \in Seq(ShimEntries)
  <2>1. D = [i \in DOMAIN registry |-> D[i]]
    BY DEF Dispatched
  <2> HIDE DEF D
  <2> QED
    BY <1>1, <1>2, <2>1
<1>4. ASSUME NEW i \in DOMAIN registry
      PROVE  \/ \E r \in requests \cup RequestFiles(registry) :
                  r.id = D[i].request /\ r.shim = D[i].name
             \/ D[i].status = "WAIVED" /\ D[i].request = 0
  <2>1. CASE Dispatchable(registry[i])
    <3> DEFINE r == [scan |-> scans + 1, id |-> RequestNumber(registry, i), shim |-> registry[i].name]
    <3>1. r \in RequestFiles(registry)
      BY <2>1 DEF RequestFiles
    <3>2. r.id = D[i].request /\ r.shim = D[i].name
      BY <1>2, <2>1
    <3> QED
      BY <3>1, <3>2
  <2>2. CASE ~Dispatchable(registry[i])
    BY <1>2, <2>2 DEF Dispatchable, HandoffInv, Requested
  <2> QED
    BY <2>1, <2>2
<1> QED
  BY <1>3, <1>4

LEMMA ScanKeepsRequested ==
  ASSUME HandoffInv, NEW scanned \in BOOLEAN, Scan(scanned)
  PROVE  HandoffInv'
<1> DEFINE D == Dispatched(registry)
<1>1. /\ UNCHANGED <<plugin, unparsable, registry>>
      /\ requests' = requests \cup RequestFiles(registry)
      /\ report'.entries = D /\ report'.signals = Signals /\ report'.state = ShimState(D)
      /\ report'.accepted = ShimsAccepted(D, ShimState(D), Cardinality(RequestFiles(registry)), scanned)
  BY DEF Scan
<1>2. D \in Seq(ShimEntries) /\ DOMAIN D = DOMAIN registry
  BY ScanRequests DEF Dispatched
<1>3. ASSUME NEW i \in DOMAIN D
      PROVE  \/ \E r \in requests' : r.id = D[i].request /\ r.shim = D[i].name
             \/ D[i].status = "WAIVED" /\ D[i].request = 0
  BY <1>1, <1>2, <1>3, ScanRequests
<1> HIDE DEF D
<1>4. HandoffType'
  BY <1>1, <1>2 DEF HandoffInv, HandoffType
<1>5. Requested(registry', requests') /\ Requested(report'.entries, requests')
  BY <1>1, <1>3 DEF HandoffInv, Requested
<1>6. ASSUME report'.accepted, report'.state = "HANDOFF_CLEAR", NEW s \in report'.signals
      PROVE  \E i \in DOMAIN D :
               /\ D[i].name = s
               /\ \/ D[i].status = "WAIVED" /\ D[i].reason
                  \/ \E r \in requests' : r.id = D[i].request /\ r.shim = D[i].name
  <2>1. Unmapped(D) = {} /\ \A i \in DOMAIN D : D[i].status = "WAIVED" => D[i].reason
    BY <1>1, <1>6 DEF ShimsAccepted
  <2>2. PICK i \in DOMAIN D : D[i].name = s
    BY <1>1, <1>6, <2>1 DEF Unmapped, Explains, Signals
  <2> QED
    BY <1>3, <2>1, <2>2
<1>7. ClearIsHandedOver'
  BY <1>1, <1>6 DEF ClearIsHandedOver, HandedOver
<1> QED
  BY <1>4, <1>5, <1>7 DEF HandoffInv

(* A CLEAR report that was accepted hands every shim over that its scan    *)
(* saw, for any registry and any number of edits and scans                 *)
(* (scan_torch_shims.execute, validate_shim_handoff).                      *)
THEOREM ShimsAreHandedOver == HandoffSpec => []ClearIsHandedOver
<1>1. HandoffInit => HandoffInv
  BY DEF HandoffInit, HandoffInv, HandoffType, Requested, ClearIsHandedOver
<1>2. HandoffInv /\ [ShimNext]_shimVars => HandoffInv'
  <2>1. HandoffInv /\ UNCHANGED shimVars => HandoffInv'
    BY DEF shimVars, HandoffInv, HandoffType, Requested, ClearIsHandedOver, HandedOver
  <2> QED
    BY <2>1, EditKeepsRequested, ScanKeepsRequested DEF ShimNext
<1>3. HandoffInv => ClearIsHandedOver
  BY DEF HandoffInv
<1> QED
  BY <1>1, <1>2, <1>3, PTL DEF HandoffSpec

(* Both halves together, in the instance that the run of the tools checks: *)
(* operators leave a walk handed over and come back with a baseline        *)
(* (scan_torch_shims.execute, integration_decision).                       *)
THEOREM OperatorsAreAccountedFor == Spec => []OperatorsAccountedFor
<1>1. Init => HandoffInit /\ CandidatesInit
  BY DEF Init
<1>2. [Next]_<<part, shimVars, candidateVars, vendorVars, gradingVars, claimVars,
              discoveryVars, evaluationVars, budgetVars>>
        => [ShimNext]_shimVars /\ [CandidatesNext]_candidateVars
  BY DEF Next
<1>3. Spec => HandoffSpec /\ CandidatesSpec
  BY <1>1, <1>2, PTL DEF Spec, HandoffSpec, CandidatesSpec
<1>4. ClearIsHandedOver /\ ReadyHasPassingBaseline => OperatorsAccountedFor
  BY DEF OperatorsAccountedFor
<1> QED
  BY <1>3, <1>4, ShimsAreHandedOver, CandidatesHaveBaselines, PTL

-----------------------------------------------------------------------------
(* DeploymentBudget *)

(* A bounded set of integers has a least and a greatest element. *)
LEMMA LeastAndGreatest ==
  ASSUME NEW low \in Int, NEW high \in Int, NEW S \in SUBSET (low..high), S # {}
  PROVE  /\ MinOf(S) \in S /\ \A m \in S : MinOf(S) <= m
         /\ MaxOf(S) \in S /\ \A m \in S : m <= MaxOf(S)
<1>1. \E n \in S : \A m \in S : n <= m
  <2> DEFINE T == {m - low : m \in S}
  <2>1. T \in SUBSET Nat /\ T # {}
    OBVIOUS
  <2>2. PICK t \in T : \A m \in T : t <= m
    BY <2>1, LeastNatural
  <2>3. PICK n \in S : t = n - low
    OBVIOUS
  <2>4. \A m \in S : t <= m - low
    BY <2>2
  <2> QED
    BY <2>3, <2>4
<1>2. \E n \in S : \A m \in S : m <= n
  <2> DEFINE T == {high - m : m \in S}
  <2>1. T \in SUBSET Nat /\ T # {}
    <3>1. \A m \in S : high - m \in Nat
      OBVIOUS
    <3> QED
      BY <3>1
  <2>2. PICK t \in T : \A m \in T : t <= m
    BY <2>1, LeastNatural
  <2>3. PICK n \in S : t = high - n
    OBVIOUS
  <2>4. \A m \in S : t <= high - m
    BY <2>2
  <2> QED
    BY <2>3, <2>4
<1> QED
  BY <1>1, <1>2 DEF MinOf, MaxOf

(* The powers of two are numbers, and grow at least like their exponents.  *)
LEMMA PowersOfTwo ==
  ASSUME NEW k \in Nat
  PROVE  2 ^ k \in Nat \ {0} /\ k <= 2 ^ k
<1> DEFINE S == 1..k
           T == SUBSET S
<1>1. IsFiniteSet(S) /\ Cardinality(S) = k
  <2>1. 1 \in Int /\ k \in Int
    OBVIOUS
  <2>2. IsFiniteSet(1..k) /\ Cardinality(1..k) = IF 1 > k THEN 0 ELSE k - 1 + 1
    BY <2>1, FS_Interval, Zenon
  <2> QED
    BY <2>2
<1>2. IsFiniteSet(T) /\ Cardinality(T) = 2 ^ k
  BY <1>1, FS_SUBSET
<1>3. Cardinality(S) <= Cardinality(T)
  <2> DEFINE f == [x \in S |-> {x}]
  <2>1. f \in Injection(S, T)
    BY DEF Injection, IsInjective
  <2> QED
    BY <1>2, <2>1, FS_Injection
<1>4. Cardinality(T) \in Nat /\ k <= Cardinality(T)
  BY <1>1, <1>2, <1>3, FS_CardinalityType
<1>5. Cardinality(T) # 0
  <2>1. {} \in T
    OBVIOUS
  <2> HIDE DEF T
  <2> QED
    BY <1>2, <2>1, FS_EmptySet
<1> QED
  BY <1>2, <1>4, <1>5
LEMMA DegreesAreSizes ==
  ASSUME NEW weights, NEW heads
  PROVE  TensorParallel(weights, heads) \in {1, 2, 4, 8}
<1> DEFINE candidates == {n \in {1, 2, 4, 8} : 100 * weights <= 55 * Hbm * n /\ heads % n = 0}
<1>1. CASE candidates = {}
  BY <1>1 DEF TensorParallel
<1>2. CASE candidates # {}
  <2>1. candidates \in SUBSET Nat /\ candidates \subseteq {1, 2, 4, 8}
    OBVIOUS
  <2>2. TensorParallel(weights, heads) = CHOOSE n \in candidates : \A m \in candidates : n <= m
    BY <1>2 DEF TensorParallel
  <2> HIDE DEF candidates
  <2>3. \E n \in candidates : \A m \in candidates : n <= m
    BY <1>2, <2>1, LeastNatural
  <2> QED
    BY <2>1, <2>2, <2>3
<1> QED
  BY <1>1, <1>2

(* A context longer than the shortest is one that fits. *)
LEMMA CappedFits ==
  ASSUME NEW limit \in Nat \ {0}, NEW tp, NEW weights
  PROVE  LET length == Capped(limit, tp, weights)
         IN length \in Nat /\ (length > 1 => Fits(length, tp, weights))
<1> DEFINE halved == [k \in 0..limit |-> limit \div 2 ^ k]
           enough == {k \in 0..limit : halved[k] <= 1 \/ Fits(halved[k], tp, weights)}
           least == CHOOSE k \in enough : \A j \in enough : k <= j
<1>1. ASSUME NEW k \in 0..limit PROVE halved[k] \in Nat
  <2>1. 2 ^ k \in Nat \ {0}
    BY PowersOfTwo
  <2> DEFINE d == 2 ^ k
  <2> HIDE DEF d
  <2>2. limit \div d \in Nat
    BY <2>1 DEF d
  <2> QED
    BY <2>2 DEF d
<1>2. limit \in enough
  <2> DEFINE d == 2 ^ limit
  <2>1. d \in Nat \ {0} /\ limit <= d
    BY PowersOfTwo
  <2> HIDE DEF d
  <2>2. limit \div d <= 1
    BY <2>1
  <2>3. halved[limit] <= 1 /\ limit \in 0..limit
    BY <2>2 DEF d
  <2> QED
    BY <2>3
<1>3. Capped(limit, tp, weights) = halved[least]
  BY DEF Capped
<1>4. \A k \in enough : k \in 0..limit /\ (halved[k] <= 1 \/ Fits(halved[k], tp, weights))
  OBVIOUS
<1> HIDE DEF halved, enough
<1>5. least \in enough
  <2>1. enough \in SUBSET Nat /\ enough # {}
    BY <1>2, <1>4
  <2>2. \E k \in enough : \A j \in enough : k <= j
    BY <2>1, LeastNatural
  <2> QED
    BY <2>2
<1> HIDE DEF least
<1> QED
  BY <1>1, <1>3, <1>4, <1>5

PlanFits ==
  plan.accepted /\ plan.length > 1 =>
    10 * plan.weights + 20 * PerToken * plan.length * plan.tp <= 9 * Hbm * plan.tp

LEMMA PlansFit ==
  ASSUME BudgetConstants, NEW weights \in Weights, NEW heads \in Heads, NEW limit \in Limits,
         Plan(weights, heads, limit)
  PROVE  PlanFits'
<1> DEFINE tp == TensorParallel(weights, heads)
           length == Capped(limit, tp, weights)
<1>1. plan'.tp = tp /\ plan'.length = length /\ plan'.weights = weights
  BY DEF Plan
<1>2. tp \in Nat /\ weights \in Nat /\ Hbm \in Nat /\ PerToken \in Nat
  BY DegreesAreSizes DEF BudgetConstants
<1>3. length \in Nat /\ (length > 1 => Fits(length, tp, weights))
  <2>1. limit \in Nat \ {0}
    BY DEF BudgetConstants
  <2> QED
    BY <2>1, CappedFits
<1> HIDE DEF tp, length
<1>4. ASSUME length > 1 PROVE 10 * weights + 20 * PerToken * length * tp <= 9 * Hbm * tp
  <2>1. 2 * PerToken * length * 10 * tp <= 9 * Hbm * tp - 10 * weights
    BY <1>3, <1>4 DEF Fits, Remainder
  <2> DEFINE p == PerToken * length
             q == p * tp
             h == 9 * Hbm * tp
  <2>2. p \in Nat /\ q \in Nat /\ h \in Nat
    BY <1>2, <1>3
  <2>3. 2 * PerToken * length * 10 * tp = 20 * q /\ 20 * PerToken * length * tp = 20 * q
    BY <1>2, <1>3
  <2>4. 20 * q <= h - 10 * weights
    BY <2>1, <2>3
  <2> HIDE DEF p, q, h
  <2>5. 10 * weights + 20 * q <= h
    BY <1>2, <2>2, <2>4
  <2> QED
    BY <2>3, <2>5 DEF h
<1> QED
  BY <1>1, <1>4 DEF PlanFits

RanksFit ==
  budget.state = "BUDGET_ACCEPTABLE" =>
    \A cards \in budget.snapshot, c \in budget.ranks :
      /\ Hbm - cards[c] >= MinFree
      /\ cards[c] - budget.logged >= MinUnattributed
      /\ \A d \in budget.ranks : cards[c] - cards[d] <= MaxSpread

BudgetInv ==
  /\ used \in [Cards -> Usages] /\ logged \in Usages
  /\ snapshot \subseteq [Cards -> Usages]
  /\ RanksFit /\ PlanFits

(* The worst rank stands for all of them. *)
LEMMA WorstRankIsEnough ==
  ASSUME BudgetConstants, NEW cards \in [Cards -> Usages], NEW ranks \in SUBSET Cards,
         ranks # {}, NEW log \in Usages, NEW other \in Nat,
         BudgetAccepted(ranks, cards, log, other), NEW c \in ranks
  PROVE  /\ Hbm - cards[c] >= MinFree
         /\ cards[c] - log >= MinUnattributed
         /\ \A d \in ranks : cards[c] - cards[d] <= MaxSpread
<1>1. Hbm \in Nat /\ log \in 0..Hbm /\ \A d \in ranks : cards[d] \in 0..Hbm
  BY DEF BudgetConstants
<1> DEFINE A == {cards[d] - log : d \in ranks}
           B == {Hbm - cards[d] : d \in ranks}
           C == {cards[d] : d \in ranks}
<1>2. A \in SUBSET (-Hbm..Hbm) /\ B \in SUBSET (-Hbm..Hbm) /\ C \in SUBSET (-Hbm..Hbm)
  BY <1>1
<1>3. A # {} /\ B # {} /\ C # {}
  OBVIOUS
<1>4. -Hbm \in Int /\ Hbm \in Int
  BY <1>1
<1>5. MinOf(A) >= MinUnattributed /\ MinOf(B) >= MinFree /\ MaxOf(C) - MinOf(C) <= MaxSpread
  BY DEF BudgetAccepted
<1>6. ASSUME NEW d \in ranks PROVE cards[d] - log \in A /\ Hbm - cards[d] \in B /\ cards[d] \in C
  OBVIOUS
<1> HIDE DEF A, B, C
<1>7. /\ MinOf(A) \in Int /\ \A m \in A : MinOf(A) <= m
      /\ MinOf(B) \in Int /\ \A m \in B : MinOf(B) <= m
      /\ MinOf(C) \in Int /\ \A m \in C : MinOf(C) <= m
      /\ MaxOf(C) \in Int /\ \A m \in C : m <= MaxOf(C)
  <2>1. MinOf(A) \in A /\ \A m \in A : MinOf(A) <= m
    BY <1>2, <1>3, <1>4, LeastAndGreatest
  <2>2. MinOf(B) \in B /\ \A m \in B : MinOf(B) <= m
    BY <1>2, <1>3, <1>4, LeastAndGreatest
  <2>3. /\ MinOf(C) \in C /\ \A m \in C : MinOf(C) <= m
        /\ MaxOf(C) \in C /\ \A m \in C : m <= MaxOf(C)
    BY <1>2, <1>3, <1>4, LeastAndGreatest
  <2>4. A \subseteq Int /\ B \subseteq Int /\ C \subseteq Int
    BY <1>2
  <2> QED
    BY <2>1, <2>2, <2>3, <2>4
<1>8. Hbm - cards[c] >= MinFree /\ cards[c] - log >= MinUnattributed
  <2>1. MinOf(A) <= cards[c] - log /\ MinOf(B) <= Hbm - cards[c]
    BY <1>6, <1>7
  <2>2. cards[c] \in Int /\ log \in Int
    BY <1>1
  <2> QED
    BY <1>1, <1>5, <1>7, <2>1, <2>2 DEF MinFree, MinUnattributed
<1>9. ASSUME NEW d \in ranks PROVE cards[c] - cards[d] <= MaxSpread
  <2>1. cards[c] <= MaxOf(C) /\ MinOf(C) <= cards[d]
    BY <1>6, <1>7
  <2>2. cards[c] \in Int /\ cards[d] \in Int
    BY <1>1
  <2> QED
    BY <1>5, <1>7, <2>1, <2>2 DEF MaxSpread
<1> QED
  BY <1>8, <1>9

LEMMA ReconcileKeepsInv ==
  ASSUME BudgetConstants, BudgetInv, NEW chosen \in SUBSET Cards, NEW other \in 0..Hbm,
         NEW enough \in BOOLEAN, Reconcile(chosen, other, enough)
  PROVE  BudgetInv'
<1>1. PICK cards \in snapshot :
        LET ranks == IF chosen = {} THEN Active(cards) ELSE chosen \cap Active(cards)
            passes == enough /\ BudgetAccepted(ranks, cards, logged, other)
        IN /\ ranks # {}
           /\ budget' = [ranks |-> ranks, snapshot |-> {cards}, logged |-> logged, other |-> other,
                         state |-> IF passes THEN "BUDGET_ACCEPTABLE" ELSE "BUDGET_REJECTED"]
           /\ snapshot' = {}
           /\ UNCHANGED <<plan, used, logged>>
  BY DEF Reconcile
<1> DEFINE ranks == IF chosen = {} THEN Active(cards) ELSE chosen \cap Active(cards)
<1>2. /\ ranks # {} /\ ranks \in SUBSET Cards
      /\ budget'.ranks = ranks /\ budget'.snapshot = {cards} /\ budget'.logged = logged
      /\ budget'.state = "BUDGET_ACCEPTABLE" => BudgetAccepted(ranks, cards, logged, other)
  <2>1. Active(cards) \subseteq Cards
    BY <1>1 DEF BudgetInv, Active
  <2> QED
    BY <1>1, <2>1
<1>3. cards \in [Cards -> Usages] /\ logged \in Usages /\ other \in Nat
  BY DEF BudgetInv, BudgetConstants
<1> HIDE DEF ranks
<1>4. RanksFit'
  <2> SUFFICES ASSUME budget'.state = "BUDGET_ACCEPTABLE", NEW c \in ranks
               PROVE  /\ Hbm - cards[c] >= MinFree
                      /\ cards[c] - logged >= MinUnattributed
                      /\ \A d \in ranks : cards[c] - cards[d] <= MaxSpread
    BY <1>2 DEF RanksFit, MinFree, MinUnattributed, MaxSpread
  <2> QED
    BY <1>2, <1>3, WorstRankIsEnough
<1> QED
  BY <1>1, <1>4 DEF BudgetInv, PlanFits

(* Each rank of an accepted budget passes every threshold on its own, and  *)
(* an accepted plan leaves room for its context, for any number of cards   *)
(* and any sizes (reconcile_deployment, cap_model_len_to_budget).          *)
THEOREM EveryRankIsJudged == BudgetSpec => []EveryRankFits
<1>1. BudgetInit => BudgetInv
  BY DEF BudgetInit, BudgetInv, RanksFit, PlanFits
<1>2. ASSUME BudgetInv, [BudgetNext]_budgetVars PROVE BudgetInv'
  <2>1. ASSUME NEW weights \in Weights, NEW heads \in Heads, NEW limit \in Limits,
               Plan(weights, heads, limit)
        PROVE  BudgetInv'
    <3>1. PlanFits'
      BY <2>1, PlansFit, BudgetConstants
    <3> QED
      BY <1>2, <2>1, <3>1 DEF BudgetInv, Plan, RanksFit
  <2>2. CASE \/ \E usage \in [Cards -> Usages], log \in Usages : Load(usage, log)
             \/ TakeSnapshot
             \/ GiveUp
             \/ UNCHANGED budgetVars
    BY <1>2, <2>2
    DEF BudgetInv, Load, TakeSnapshot, GiveUp, budgetVars, RanksFit, PlanFits
  <2>3. ASSUME NEW chosen \in {{}} \cup {{c} : c \in Cards}, NEW other \in 0..Hbm,
               NEW enough \in BOOLEAN, Reconcile(chosen, other, enough)
        PROVE  BudgetInv'
    <3>1. chosen \in SUBSET Cards
      OBVIOUS
    <3> QED
      BY <1>2, <2>3, <3>1, ReconcileKeepsInv, BudgetConstants
  <2> QED
    BY <1>2, <2>1, <2>2, <2>3 DEF BudgetNext
<1>3. BudgetInv => EveryRankFits
  BY DEF BudgetInv, EveryRankFits, RanksFit, PlanFits
<1> QED
  BY <1>1, <1>2, <1>3, PTL DEF BudgetSpec

-----------------------------------------------------------------------------
(* ModelDiscovery *)


(* What a scan and a match say is what the rules say of the installation   *)
(* and of the checkpoint that their report is of.                          *)
ScanIsOf(rep, p, reach) ==
  /\ rep.of = {p} /\ rep.archs \in Seq(Archs)
  /\ rep.verdicts = [i \in DOMAIN rep.archs |-> Verdict(p.found[rep.archs[i]], reach)]

MatchIsOf(rep, c, p) ==
  /\ rep.of = {p} /\ rep.config = {c}
  /\ rep.axes = [i \in DOMAIN Axes |-> AxisVerdict(Axes[i], c, p)]

ClassifiedAsTheyAre(rep) ==
  /\ "REGISTRATION_MISSING" \in rep.blocking =>
       \A p \in rep.scan.of : \E i \in DOMAIN rep.scan.archs :
         p.found[rep.scan.archs[i]] \cap {"oot", "vllm", "main", "pull request"} = {}
  /\ rep.class = "NO_STATIC_GAP" =>
       /\ \A p \in rep.scan.of : \A i \in DOMAIN rep.scan.archs :
            p.found[rep.scan.archs[i]] \cap {"oot", "vllm"} # {}
       /\ \A p \in rep.matched.of, c \in rep.matched.config :
            {"attention"} \cup c.demands \subseteq p.provides
  /\ "REGISTRATION_MISSING" \in rep.blocking => rep.scan.of # {}

DiscoveryInv ==
  /\ checkpoint \in Checkpoints /\ request \subseteq Checkpoints
  /\ scan.state = "SCAN_READY" => \E p, reach : ScanIsOf(scan, p, reach)
  /\ matched.state = "MATCH_READY" => \E p : \E c \in Checkpoints : MatchIsOf(matched, c, p)
  /\ ClassifiedAsTheyAre(classified)

(* A class of a report is that of one of its architectures or axes. *)
LEMMA ClassesAre ==
  ASSUME NEW verdicts, NEW n \in Nat, DOMAIN verdicts = 1..n,
         NEW axes, DOMAIN axes = 1..5
  PROVE  /\ DOMAIN Classes(verdicts, axes) = 1..(n + 5)
         /\ \A i \in 1..n : Classes(verdicts, axes)[i] = ScanClass(verdicts[i])
         /\ \A k \in (n + 1)..(n + 5) : Classes(verdicts, axes)[k] = AxisClass(axes[k - n])
<1> DEFINE first == [i \in DOMAIN verdicts |-> ScanClass(verdicts[i])]
           second == [i \in DOMAIN axes |-> AxisClass(axes[i])]
           All == {first[i] : i \in 1..n} \cup {second[i] : i \in 1..5}
<1>1. /\ first \in [1..n -> All] /\ second \in [1..5 -> All] /\ n \in Nat /\ 5 \in Nat
      /\ DOMAIN first = 1..n /\ DOMAIN second = 1..5
  OBVIOUS
<1>2. \A i \in 1..n : first[i] = ScanClass(verdicts[i])
  OBVIOUS
<1>3. \A i \in 1..5 : second[i] = AxisClass(axes[i])
  OBVIOUS
<1>4. Classes(verdicts, axes) = first \o second
  BY DEF Classes
<1> HIDE DEF first, second, All
<1>5. first \in Seq(All) /\ second \in Seq(All)
  BY <1>1, SeqDef
<1>6. Len(first) = n /\ Len(second) = 5
  BY <1>1, <1>5
<1>7. /\ DOMAIN (first \o second) = 1..(n + 5)
      /\ \A i \in 1..n : (first \o second)[i] = first[i]
      /\ \A i \in 1..5 : (first \o second)[n + i] = second[i]
  <2>1. DOMAIN (first \o second) = 1..(Len(first) + Len(second))
    BY <1>5, Concatenated
  <2>2. \A i \in 1..Len(first) : (first \o second)[i] = first[i]
    BY <1>5, Concatenated
  <2>3. \A i \in 1..Len(second) : (first \o second)[Len(first) + i] = second[i]
    BY <1>5, Concatenated
  <2> QED
    BY <1>6, <2>1, <2>2, <2>3
<1>8. ASSUME NEW k \in (n + 1)..(n + 5)
      PROVE  (first \o second)[k] = AxisClass(axes[k - n])
  <2>1. k - n \in 1..5 /\ n + (k - n) = k
    OBVIOUS
  <2>2. (first \o second)[n + (k - n)] = second[k - n]
    BY <1>7, <2>1
  <2> QED
    BY <1>3, <2>1, <2>2
<1> QED
  BY <1>2, <1>4, <1>7, <1>8

(* An architecture is absent only where it was looked for and not found,   *)
(* and one that needs nothing is implemented here.                         *)
LEMMA VerdictsAreTrue ==
  ASSUME NEW places, NEW reach
  PROVE  /\ ScanClass(Verdict(places, reach)) = "REGISTRATION_MISSING" =>
              places \cap {"oot", "vllm", "main", "pull request"} = {}
         /\ ScanClass(Verdict(places, reach)) = "none" => places \cap {"oot", "vllm"} # {}
<1> DEFINE main == Lookup("main" \in places, "main" \in reach)
           pr == Lookup("pull request" \in places, "pull request" \in reach)
<1>1. /\ main \in {"FOUND", "NOT_FOUND", "UNKNOWN"} /\ pr \in {"FOUND", "NOT_FOUND", "UNKNOWN"}
      /\ main = "NOT_FOUND" => "main" \notin places
      /\ pr = "NOT_FOUND" => "pull request" \notin places
  BY DEF Lookup
<1>2. Verdict(places, reach) \in
        {"KUNLUN_OOT", "UPSTREAM_GENERIC", "UPSTREAM_VENDORED_VARIANT"} \cup {Upstream(main, pr)}
  BY DEF Verdict
<1>3. /\ Upstream(main, pr) \in {"MAIN_ONLY", "PR_PENDING", "UNKNOWN_UPSTREAM", "ABSENT"}
      /\ Upstream(main, pr) = "ABSENT" => main = "NOT_FOUND" /\ pr = "NOT_FOUND"
  <2> HIDE DEF main, pr
  <2> QED
    BY <1>1 DEF Upstream
<1>4. Verdict(places, reach) \in {"KUNLUN_OOT", "UPSTREAM_GENERIC"} => places \cap {"oot", "vllm"} # {}
  BY <1>3 DEF Verdict
<1>5. Verdict(places, reach) = "ABSENT" =>
        Upstream(main, pr) = "ABSENT" /\ "oot" \notin places /\ "vllm" \notin places
  BY DEF Verdict
<1> HIDE DEF main, pr
<1>6. ScanClass(Verdict(places, reach)) = "REGISTRATION_MISSING" => Verdict(places, reach) = "ABSENT"
  BY <1>2, <1>3 DEF ScanClass
<1>7. ScanClass(Verdict(places, reach)) = "none" =>
        Verdict(places, reach) \in {"KUNLUN_OOT", "UPSTREAM_GENERIC"}
  BY <1>2, <1>3 DEF ScanClass
<1> QED
  BY <1>1, <1>3, <1>4, <1>5, <1>6, <1>7

(* An axis without a gap is not demanded, or it is provided. *)
LEMMA AxesAreProvided ==
  ASSUME DiscoveryConstants, NEW c \in Checkpoints, NEW p,
         \A i \in 1..5 : AxisClass(AxisVerdict(Axes[i], c, p)) = "none"
  PROVE  {"attention"} \cup c.demands \subseteq p.provides
<1>1. c.demands \subseteq {Axes[i] : i \in 2..5}
  BY DEF DiscoveryConstants, AnyCheckpoint
<1>2. /\ Axes[1] = "attention" /\ Axes[2] = "quantization" /\ Axes[3] = "moe"
      /\ Axes[4] = "multimodal" /\ Axes[5] = "speculative_decode"
  BY DEF Axes
<1>3. "attention" \in p.provides
  <2>1. AxisClass(AxisVerdict("attention", c, p)) = "none"
    BY <1>2
  <2> QED
    BY <2>1 DEF AxisVerdict, AxisClass, Module
<1>4. "quantization" \in c.demands => "quantization" \in p.provides
  <2>1. AxisClass(AxisVerdict("quantization", c, p)) = "none"
    BY <1>2
  <2> QED
    BY <2>1 DEF AxisVerdict, AxisClass
<1>5. "moe" \in c.demands => "moe" \in p.provides
  <2>1. AxisClass(AxisVerdict("moe", c, p)) = "none"
    BY <1>2
  <2> QED
    BY <2>1 DEF AxisVerdict, AxisClass, Module
<1>6. "multimodal" \notin c.demands
  <2>1. AxisClass(AxisVerdict("multimodal", c, p)) = "none"
    BY <1>2
  <2> QED
    BY <2>1 DEF AxisVerdict, AxisClass
<1>7. "speculative_decode" \notin c.demands
  <2>1. AxisClass(AxisVerdict("speculative_decode", c, p)) = "none"
    BY <1>2
  <2> QED
    BY <2>1 DEF AxisVerdict, AxisClass
<1> QED
  BY <1>1, <1>2, <1>3, <1>4, <1>5, <1>6, <1>7

LEMMA ClassifyKeepsInv ==
  ASSUME DiscoveryConstants, DiscoveryInv, Classify
  PROVE  DiscoveryInv'
<1>1. PICK p, reach : ScanIsOf(scan, p, reach)
  BY DEF DiscoveryInv, Classify
<1>2. PICK q, c : c \in Checkpoints /\ MatchIsOf(matched, c, q)
  BY DEF DiscoveryInv, Classify
<1> DEFINE classes == Classes(scan.verdicts, matched.axes)
           n == Len(scan.archs)
<1>3. /\ classified'.class = Classification(classes)
      /\ classified'.blocking = {classes[i] : i \in Blocking(classes)}
      /\ classified'.scan = scan /\ classified'.matched = matched
      /\ UNCHANGED <<pod, checkpoint, request, scan, matched>>
  BY DEF Classify
<1>4. /\ n \in Nat /\ DOMAIN scan.archs = 1..n /\ DOMAIN scan.verdicts = 1..n
      /\ \A i \in 1..n : scan.verdicts[i] = Verdict(p.found[scan.archs[i]], reach)
  BY <1>1 DEF ScanIsOf
<1>5. /\ DOMAIN matched.axes = 1..5
      /\ \A i \in 1..5 : matched.axes[i] = AxisVerdict(Axes[i], c, q)
  <2>1. DOMAIN Axes = 1..5
    BY DEF Axes
  <2> QED
    BY <1>2, <2>1 DEF MatchIsOf
<1>6. /\ DOMAIN classes = 1..(n + 5)
      /\ \A i \in 1..n : classes[i] = ScanClass(Verdict(p.found[scan.archs[i]], reach))
      /\ \A i \in 1..5 : classes[n + i] = AxisClass(AxisVerdict(Axes[i], c, q))
  <2> DEFINE V == scan.verdicts
             A == matched.axes
  <2> HIDE DEF n
  <2>1. n \in Nat /\ DOMAIN V = 1..n /\ DOMAIN A = 1..5
    BY <1>4, <1>5
  <2> HIDE DEF V, A
  <2>2. DOMAIN Classes(V, A) = 1..(n + 5)
    BY <2>1, ClassesAre
  <2>3. \A i \in 1..n : Classes(V, A)[i] = ScanClass(V[i])
    BY <2>1, ClassesAre
  <2>4. \A k \in (n + 1)..(n + 5) : Classes(V, A)[k] = AxisClass(A[k - n])
    BY <2>1, ClassesAre
  <2>5. classes = Classes(V, A)
    BY DEF V, A
  <2> HIDE DEF classes
  <2>6. ASSUME NEW i \in 1..n PROVE classes[i] = ScanClass(Verdict(p.found[scan.archs[i]], reach))
    BY <1>4, <2>3, <2>5 DEF V
  <2>7. ASSUME NEW i \in 1..5 PROVE classes[n + i] = AxisClass(AxisVerdict(Axes[i], c, q))
    <3>1. n + i \in (n + 1)..(n + 5) /\ (n + i) - n = i
      BY <2>1
    <3>2. Classes(V, A)[n + i] = AxisClass(A[(n + i) - n])
      BY <2>4, <3>1
    <3> QED
      BY <1>5, <2>5, <3>1, <3>2 DEF A
  <2> QED
    BY <2>2, <2>5, <2>6, <2>7
<1> HIDE DEF n, classes
<1>7. ASSUME "REGISTRATION_MISSING" \in classified'.blocking
      PROVE  \E k \in DOMAIN scan.archs :
               p.found[scan.archs[k]] \cap {"oot", "vllm", "main", "pull request"} = {}
  <2>1. PICK i \in 1..(n + 5) : classes[i] = "REGISTRATION_MISSING"
    BY <1>3, <1>6, <1>7 DEF Blocking
  <2>2. CASE i <= n
    <3>1. i \in 1..n
      BY <1>4, <2>1, <2>2
    <3> DEFINE places == p.found[scan.archs[i]]
    <3>2. ScanClass(Verdict(places, reach)) = "REGISTRATION_MISSING"
      BY <1>6, <2>1, <3>1
    <3> HIDE DEF places
    <3>3. places \cap {"oot", "vllm", "main", "pull request"} = {}
      BY <3>2, VerdictsAreTrue
    <3> QED
      <4>1. i \in DOMAIN scan.archs
        BY <1>4, <3>1
      <4>2. p.found[scan.archs[i]] \cap {"oot", "vllm", "main", "pull request"} = {}
        BY <3>3 DEF places
      <4> QED
        BY <4>1, <4>2, Zenon
  <2>3. CASE i > n
    <3>1. i - n \in 1..5 /\ n + (i - n) = i
      BY <1>4, <2>1, <2>3
    <3>2. classes[i] = AxisClass(AxisVerdict(Axes[i - n], c, q))
      BY <1>6, <3>1
    <3>3. AxisClass(AxisVerdict(Axes[i - n], c, q)) # "REGISTRATION_MISSING"
      BY DEF AxisClass
    <3> QED
      BY <2>1, <3>2, <3>3
  <2>4. i <= n \/ i > n
    BY <1>4, <2>1
  <2> QED
    BY <2>2, <2>3, <2>4
<1>8. ASSUME classified'.class = "NO_STATIC_GAP"
      PROVE  /\ \A i \in DOMAIN scan.archs : p.found[scan.archs[i]] \cap {"oot", "vllm"} # {}
             /\ {"attention"} \cup c.demands \subseteq q.provides
  <2>1. \A i \in DOMAIN classes : classes[i] # "NO_STATIC_GAP"
    <3>1. ASSUME NEW i \in 1..(n + 5) PROVE classes[i] # "NO_STATIC_GAP"
      <4>1. CASE i <= n
        <5>1. i \in 1..n
          BY <1>4, <4>1
        <5> QED
          BY <1>6, <5>1 DEF ScanClass
      <4>2. CASE i > n
        <5>1. i - n \in 1..5 /\ n + (i - n) = i
          BY <1>4, <4>2
        <5>2. classes[i] = AxisClass(AxisVerdict(Axes[i - n], c, q))
          BY <1>6, <5>1
        <5> QED
          BY <5>2 DEF AxisClass
      <4> QED
        BY <1>4, <4>1, <4>2
    <3> QED
      BY <1>6, <3>1
  <2>2. Gaps(classes) = {}
    <3>1. SUFFICES ASSUME Gaps(classes) # {} PROVE FALSE
      OBVIOUS
    <3> DEFINE S == IF Blocking(classes) # {} THEN Blocking(classes) ELSE Gaps(classes)
    <3>2. S \in SUBSET Nat /\ S # {} /\ S \subseteq DOMAIN classes
      BY <1>4, <1>6, <3>1 DEF Gaps, Blocking
    <3> HIDE DEF S
    <3>3. First(S) \in S
      <4>1. \E i \in S : \A j \in S : i <= j
        BY <3>2, LeastNatural
      <4> QED
        BY <4>1 DEF First
    <3>4. classified'.class = classes[First(S)]
      BY <1>3, <3>1 DEF Classification, S
    <3> QED
      BY <1>8, <2>1, <3>2, <3>3, <3>4
  <2>3. \A i \in 1..(n + 5) : classes[i] = "none"
    BY <1>6, <2>2 DEF Gaps
  <2>4. \A i \in 1..n : ScanClass(Verdict(p.found[scan.archs[i]], reach)) = "none"
    BY <1>4, <1>6, <2>3
  <2>5. \A i \in 1..5 : AxisClass(AxisVerdict(Axes[i], c, q)) = "none"
    BY <1>4, <1>6, <2>3
  <2>6. ASSUME NEW i \in DOMAIN scan.archs
        PROVE  p.found[scan.archs[i]] \cap {"oot", "vllm"} # {}
    <3> DEFINE places == p.found[scan.archs[i]]
    <3>1. ScanClass(Verdict(places, reach)) = "none"
      BY <1>4, <2>4
    <3> HIDE DEF places
    <3>2. places \cap {"oot", "vllm"} # {}
      BY <3>1, VerdictsAreTrue
    <3> QED
      BY <3>2 DEF places
  <2>7. {"attention"} \cup c.demands \subseteq q.provides
    BY <1>2, <2>5, AxesAreProvided
  <2> QED
    BY <2>6, <2>7
<1>9. scan.of = {p} /\ matched.of = {q} /\ matched.config = {c}
  BY <1>1, <1>2 DEF ScanIsOf, MatchIsOf
<1>10. ClassifiedAsTheyAre(classified')
  BY <1>3, <1>7, <1>8, <1>9 DEF ClassifiedAsTheyAre
<1> QED
  BY <1>3, <1>10 DEF DiscoveryInv

LEMMA OneOrTwo ==
  ASSUME NEW S, NEW s \in UNION {[1..n -> S] : n \in 1..2}
  PROVE  s \in Seq(S)
<1>1. PICK n \in 1..2 : s \in [1..n -> S]
  OBVIOUS
<1>2. n \in Nat
  OBVIOUS
<1>3. s \in UNION {[1..m -> S] : m \in Nat}
  BY <1>1, <1>2, Zenon
<1> QED
  BY <1>3, SeqDef, Zenon

LEMMA ReportsKeepInv ==
  ASSUME DiscoveryConstants, DiscoveryInv,
         \/ \E c \in request, usable \in BOOLEAN, reach \in SUBSET {"source", "main", "pull request"} :
              ScanSupport(c, usable, reach)
         \/ \E usable \in BOOLEAN : Match(usable)
  PROVE  DiscoveryInv'
<1>1. ASSUME NEW c \in request, NEW usable \in BOOLEAN,
             NEW reach \in SUBSET {"source", "main", "pull request"}, ScanSupport(c, usable, reach)
      PROVE  DiscoveryInv'
  <2>1. c.archs \in Seq(Archs)
    <3>1. c \in AnyCheckpoint
      BY DEF DiscoveryInv, DiscoveryConstants
    <3>2. c.archs \in UNION {[1..n -> Archs] : n \in 1..2}
      BY <3>1 DEF AnyCheckpoint
    <3> QED
      BY <3>2, OneOrTwo
  <2>2. /\ UNCHANGED <<checkpoint, request, matched, classified>>
        /\ scan'.of = {pod} /\ scan'.archs = c.archs
        /\ scan'.state = "SCAN_READY" =>
             scan'.verdicts = [i \in DOMAIN c.archs |-> Verdict(pod.found[c.archs[i]], reach)]
    BY <1>1 DEF ScanSupport
  <2>3. scan'.state = "SCAN_READY" => ScanIsOf(scan', pod, reach)
    BY <2>1, <2>2 DEF ScanIsOf
  <2> QED
    BY <2>2, <2>3 DEF DiscoveryInv
<1>2. ASSUME NEW usable \in BOOLEAN, Match(usable)
      PROVE  DiscoveryInv'
  <2>1. matched'.state = "MATCH_READY" => MatchIsOf(matched', checkpoint, pod)
    BY <1>2 DEF Match, MatchIsOf
  <2>2. UNCHANGED <<checkpoint, request, scan, classified>>
    BY <1>2 DEF Match
  <2> QED
    BY <2>1, <2>2 DEF DiscoveryInv
<1> QED
  BY <1>1, <1>2

(* The next action rests on what was true of the installations that the    *)
(* reports are of, for any architectures, installations and checkpoints,   *)
(* whatever changed between the tools (classify, upstream_state).          *)
THEOREM ClassifiedTruly == DiscoverySpec => []StaticVerdictsAreTrue
<1>1. DiscoveryInit => DiscoveryInv
  <2> SUFFICES ASSUME DiscoveryInit PROVE DiscoveryInv
    OBVIOUS
  <2>1. /\ scan.state = "none" /\ matched.state = "none"
        /\ classified.class = "none" /\ classified.blocking = {}
    BY DEF DiscoveryInit, NoScan, NoMatch, NoClass
  <2> QED
    BY <2>1 DEF DiscoveryInit, DiscoveryInv, ClassifiedAsTheyAre
<1>2. ASSUME DiscoveryInv, [DiscoveryNext]_discoveryVars PROVE DiscoveryInv'
  <2>1. CASE \E p \in Installations : Reinstall(p)
    BY <1>2, <2>1 DEF Reinstall, DiscoveryInv
  <2>2. CASE \E c \in Checkpoints : Replace(c)
    BY <1>2, <2>2 DEF Replace, DiscoveryInv
  <2>3. ASSUME NEW tries, NEW fate \in PodFates, NEW readable \in BOOLEAN, Intake(tries, fate, readable)
        PROVE  DiscoveryInv'
    <3>1. /\ request' \in {request, {checkpoint}}
          /\ UNCHANGED <<pod, checkpoint, scan, matched, classified>>
      BY <2>3 DEF Intake
    <3> QED
      BY <1>2, <3>1 DEF DiscoveryInv
  <2>4. CASE \/ \E c \in request, usable \in BOOLEAN,
                   reach \in SUBSET {"source", "main", "pull request"} : ScanSupport(c, usable, reach)
             \/ \E usable \in BOOLEAN : Match(usable)
    BY <1>2, <2>4, ReportsKeepInv, DiscoveryConstants
  <2>5. CASE Classify
    BY <1>2, <2>5, ClassifyKeepsInv, DiscoveryConstants
  <2>6. CASE UNCHANGED discoveryVars
    BY <1>2, <2>6 DEF discoveryVars, DiscoveryInv
  <2> QED
    BY <1>2, <2>1, <2>2, <2>3, <2>4, <2>5, <2>6 DEF DiscoveryNext
<1>3. DiscoveryInv => StaticVerdictsAreTrue
  BY DEF DiscoveryInv, ClassifiedAsTheyAre, StaticVerdictsAreTrue
<1> QED
  BY <1>1, <1>2, <1>3, PTL DEF DiscoverySpec

=============================================================================
