-------------------------- MODULE PodProofs_proofs --------------------------
(***************************************************************************)
(* Proofs about PodProofs for every bound on launches, executors, lost     *)
(* commands and kills: what executors do to the files, the services and    *)
(* the logs of the pod they share.  Whatever a proof does on its way, it   *)
(* either moves on within its executor or ends (ProofMoves); the rest is   *)
(* one invariant for each of the three.                                    *)
(***************************************************************************)
EXTENDS PodProofs, FiniteSetTheorems, TLAPS

-----------------------------------------------------------------------------
(* The records the actions update *)

ShapeOK ==
  /\ DOMAIN proof = {"step", "phase", "attached", "path", "health", "chat", "served",
                     "loaded", "log"}
  /\ DOMAIN executor = {"kind", "step", "server", "captured", "replay", "spoiled"}
  /\ DOMAIN status = {"proof", "triage", "patch", "pod"} /\ status.pod \in BOOLEAN
  /\ DOMAIN count = {"launches", "runs", "lost", "kills"}
  /\ count.launches \in Nat /\ count.runs \in Nat /\ count.lost \in Nat /\ count.kills \in Nat

(* What a proof is when it ends, and what its executor is then. *)
Ended(state) ==
  /\ proof' = NoProof
  /\ DOMAIN executor' = DOMAIN executor /\ DOMAIN status' = DOMAIN status
  /\ status'.pod \in BOOLEAN
  /\ status'.triage = status.triage /\ status'.patch = status.patch
  /\ IF executor.kind = "proof"
     THEN /\ executor' = Resting
          /\ status'.pod <=> status.pod \/ state = "ENVIRONMENT_READY"
     ELSE /\ executor'.kind = executor.kind /\ executor'.step = "judge"
          /\ executor'.spoiled = executor.spoiled
          /\ status' = status

LEMMA EndsEffect ==
  ASSUME ShapeOK, NEW state, NEW log, Ends(state, log)
  PROVE  Ended(state)
<1>1. CASE executor.kind = "proof"
  <2>1. /\ executor' = Resting /\ proof' = NoProof
        /\ status' = [status EXCEPT !.proof = Result(state, log),
                                    !.pod = @ \/ state = "ENVIRONMENT_READY"]
    BY <1>1 DEF Ends
  <2> DEFINE result == Result(state, log)
  <2>2. status' = [status EXCEPT !.proof = result, !.pod = @ \/ state = "ENVIRONMENT_READY"]
    BY <2>1
  <2> HIDE DEF result
  <2>3. QED
    BY <1>1, <2>1, <2>2 DEF ShapeOK, Ended, Resting
<1>2. CASE executor.kind # "proof"
  <2> DEFINE result == Result(state, log)
  <2>1. /\ proof' = NoProof /\ status' = status
        /\ executor' = [executor EXCEPT !.server = result, !.step = "judge"]
    BY <1>2 DEF Ends
  <2> HIDE DEF result
  <2>2. QED
    BY <1>2, <2>1 DEF ShapeOK, Ended
<1>3. QED
  BY <1>1, <1>2

LEMMA FailsEffect ==
  ASSUME ShapeOK, NEW state, Fails(state)
  PROVE  Ended(state)
  BY EndsEffect DEF Fails

(* A proof moves on: its phase and its pod stay what they were. *)
Moved(steps) ==
  /\ executor' = executor /\ status' = status
  /\ DOMAIN proof' = DOMAIN proof
  /\ proof'.phase = proof.phase /\ proof'.attached = proof.attached
  /\ proof'.step \in steps

LEMMA GotoMoves ==
  ASSUME ShapeOK, NEW step, Goto(step), Quiet
  PROVE  Moved({step})
  BY DEF ShapeOK, Goto, Quiet, Moved

-----------------------------------------------------------------------------
(* Steps of a proof *)

Steps == {"attach", "installed?", "install", "identity", "model", "clear", "probe",
          "toy", "launch", "health", "chat", "backend", "free"}

(* What a proof goes through that an executor starts in the proven pod. *)
ChildSteps == {"attach", "probe", "toy", "launch", "health", "chat", "backend"}

ProofMoves ==
  \/ \E state : Ended(state)
  \/ /\ Moved(Steps)
     /\ proof.phase = "service" /\ proof.attached /\ proof.step \in ChildSteps
          => proof'.step \in ChildSteps

LEMMA CleanupMoves ==
  ASSUME ShapeOK, NEW step, NEW reached, Cleanup(step, reached)
  PROVE  Ended("NEEDS_HUMAN") \/ Moved({step})
  BY FailsEffect, GotoMoves DEF Cleanup

LEMMA MovingOn ==
  ASSUME ShapeOK, ProofStep \/ StepTimesOut
  PROVE  ProofMoves
<1> USE DEF ProofMoves, Moved, Steps, ChildSteps, At
<1>1. CASE AttachPod
  BY <1>1, FailsEffect, GotoMoves DEF AttachPod, FoundPod
<1>2. CASE CreatePod
  BY <1>2, FailsEffect, GotoMoves DEF CreatePod, FoundPod
<1>3. CASE RuntimeInstalled
  BY <1>3, GotoMoves DEF RuntimeInstalled, AfterInstall
<1>4. CASE InstallRuntime
  BY <1>4, FailsEffect, GotoMoves DEF InstallRuntime, AfterInstall
<1>5. CASE VerifyImport
  BY <1>5, FailsEffect, GotoMoves DEF VerifyImport
<1>6. CASE DiscoverBaseModel
  BY <1>6, FailsEffect, GotoMoves DEF DiscoverBaseModel
<1>7. CASE ClearUnlessHealthy
  BY <1>7, CleanupMoves, GotoMoves DEF ClearUnlessHealthy
<1>8. CASE StartServer
  BY <1>8, CleanupMoves, GotoMoves DEF StartServer
<1>9. CASE ToyBringup
  BY <1>9, FailsEffect, GotoMoves DEF ToyBringup
<1>10. CASE Launch
  BY <1>10, FailsEffect, GotoMoves DEF Launch
<1>11. CASE PollHealth
  BY <1>11, FailsEffect DEF PollHealth, DeadlinePasses, Quiet, ShapeOK
<1>12. CASE ChatSmoke
  BY <1>12, FailsEffect DEF ChatSmoke, Quiet, ShapeOK
<1>13. CASE VerifyBackend
  BY <1>13, EndsEffect DEF VerifyBackend, Quiet, ShapeOK
<1>14. CASE FreeCards
  BY <1>14, FailsEffect, EndsEffect DEF FreeCards
<1>15. CASE StepTimesOut
  BY <1>15, FailsEffect DEF StepTimesOut
<1>16. QED
  BY <1>1, <1>2, <1>3, <1>4, <1>5, <1>6, <1>7, <1>8, <1>9, <1>10, <1>11, <1>12, <1>13,
     <1>14, <1>15 DEF ProofStep

-----------------------------------------------------------------------------
(* Executors and their proofs *)

Parents == {"triage", "patch"}

ExecutorInv ==
  /\ proof.step \in Steps \cup {"none"}
  /\ proof.step # "none" => executor.kind \in Parents \cup {"proof"}
  /\ proof.step # "none" /\ executor.kind \in Parents =>
       /\ proof.step \in ChildSteps /\ executor.step = "rerun"
       /\ proof.phase = "service" /\ proof.attached

LEMMA ShapeInit == Init => ShapeOK
  BY DEF Init, ShapeOK, NoProof, Resting, NoResult

LEMMA ProofShape ==
  ASSUME ShapeOK, ProofStep \/ StepTimesOut
  PROVE  ShapeOK'
<1> DEFINE same == /\ DOMAIN proof' = DOMAIN proof
                   /\ DOMAIN executor' = DOMAIN executor
                   /\ DOMAIN status' = DOMAIN status /\ status'.pod \in BOOLEAN
<1>1. same
  <2>1. ASSUME NEW state, Ended(state)
        PROVE  same
    BY <2>1 DEF Ended, ShapeOK, NoProof
  <2>2. QED
    BY <2>1, MovingOn DEF ProofMoves, Moved, ShapeOK
<1>2. \/ count' = count
      \/ count' = [count EXCEPT !.lost = @ + 1]
      \/ count' = [count EXCEPT !.launches = count.launches + 1]
  BY DEF ProofStep, StepTimesOut, AttachPod, CreatePod, RuntimeInstalled, InstallRuntime,
         VerifyImport, DiscoverBaseModel, ClearUnlessHealthy, StartServer, ToyBringup,
         Launch, PollHealth, ChatSmoke, VerifyBackend, FreeCards, Reaches
<1>3. QED
  BY <1>1, <1>2 DEF ShapeOK

LEMMA ReachesShape ==
  ASSUME ShapeOK, NEW ok, Reaches(ok)
  PROVE  /\ DOMAIN count' = DOMAIN count
         /\ count'.launches \in Nat /\ count'.runs \in Nat
         /\ count'.lost \in Nat /\ count'.kills \in Nat
         /\ count'.launches = count.launches
         /\ ok => count' = count
         /\ ~ok => count'.lost = count.lost + 1
  BY DEF ShapeOK, Reaches

LEMMA HeardShape ==
  ASSUME ShapeOK, NEW outcome \in Outcomes, Heard(outcome)
  PROVE  /\ DOMAIN count' = DOMAIN count
         /\ count'.launches \in Nat /\ count'.runs \in Nat
         /\ count'.lost \in Nat /\ count'.kills \in Nat
         /\ count'.launches = count.launches /\ count'.kills = count.kills
         /\ outcome.done \in BOOLEAN /\ outcome.answered \in BOOLEAN
         /\ count'.lost = count.lost \/ count'.lost # 0
         /\ ~(outcome.done /\ outcome.answered) => count'.lost # count.lost
  BY DEF ShapeOK, Outcomes, Heard, Reaches

(* What is not a step of a proof, and how it leaves proof and executor. *)
LEMMA OthersShape ==
  ASSUME ShapeOK, Next, ~(ProofStep \/ StepTimesOut)
  PROVE  ShapeOK'
<1> USE DEF ShapeOK
<1>1. ASSUME NEW phase, RunProof(phase) PROVE ShapeOK'
  BY <1>1 DEF RunProof, Started, NoProof, Resting
<1>2. CASE RunTriage
  <2>1. /\ count' = [count EXCEPT !.runs = @ + 1]
        /\ executor' = [Resting EXCEPT !.kind = "triage", !.step = "edit"]
        /\ proof' = proof /\ status' = status
    BY <1>2 DEF RunTriage
  <2>2. QED
    BY <2>1 DEF Resting
<1>3. CASE RunPatch
  BY <1>3 DEF RunPatch, Resting
<1>4. CASE Instrument
  BY <1>4, HeardShape DEF Instrument, Rerun, Started, NoProof
<1>5. CASE Replay
  BY <1>5, ReachesShape DEF Replay
<1>6. CASE RestoreAndReport
  <2> DEFINE verdict == Verdict
  <2>1. \E outcome \in Outcomes : Heard(outcome)
    BY <1>6 DEF RestoreAndReport
  <2>2. /\ status' = [status EXCEPT !.triage = verdict] /\ executor' = Resting
        /\ proof' = proof
    BY <1>6 DEF RestoreAndReport
  <2> HIDE DEF verdict
  <2>3. QED
    BY <2>1, <2>2, HeardShape DEF Resting
<1>7. CASE ApplyPatch
  BY <1>7, HeardShape DEF ApplyPatch, Rerun, Started, NoProof, Resting
<1>8. CASE JudgePatch
  BY <1>8 DEF JudgePatch, Resting
<1>9. CASE RemovePatch
  BY <1>9, HeardShape DEF RemovePatch, Resting
<1>10. ASSUME NEW s, ComesUp(s) \/ Dies(s) PROVE ShapeOK'
  BY <1>10 DEF ComesUp, Dies
<1>11. CASE Kill
  BY <1>11 DEF Kill, NoProof, Resting
<1>12. CASE ChildDies
  BY <1>12 DEF ChildDies, NoProof
<1>13. QED
  BY <1>1, <1>2, <1>3, <1>4, <1>5, <1>6, <1>7, <1>8, <1>9, <1>10, <1>11, <1>12
     DEF Next, ExecutorStep

LEMMA NextShape == ShapeOK /\ [Next]_vars => ShapeOK'
<1>1. ShapeOK /\ UNCHANGED vars => ShapeOK'
  BY DEF ShapeOK, vars
<1>2. QED
  BY <1>1, OthersShape, ProofShape

LEMMA ExecutorInit == Init => ExecutorInv
  BY DEF Init, ExecutorInv, NoProof

LEMMA NextExecutor == ShapeOK /\ ExecutorInv /\ [Next]_vars => ExecutorInv'
<1> SUFFICES ASSUME ShapeOK, ExecutorInv, [Next]_vars PROVE ExecutorInv'
  OBVIOUS
<1> USE DEF ShapeOK, ExecutorInv, Parents
<1>1. CASE ProofStep \/ StepTimesOut
  <2>1. ASSUME NEW state, Ended(state) PROVE ExecutorInv'
    BY <2>1 DEF Ended, NoProof
  <2>2. CASE proof.step = "none"
    BY <1>1, <2>2 DEF ProofStep, StepTimesOut, AttachPod, CreatePod, RuntimeInstalled,
         InstallRuntime, VerifyImport, DiscoverBaseModel, ClearUnlessHealthy, StartServer,
         ToyBringup, Launch, PollHealth, ChatSmoke, VerifyBackend, FreeCards, At
  <2>3. QED
    BY <1>1, <2>1, <2>2, MovingOn DEF ProofMoves, Moved
<1>2. ASSUME NEW phase, RunProof(phase) PROVE ExecutorInv'
  BY <1>2 DEF RunProof, Started, NoProof, Resting, Steps
<1>3. CASE RunTriage \/ RunPatch
  BY <1>3 DEF RunTriage, RunPatch, Resting
<1>4. CASE Instrument \/ ApplyPatch
  BY <1>4 DEF Instrument, ApplyPatch, Doing, Rerun, Started, NoProof, Resting, Steps, ChildSteps
<1>5. CASE Replay \/ RestoreAndReport \/ JudgePatch \/ RemovePatch
  BY <1>5 DEF Replay, RestoreAndReport, JudgePatch, RemovePatch, Doing, Resting
<1>6. ASSUME NEW s, ComesUp(s) \/ Dies(s) PROVE ExecutorInv'
  BY <1>6 DEF ComesUp, Dies
<1>7. CASE Kill \/ ChildDies
  BY <1>7 DEF Kill, ChildDies, NoProof
<1>8. CASE UNCHANGED vars
  BY <1>8 DEF vars
<1>9. QED
  BY <1>1, <1>2, <1>3, <1>4, <1>5, <1>6, <1>7, <1>8 DEF Next, ExecutorStep

-----------------------------------------------------------------------------
(* Installed files *)

(* A copy is one of the installed text, and without a copy nothing is edited. *)
FilesKept(now) ==
  /\ DOMAIN now = Files
  /\ \A f \in Files : /\ DOMAIN now[f] = {"text", "backup"}
                      /\ now[f].backup \in {"none", "installed"}
                      /\ now[f].backup = "none" => now[f].text = "installed"

PatchInv ==
  executor.kind = "patch" /\ executor.step \in {"rerun", "judge"} /\ ~executor.spoiled =>
    files["plugin"].text = "edited"

LEMMA EditKeeps ==
  ASSUME FilesKept(files), NEW f \in Files, Edit(f)
  PROVE  FilesKept(files') /\ files'[f].text = "edited"
  BY DEF FilesKept, Edit, BackedUp

(* With the copy back in place, or without one, the text is the installed one. *)
LEMMA RestoreKeeps ==
  ASSUME FilesKept(files), NEW f \in Files, Restore(f)
  PROVE  FilesKept(files') /\ files'[f].text = "installed"
  BY DEF FilesKept, Restore

(* A proof touches the files only when it installs the runtime. *)
LEMMA ProofFiles ==
  ASSUME ProofStep \/ StepTimesOut
  PROVE  \/ files' = files
         \/ /\ At("install")
            /\ files' = [f \in Files |-> [files[f] EXCEPT !.text = "installed"]]
  BY DEF ProofStep, StepTimesOut, AttachPod, CreatePod, RuntimeInstalled, InstallRuntime,
         VerifyImport, DiscoverBaseModel, ClearUnlessHealthy, StartServer, ToyBringup,
         Launch, PollHealth, ChatSmoke, VerifyBackend, FreeCards

EditsInv == ShapeOK /\ ExecutorInv /\ FilesKept(files) /\ PatchInv

LEMMA EditsInit == Init => EditsInv
  BY ShapeInit, ExecutorInit
     DEF Init, EditsInv, FilesKept, PatchInv, Files, Resting

LEMMA NextEdits == EditsInv /\ [Next]_vars => EditsInv'
<1> SUFFICES ASSUME EditsInv, [Next]_vars PROVE FilesKept(files') /\ PatchInv'
  BY NextShape, NextExecutor DEF EditsInv
<1> USE DEF EditsInv
<1>1. CASE ProofStep \/ StepTimesOut
  <2>1. FilesKept(files')
    BY <1>1, ProofFiles DEF FilesKept
  <2>2. CASE executor.kind = "patch" /\ proof.step # "none"
    <3>1. files' = files /\ executor.step = "rerun"
      BY <1>1, <2>2, ProofFiles DEF ExecutorInv, Parents, ChildSteps, At
    <3>2. executor'.kind = executor.kind /\ executor'.spoiled = executor.spoiled
      BY <1>1, <2>2, MovingOn DEF ProofMoves, Moved, Ended
    <3>3. QED
      BY <2>1, <2>2, <3>1, <3>2 DEF PatchInv
  <2>3. CASE executor.kind # "patch"
    <3>1. executor'.kind # "patch"
      BY <1>1, <2>3, MovingOn DEF ProofMoves, Moved, Ended, Resting
    <3>2. QED
      BY <2>1, <3>1 DEF PatchInv
  <2>4. CASE proof.step = "none"
    BY <1>1, <2>4 DEF ProofStep, StepTimesOut, AttachPod, CreatePod, RuntimeInstalled,
         InstallRuntime, VerifyImport, DiscoverBaseModel, ClearUnlessHealthy, StartServer,
         ToyBringup, Launch, PollHealth, ChatSmoke, VerifyBackend, FreeCards, At
  <2>5. QED
    BY <2>1, <2>2, <2>3, <2>4
<1>2. ASSUME NEW phase, RunProof(phase) PROVE FilesKept(files') /\ PatchInv'
  BY <1>2 DEF RunProof, Resting, PatchInv
<1>3. CASE RunTriage \/ RunPatch
  BY <1>3 DEF RunTriage, RunPatch, Resting, PatchInv
<1>4. CASE Instrument
  BY <1>4, EditKeeps DEF Instrument, Doing, PatchInv, ShapeOK, Files
<1>5. CASE ApplyPatch
  <2>1. PICK outcome \in Outcomes :
          /\ IF outcome.done THEN Edit("plugin") ELSE UNCHANGED files
          /\ \/ executor' = [executor EXCEPT !.step = "rerun", !.spoiled = ~outcome.done]
             \/ executor' = Resting
    BY <1>5 DEF ApplyPatch
  <2>2. FilesKept(files') /\ (outcome.done => files'["plugin"].text = "edited")
    BY <2>1, EditKeeps DEF Files
  <2>3. executor' = Resting => executor'.kind # "patch"
    BY DEF Resting
  <2>4. executor'.spoiled = ~outcome.done \/ executor'.kind # "patch"
    BY <2>1, <2>3 DEF ShapeOK
  <2>5. QED
    BY <2>2, <2>4 DEF PatchInv
<1>6. CASE Replay
  BY <1>6 DEF Replay, Doing, PatchInv, ShapeOK
<1>7. CASE RestoreAndReport
  BY <1>7, RestoreKeeps DEF RestoreAndReport, PatchInv, Resting, Files
<1>8. CASE JudgePatch
  BY <1>8 DEF JudgePatch, PatchInv, Resting, Doing, ShapeOK
<1>9. CASE RemovePatch
  BY <1>9, RestoreKeeps DEF RemovePatch, PatchInv, Resting, Files
<1>10. ASSUME NEW s, ComesUp(s) \/ Dies(s) PROVE FilesKept(files') /\ PatchInv'
  BY <1>10 DEF ComesUp, Dies, PatchInv
<1>11. CASE Kill \/ ChildDies
  BY <1>11 DEF Kill, ChildDies, PatchInv, Resting, ShapeOK
<1>12. CASE UNCHANGED vars
  BY <1>12 DEF vars, PatchInv
<1>13. QED
  BY <1>1, <1>2, <1>3, <1>4, <1>5, <1>6, <1>7, <1>8, <1>9, <1>10, <1>11, <1>12
     DEF Next, ExecutorStep

(* What an executor that ends has made of the file it edits. *)
EditFollows ==
  executor.kind \in {"triage", "patch"} /\ executor' = Resting
    /\ count'.kills = count.kills
  => LET edited == files'[FileOf(executor.kind)].text = "edited"
     IN  /\ count'.lost = count.lost =>
              IF executor.kind = "triage" \/ status'.patch = "PATCH_REJECTED"
              THEN ~edited
              ELSE edited \/ executor.spoiled
         /\ edited => files'[FileOf(executor.kind)].backup = "installed"

LEMMA ResultsAreSettled ==
  ASSUME EditsInv, [Next]_vars
  PROVE  EditFollows
<1> SUFFICES ASSUME executor.kind \in Parents, executor' = Resting,
                    count'.kills = count.kills
             PROVE  LET edited == files'[FileOf(executor.kind)].text = "edited"
                    IN  /\ count'.lost = count.lost =>
                             IF executor.kind = "triage" \/ status'.patch = "PATCH_REJECTED"
                             THEN ~edited
                             ELSE edited \/ executor.spoiled
                        /\ edited => files'[FileOf(executor.kind)].backup = "installed"
  BY DEF EditFollows, Parents
<1> USE DEF EditsInv
<1> DEFINE f == FileOf(executor.kind)
           edited == files'[f].text = "edited"
<1>1. edited => files'[f].backup = "installed"
  BY NextEdits DEF FilesKept, FileOf, Files
<1>2. ASSUME NEW outcome \in Outcomes, Heard(outcome), count'.lost = count.lost,
             IF outcome.done THEN Restore(f) ELSE UNCHANGED files
      PROVE  ~edited
  BY <1>2, HeardShape, RestoreKeeps DEF FileOf, Files
<1>3. ASSUME RestoreAndReport, count'.lost = count.lost
      PROVE  ~edited /\ executor.kind = "triage"
  <2>1. f = "attention" /\ executor.kind = "triage"
    BY <1>3 DEF RestoreAndReport, Doing, FileOf
  <2>2. QED
    BY <1>2, <1>3, <2>1 DEF RestoreAndReport
<1>4. ASSUME RemovePatch, count'.lost = count.lost
      PROVE  ~edited /\ status'.patch = "PATCH_REJECTED"
  <2>1. f = "plugin" /\ status'.patch = "PATCH_REJECTED"
    BY <1>4 DEF RemovePatch, Doing, FileOf, ShapeOK
  <2>2. QED
    BY <1>2, <1>4, <2>1 DEF RemovePatch
<1>5. ASSUME ApplyPatch PROVE count'.lost # count.lost
  <2>1. PICK outcome \in Outcomes :
          /\ Heard(outcome)
          /\ outcome.answered => executor' = [executor EXCEPT !.step = "rerun",
                                                             !.spoiled = ~outcome.done]
    BY <1>5 DEF ApplyPatch
  <2>2. ~outcome.answered
    BY <1>5, <2>1 DEF ApplyPatch, Doing, Resting, ShapeOK
  <2>3. QED
    BY <2>1, <2>2, HeardShape
<1>6. ASSUME JudgePatch
      PROVE  /\ executor.kind = "patch" /\ status'.patch = "PATCH_PLACED"
             /\ edited \/ executor.spoiled
  <2>1. /\ executor.kind = "patch" /\ f = "plugin" /\ files' = files
        /\ executor.spoiled \/ files["plugin"].text = "edited"
    BY <1>6 DEF JudgePatch, Doing, PatchInv, FileOf
  <2>2. status'.patch = "PATCH_PLACED"
    <3>1. executor' # [executor EXCEPT !.step = "undo"]
      BY DEF Resting, ShapeOK
    <3>2. QED
      BY <1>6, <3>1 DEF JudgePatch, ShapeOK
  <2>3. QED
    BY <2>1, <2>2
<1>7. ~(ProofStep \/ StepTimesOut)
  BY MovingOn DEF ProofMoves, Moved, Ended, Resting, Parents
<1>8. ~(\E phase : RunProof(phase)) /\ ~RunTriage /\ ~RunPatch
  BY DEF RunProof, RunTriage, RunPatch, Resting, Parents
<1>9. ~Instrument /\ ~Replay
  BY DEF Instrument, Replay, Resting, Parents, ShapeOK
<1>10. ~ \E s : ComesUp(s) \/ Dies(s)
  BY DEF ComesUp, Dies, Resting, Parents
<1>11. ~Kill /\ ~ChildDies
  BY DEF Kill, ChildDies, ShapeOK
<1>12. ~UNCHANGED vars
  BY DEF vars, Resting, Parents
<1>13. RestoreAndReport \/ RemovePatch \/ ApplyPatch \/ JudgePatch
  BY <1>7, <1>8, <1>9, <1>10, <1>11, <1>12 DEF Next, ExecutorStep
<1>14. QED
  BY <1>1, <1>3, <1>4, <1>5, <1>6, <1>13

(* An executor that was not killed leaves the edit its verdict speaks of,  *)
(* whatever was lost or killed before its last command, and beside an edit *)
(* that stays, the installed text.                                         *)
THEOREM EditsMatchVerdicts == Spec => EditsFollowVerdicts
<1>1. EditsInv /\ [Next]_vars => [EditFollows]_vars
  BY ResultsAreSettled
<1>2. QED
  BY <1>1, EditsInit, NextEdits, PTL DEF Spec, EditsFollowVerdicts, EditFollows

-----------------------------------------------------------------------------
(* Logs *)

Named(L, path, kind) == {h \in L : h.path = path /\ h.kind = kind}

(* There is one live log at a path, and no name that was given is beyond   *)
(* the number of names of its kind: the next free one is not among them.   *)
LogsKept(L) ==
  /\ IsFiniteSet(L)
  /\ \A g, h \in L : g.kind = "live" /\ h.kind = "live" /\ g.path = h.path => g = h
  /\ \A g \in L : g.kind # "live" =>
       g.n \in Nat /\ g.n <= Cardinality(Named(L, g.path, g.kind))

LEMMA NamedCounts ==
  ASSUME NEW L, IsFiniteSet(L), NEW path, NEW kind
  PROVE  IsFiniteSet(Named(L, path, kind)) /\ Cardinality(Named(L, path, kind)) \in Nat
  BY FS_Subset, FS_CardinalityType DEF Named

(* A copy of the live log takes a name of its own. *)
LEMMA ArchivedAdds ==
  ASSUME LogsKept(logs), NEW path, NEW kind \in {"prev", "crash"}, NEW g \in Live(path)
  PROVE  /\ NextFree(path, kind) = 1 + Cardinality(Named(logs, path, kind))
         /\ Archived(path, kind) = logs \cup
              {[path |-> path, kind |-> kind, n |-> NextFree(path, kind), of |-> g.of]}
<1> DEFINE n == NextFree(path, kind)
<1>1. n = 1 + Cardinality(Named(logs, path, kind))
  BY DEF NextFree, Named
<1>2. Cardinality(Named(logs, path, kind)) \in Nat
  BY NamedCounts DEF LogsKept
<1>3. \A h \in logs : ~(h.path = path /\ h.kind = kind /\ h.n = n)
  BY <1>1, <1>2 DEF LogsKept
<1>4. Live(path) = {g}
  BY DEF LogsKept, Live
<1> HIDE DEF n
<1>5. Archived(path, kind) =
        {h \in logs : ~(h.path = path /\ h.kind = kind /\ h.n = n)}
          \cup {[path |-> path, kind |-> kind, n |-> n, of |-> h.of] : h \in Live(path)}
  BY <1>4 DEF Archived, n
<1>6. Archived(path, kind) = logs \cup {[path |-> path, kind |-> kind, n |-> n, of |-> g.of]}
  BY <1>3, <1>4, <1>5
<1>7. QED
  BY <1>1, <1>6 DEF n

LEMMA ArchivedKeeps ==
  ASSUME LogsKept(logs), NEW path, NEW kind \in {"prev", "crash"}
  PROVE  /\ LogsKept(Archived(path, kind))
         /\ logs \subseteq Archived(path, kind)
         /\ \A g \in Live(path) :
              \E h \in Archived(path, kind) : h.kind # "live" /\ h.of = g.of
<1>1. CASE Live(path) = {}
  BY <1>1 DEF Archived
<1>2. ASSUME NEW g \in Live(path)
      PROVE  /\ LogsKept(Archived(path, kind))
             /\ logs \subseteq Archived(path, kind)
             /\ \E h \in Archived(path, kind) : h.kind # "live" /\ h.of = g.of
  <2> DEFINE c == [path |-> path, kind |-> kind, n |-> NextFree(path, kind), of |-> g.of]
             L == logs \cup {c}
  <2>1. /\ NextFree(path, kind) = 1 + Cardinality(Named(logs, path, kind))
        /\ Archived(path, kind) = L
    BY <1>2, ArchivedAdds
  <2>2. c.path = path /\ c.kind = kind /\ c.n = NextFree(path, kind) /\ c.of = g.of
    OBVIOUS
  <2> HIDE DEF c
  <2>3. IsFiniteSet(L)
    BY FS_AddElement DEF LogsKept
  <2>4. Cardinality(Named(logs, path, kind)) \in Nat
    BY NamedCounts DEF LogsKept
  <2>5. c \notin Named(logs, path, kind)
    BY <2>1, <2>2, <2>4 DEF LogsKept, Named
  <2>6. Named(L, path, kind) = Named(logs, path, kind) \cup {c}
    BY <2>2 DEF Named
  <2>7. Cardinality(Named(L, path, kind)) = Cardinality(Named(logs, path, kind)) + 1
    BY <2>5, <2>6, FS_AddElement, NamedCounts DEF LogsKept
  <2>8. ASSUME NEW p, NEW k, p # path \/ k # kind
        PROVE  Named(L, p, k) = Named(logs, p, k)
    BY <2>2, <2>8 DEF Named
  <2>9. ASSUME NEW h \in L, h.kind # "live"
        PROVE  h.n \in Nat /\ h.n <= Cardinality(Named(L, h.path, h.kind))
    <3>1. CASE h = c
      BY <2>1, <2>2, <2>4, <2>7, <3>1
    <3>2. CASE h # c /\ h.path = path /\ h.kind = kind
      BY <2>4, <2>7, <2>9, <3>2 DEF LogsKept
    <3>3. CASE h # c /\ (h.path # path \/ h.kind # kind)
      BY <2>8, <2>9, <3>3 DEF LogsKept
    <3>4. QED
      BY <3>1, <3>2, <3>3
  <2>10. \A h, i \in L : h.kind = "live" /\ i.kind = "live" /\ h.path = i.path => h = i
    BY <2>2 DEF LogsKept
  <2>11. QED
    BY <2>1, <2>2, <2>3, <2>9, <2>10 DEF LogsKept
<1>3. QED
  BY <1>1, <1>2

(* What a launch truncates was put aside before. *)
LEMMA TruncatedKeeps ==
  ASSUME LogsKept(logs), NEW path, NEW launch
  PROVE  /\ LogsKept(Truncated(path, launch))
         /\ \A g \in logs : \E h \in Truncated(path, launch) : h.of = g.of
         /\ \E h \in Truncated(path, launch) : h.of = launch
<1> DEFINE A == Archived(path, "prev")
           new == [path |-> path, kind |-> "live", n |-> 0, of |-> launch]
           L == (A \ Live(path)) \cup {new}
<1>1. /\ LogsKept(A) /\ logs \subseteq A
      /\ \A g \in Live(path) : \E h \in A : h.kind # "live" /\ h.of = g.of
  BY ArchivedKeeps
<1>2. Truncated(path, launch) = L
  BY DEF Truncated
<1>3. new.path = path /\ new.kind = "live" /\ new.of = launch
  OBVIOUS
<1>4. \A g \in A : g.kind = "live" /\ g.path = path => g \in Live(path)
  <2>1. CASE Live(path) = {}
    BY <2>1 DEF Archived, Live
  <2>2. ASSUME NEW g \in Live(path) PROVE <1>4
    BY <2>2, ArchivedAdds DEF Live
  <2>3. QED
    BY <2>1, <2>2
<1>5. \A g \in Live(path) : g.kind = "live" /\ g.path = path /\ g \in logs
  BY DEF Live
<1> HIDE DEF A, new
<1>6. IsFiniteSet(L)
  BY <1>1, FS_AddElement, FS_Subset DEF LogsKept
<1>7. ASSUME NEW p, NEW k, k # "live"
      PROVE  Named(L, p, k) = Named(A, p, k)
  BY <1>3, <1>5, <1>7 DEF Named
<1>8. \A g \in L : g.kind # "live" =>
        g.n \in Nat /\ g.n <= Cardinality(Named(L, g.path, g.kind))
  BY <1>1, <1>3, <1>7 DEF LogsKept
<1>9. \A g, h \in L : g.kind = "live" /\ h.kind = "live" /\ g.path = h.path => g = h
  BY <1>1, <1>3, <1>4 DEF LogsKept
<1>10. \A g \in logs : \E h \in L : h.of = g.of
  BY <1>1, <1>5
<1>11. QED
  BY <1>2, <1>3, <1>6, <1>8, <1>9, <1>10 DEF LogsKept

LogsInv == ShapeOK /\ LogsKept(logs) /\ NoLogIsLost

LaunchStep ==
  /\ count'.launches = count.launches + 1
  /\ \E path : logs' = Truncated(path, count.launches + 1)

CrashStep ==
  /\ count'.launches = count.launches
  /\ \E path : logs' = Archived(path, "crash")

(* A step leaves the logs alone, puts one aside or launches. *)
LEMMA NextLogs ==
  ASSUME ShapeOK, [Next]_vars
  PROVE  \/ count'.launches = count.launches /\ logs' = logs
         \/ LaunchStep
         \/ CrashStep
<1> USE DEF ShapeOK
<1>1. CASE Launch
  BY <1>1 DEF Launch, LaunchStep
<1>2. CASE PollHealth
  BY <1>2 DEF PollHealth, Crashed, CrashStep, DeadlinePasses
<1>3. CASE ChatSmoke
  BY <1>3 DEF ChatSmoke, Crashed, CrashStep
<1>4. CASE RuntimeInstalled
  BY <1>4, ReachesShape DEF RuntimeInstalled
<1>5. CASE StartServer
  BY <1>5, ReachesShape DEF StartServer
<1>6. CASE \/ AttachPod \/ CreatePod \/ InstallRuntime \/ VerifyImport \/ DiscoverBaseModel
           \/ ClearUnlessHealthy \/ ToyBringup \/ VerifyBackend \/ FreeCards \/ StepTimesOut
  BY <1>6, ReachesShape
     DEF AttachPod, CreatePod, InstallRuntime, VerifyImport, DiscoverBaseModel,
         ClearUnlessHealthy, ToyBringup, VerifyBackend, FreeCards, StepTimesOut
<1>7. CASE Instrument \/ ApplyPatch
  BY <1>7, HeardShape DEF Instrument, ApplyPatch
<1>8. CASE Replay \/ RestoreAndReport \/ JudgePatch \/ RemovePatch
  BY <1>8, ReachesShape, HeardShape DEF Replay, RestoreAndReport, JudgePatch, RemovePatch
<1>9. ASSUME NEW phase, RunProof(phase)
      PROVE  count'.launches = count.launches /\ logs' = logs
  BY <1>9 DEF RunProof
<1>10. CASE RunTriage \/ RunPatch
  BY <1>10 DEF RunTriage, RunPatch
<1>11. ASSUME NEW s, ComesUp(s) \/ Dies(s)
       PROVE  count'.launches = count.launches /\ logs' = logs
  BY <1>11 DEF ComesUp, Dies
<1>12. CASE Kill \/ ChildDies
  BY <1>12 DEF Kill, ChildDies
<1>13. CASE UNCHANGED vars
  BY <1>13 DEF vars
<1>14. QED
  BY <1>1, <1>2, <1>3, <1>4, <1>5, <1>6, <1>7, <1>8, <1>9, <1>10, <1>11, <1>12, <1>13
     DEF Next, ProofStep, ExecutorStep

LEMMA LogsStep == LogsInv /\ [Next]_vars => LogsInv'
<1> SUFFICES ASSUME LogsInv, [Next]_vars
             PROVE  LogsKept(logs') /\ \A l \in 1..count'.launches : \E g \in logs' : g.of = l
  BY NextShape DEF LogsInv, NoLogIsLost, LogsKept, Named
<1> USE DEF LogsInv, NoLogIsLost
<1>1. CASE count'.launches = count.launches /\ logs' = logs
  BY <1>1
<1>2. CASE LaunchStep
  <2>1. PICK path : logs' = Truncated(path, count.launches + 1)
    BY <1>2 DEF LaunchStep
  <2>2. ASSUME NEW l \in 1..count'.launches
        PROVE  \E g \in logs' : g.of = l
    <3>1. l = count.launches + 1 \/ l \in 1..count.launches
      BY <1>2 DEF LaunchStep, ShapeOK
    <3>2. QED
      BY <2>1, <3>1, TruncatedKeeps
  <2>3. QED
    BY <2>1, <2>2, TruncatedKeeps
<1>3. CASE CrashStep
  <2>1. PICK path : logs' = Archived(path, "crash")
    BY <1>3 DEF CrashStep
  <2>2. QED
    BY <1>3, <2>1, ArchivedKeeps DEF CrashStep
<1>4. QED
  BY <1>1, <1>2, <1>3, NextLogs

(* What each launch of a service wrote is still in some log of the pod,    *)
(* however often services were launched, by whom and under which path.     *)
THEOREM LogsSurvive == Spec => []NoLogIsLost
<1>1. Init => LogsInv
  <2>1. ASSUME Init PROVE LogsKept(logs)
    BY <2>1, FS_EmptySet DEF Init, LogsKept
  <2>2. QED
    BY <2>1, ShapeInit DEF Init, LogsInv, NoLogIsLost
<1>2. LogsInv => NoLogIsLost
  BY DEF LogsInv
<1>3. QED
  BY <1>1, <1>2, LogsStep, PTL DEF Spec

-----------------------------------------------------------------------------
(* Services *)

ServicesTyped(S) ==
  \A s \in S : /\ DOMAIN s = {"launch", "model", "loaded", "state"}
               /\ s.state \in {"loading", "up", "hollow", "orphaned"}

Living(S) == {s \in S : s.state # "orphaned"}

(* The steps behind the installation. *)
Installed == Steps \ {"attach", "installed?", "install"}

RuntimeInv ==
  /\ pod.runtime => pod.exists
  /\ ~pod.runtime => services = {} /\ ~status.pod
  /\ proof.step # "none" /\ (proof.step = "attach" => proof.attached) => pod.exists
  /\ proof.step = "install" => ~pod.runtime
  /\ proof.step \in Installed => pod.runtime
  /\ proof.step # "none" /\ proof.phase = "service" => status.pod
  /\ status.triage # "none" => status.pod
  /\ executor.kind \in Parents => status.pod

(* At most one service is not orphaned, and on the way to a launch there   *)
(* is none; what may still come up where a probe has answered does not.    *)
ModelInv ==
  /\ \A s, t \in Living(services) : s = t
  /\ proof.step = "probe" /\ proof.phase = "environment" =>
       /\ \A s \in services : s.state # "loading"
       /\ ~proof.attached => services = {}
  /\ proof.step \in {"toy", "launch"} => Living(services) = {}
  /\ proof.step = "health" => \A s \in Living(services) : s.model = ModelOf(proof.phase)
  /\ proof.health # 0 => proof.served = ModelOf(proof.phase)

PodTyped(p) ==
  /\ DOMAIN p = {"exists", "ready", "runtime"}
  /\ p.exists \in BOOLEAN /\ p.runtime \in BOOLEAN

(* As long as no command was lost, both hold. *)
Serving ==
  /\ PodTyped(pod)
  /\ ServicesTyped(services)
  /\ proof.step = "attach" /\ ~proof.attached => ~pod.exists
  /\ count.lost = 0 => RuntimeInv /\ ModelInv

ServingInv == ShapeOK /\ ExecutorInv /\ Serving

LEMMA ServingInit == Init => ServingInv
  BY ShapeInit, ExecutorInit
     DEF Init, ServingInv, Serving, PodTyped, ServicesTyped, RuntimeInv, ModelInv, Living, NoProof, Resting,
         Installed, Steps, Parents

(* Services die or are killed, and one that loads may come up alone. *)
Calmer ==
  /\ ServicesTyped(services')
  /\ services = {} => services' = {}
  /\ (\A s, t \in Living(services) : s = t) => \A s, t \in Living(services') : s = t
  /\ \A t \in Living(services') :
       \E s \in Living(services) :
         s.model = t.model /\ (t.state = "loading" => s.state = "loading")

LEMMA SameIsCalmer ==
  ASSUME ServicesTyped(services), services' = services
  PROVE  Calmer
  BY DEF Calmer

LEMMA NoneIsCalmer ==
  ASSUME services' = {}
  PROVE  Calmer
  BY DEF Calmer, Living, ServicesTyped

LEMMA OrphanedIsCalmer ==
  ASSUME ServicesTyped(services), services' = {[s EXCEPT !.state = "orphaned"] : s \in services}
  PROVE  Calmer /\ Living(services') = {}
  BY DEF Calmer, Living, ServicesTyped

LEMMA BecomesCalmer ==
  ASSUME ServicesTyped(services), NEW s \in services,
         NEW state \in {"up", "hollow", "orphaned"}, s.state # "orphaned", Becomes(s, state)
  PROVE  Calmer
<1> DEFINE c == [s EXCEPT !.state = state]
<1>1. services' = (services \ {s}) \cup {c}
  BY DEF Becomes
<1>2. DOMAIN c = DOMAIN s /\ c.state = state /\ c.model = s.model
  BY DEF ServicesTyped
<1> HIDE DEF c
<1>3. QED
  BY <1>1, <1>2 DEF Calmer, Living, ServicesTyped

LEMMA GoneIsCalmer ==
  ASSUME ServicesTyped(services), NEW s \in services, services' = services \ {s}
  PROVE  Calmer
  BY DEF Calmer, Living, ServicesTyped

(* The pod and its runtime, once they are there, stay. *)
PodGrows ==
  /\ PodTyped(pod')
  /\ pod.exists => pod'.exists
  /\ count.lost = 0 => /\ pod.runtime => pod'.runtime
                       /\ pod'.runtime => pod'.exists

LEMMA SamePodGrows ==
  ASSUME Serving, pod' = pod
  PROVE  PodGrows
  BY DEF Serving, RuntimeInv, PodGrows

(* The end of a proof. *)
LEMMA EndedServes ==
  ASSUME ServingInv, NEW state, Ended(state), Calmer, PodGrows,
         count'.lost = count.lost \/ count'.lost # 0,
         state = "ENVIRONMENT_READY" /\ count.lost = 0 => pod.runtime
  PROVE  Serving'
<1> USE DEF ServingInv, Serving, Ended, NoProof, PodGrows
<1>1. ServicesTyped(services')
  BY DEF Calmer
<1>2. ASSUME count'.lost = 0
      PROVE  RuntimeInv'
  <2>1. RuntimeInv
    BY <1>2
  <2>2. services = {} => services' = {}
    BY DEF Calmer
  <2>3. executor'.kind \in Parents => executor.kind \in Parents
    BY DEF Parents, Resting
  <2>4. status.pod => status'.pod
    BY DEF ShapeOK
  <2>5. status'.pod => status.pod \/ pod.runtime
    BY <1>2 DEF ShapeOK
  <2>6. QED
    BY <2>1, <2>2, <2>3, <2>4, <2>5, <1>2 DEF RuntimeInv, Installed, Steps
<1>3. ASSUME count'.lost = 0
      PROVE  ModelInv'
  BY <1>3 DEF ModelInv, Calmer
<1>4. QED
  BY <1>1, <1>2, <1>3

LEMMA FailsServes ==
  ASSUME ServingInv, NEW state, Fails(state), Calmer, PodGrows,
         count'.lost = count.lost \/ count'.lost # 0,
         state # "ENVIRONMENT_READY"
  PROVE  Serving'
  BY FailsEffect, EndedServes DEF ServingInv

(* Whatever leaves proof, status and count alone. *)
LEMMA CalmServes ==
  ASSUME ServingInv, Calmer, pod' = pod, proof' = proof,
         count'.lost = count.lost \/ count'.lost # 0,
         executor'.kind \in Parents =>
           executor.kind \in Parents \/ status.pod \/ status.triage # "none",
         status'.pod = status.pod,
         status'.triage # "none" => status.triage # "none" \/ executor.kind \in Parents
  PROVE  Serving'
<1> USE DEF ServingInv, Serving
<1>1. ServicesTyped(services') /\ PodTyped(pod')
  BY DEF Calmer
<1>2. ASSUME count'.lost = 0
      PROVE  RuntimeInv' /\ ModelInv'
  <2>1. RuntimeInv /\ ModelInv
    BY <1>2
  <2>2. RuntimeInv'
    BY <2>1 DEF RuntimeInv, Calmer
  <2>3. ModelInv'
    BY <2>1 DEF ModelInv, Calmer, Living
  <2>4. QED
    BY <2>2, <2>3
<1>3. QED
  BY <1>1, <1>2

(* A proof that goes to a next step. *)
LEMMA MovedServes ==
  ASSUME ServingInv, NEW step \in Steps \ {"attach"}, Moved({step}), Calmer, PodGrows,
         proof.step # "none", proof.step = "attach" => proof.attached \/ pod'.exists,
         \/ proof'.health = proof.health /\ proof'.served = proof.served
         \/ count'.lost = 0 => proof'.served = ModelOf(proof.phase),
         count'.lost = count.lost \/ count'.lost # 0,
         count'.lost = 0 =>
           /\ step = "install" => ~pod'.runtime
           /\ step \in Installed => pod'.runtime
           /\ step = "probe" /\ proof.phase = "environment" =>
                /\ \A s \in services' : s.state # "loading"
                /\ ~proof.attached => services' = {}
           /\ step \in {"toy", "launch"} => Living(services') = {}
           /\ step = "health" => \A s \in Living(services') : s.model = ModelOf(proof.phase)
  PROVE  Serving'
<1> USE DEF ServingInv, Serving, Moved, PodGrows
<1>1. ServicesTyped(services') /\ PodTyped(pod')
  BY DEF Calmer
<1>2. ASSUME count'.lost = 0
      PROVE  RuntimeInv' /\ ModelInv'
  <2>1. RuntimeInv /\ ModelInv /\ count.lost = 0
    BY <1>2
  <2>2. RuntimeInv'
    BY <2>1, <1>2 DEF RuntimeInv, Calmer, Installed, Steps
  <2>3. ModelInv'
    BY <2>1, <1>2 DEF ModelInv, Calmer, ModelOf
  <2>4. QED
    BY <2>2, <2>3
<1>3. QED
  BY <1>1, <1>2 DEF Steps

LEMMA GotoServes ==
  ASSUME ServingInv, proof.step # "none",
         proof.step = "attach" => proof.attached \/ pod'.exists,
         NEW step \in Steps \ {"attach"}, Goto(step), Quiet, Calmer, PodGrows,
         count'.lost = count.lost \/ count'.lost # 0,
         count'.lost = 0 =>
           /\ step = "install" => ~pod'.runtime
           /\ step \in Installed => pod'.runtime
           /\ step = "probe" /\ proof.phase = "environment" =>
                /\ \A s \in services' : s.state # "loading"
                /\ ~proof.attached => services' = {}
           /\ step \in {"toy", "launch"} => Living(services') = {}
           /\ step = "health" => \A s \in Living(services') : s.model = ModelOf(proof.phase)
  PROVE  Serving'
<1>1. proof'.health = proof.health /\ proof'.served = proof.served
  BY DEF ServingInv, ShapeOK, Goto
<1>2. QED
  BY <1>1, GotoMoves, MovedServes DEF ServingInv

LEMMA ReachesLost ==
  ASSUME ShapeOK, NEW ok \in BOOLEAN, Reaches(ok)
  PROVE  /\ count'.lost = count.lost \/ count'.lost # 0
         /\ count'.lost = 0 => ok
  BY DEF ShapeOK, Reaches

LEMMA AttachServes ==
  ASSUME ServingInv, AttachPod
  PROVE  Serving'
<1> USE DEF AttachPod, At, FoundPod
<1>1. Calmer /\ PodGrows
  BY SameIsCalmer, SamePodGrows DEF ServingInv, Serving
<1>2. CASE Fails("NEEDS_HUMAN")
  BY <1>1, <1>2, FailsServes
<1>3. ASSUME ~Fails("NEEDS_HUMAN") PROVE Serving'
  <2> DEFINE step == IF proof.phase = "service" THEN "probe" ELSE "installed?"
  <2>1. Goto(step) /\ Quiet
    BY <1>3
  <2>2. count.lost = 0 /\ step = "probe" => pod.runtime /\ proof.phase # "environment"
    BY DEF ServingInv, Serving, RuntimeInv
  <2>3. QED
    BY <1>1, <2>1, <2>2, GotoServes DEF Steps, Installed
<1>4. QED
  BY <1>2, <1>3

LEMMA CreateServes ==
  ASSUME ServingInv, CreatePod
  PROVE  Serving'
<1> USE DEF CreatePod, At, FoundPod
<1>1. PICK ready \in BOOLEAN :
        /\ pod' = [pod EXCEPT !.exists = TRUE, !.ready = ready]
        /\ IF ready THEN Goto("install") /\ Quiet ELSE Fails("READINESS_TIMEOUT")
  OBVIOUS
<1>2. pod'.exists /\ pod'.runtime = pod.runtime /\ PodTyped(pod')
  BY <1>1 DEF ServingInv, Serving, PodTyped
<1>3. Calmer /\ PodGrows
  BY <1>2, SameIsCalmer DEF ServingInv, Serving, PodGrows
<1>4. count.lost = 0 => ~pod.runtime
  BY DEF ServingInv, Serving, RuntimeInv
<1>5. CASE ready
  BY <1>1, <1>2, <1>3, <1>4, <1>5, GotoServes DEF Steps, Installed
<1>6. CASE ~ready
  BY <1>1, <1>3, <1>6, FailsServes
<1>7. QED
  BY <1>5, <1>6

LEMMA InstalledServes ==
  ASSUME ServingInv, RuntimeInstalled
  PROVE  Serving'
<1> USE DEF RuntimeInstalled, At
<1>1. PICK reached \in BOOLEAN :
        /\ Reaches(reached)
        /\ Goto(IF RuntimeFound(reached) THEN AfterInstall ELSE "install")
  OBVIOUS
<1> DEFINE step == IF RuntimeFound(reached) THEN AfterInstall ELSE "install"
<1>2. Calmer /\ PodGrows
  BY SameIsCalmer, SamePodGrows DEF ServingInv, Serving
<1>3. step \in {"identity", "probe", "install"}
      /\ (step = "probe" => proof.phase # "environment")
  BY DEF AfterInstall
<1>4. count'.lost = 0 => (step = "install" <=> ~pod.runtime)
  BY <1>1, ReachesLost DEF ServingInv, RuntimeFound, AfterInstall
<1>5. count'.lost = count.lost \/ count'.lost # 0
  BY <1>1, ReachesLost DEF ServingInv
<1>6. QED
  BY <1>1, <1>2, <1>3, <1>4, <1>5, GotoServes DEF Steps, Installed

LEMMA InstallServes ==
  ASSUME ServingInv, InstallRuntime
  PROVE  Serving'
<1> USE DEF InstallRuntime, At
<1>1. count.lost = 0 => pod.exists /\ ~pod.runtime /\ services = {}
  BY DEF ServingInv, Serving, RuntimeInv
<1>2. Calmer
  BY SameIsCalmer DEF ServingInv, Serving
<1>3. CASE pod' = [pod EXCEPT !.runtime = TRUE] /\ Goto(AfterInstall) /\ Quiet
  <2>1. PodTyped(pod') /\ pod'.exists = pod.exists /\ pod'.runtime
    BY <1>3 DEF ServingInv, Serving, PodTyped
  <2>2. AfterInstall \in {"identity", "probe"}
        /\ (AfterInstall = "probe" => proof.phase # "environment")
    BY DEF AfterInstall
  <2>3. PodGrows
    BY <1>1, <2>1 DEF PodGrows
  <2>4. QED
    BY <1>2, <1>3, <2>1, <2>2, <2>3, GotoServes DEF Steps, Installed
<1>4. CASE pod' = [pod EXCEPT !.runtime = FALSE] /\ Fails("INSTALL_FAILED")
  <2>1. PodTyped(pod') /\ pod'.exists = pod.exists /\ ~pod'.runtime
    BY <1>4 DEF ServingInv, Serving, PodTyped
  <2>2. PodGrows
    BY <1>1, <2>1 DEF PodGrows
  <2>3. QED
    BY <1>2, <1>4, <2>2, FailsServes
<1>5. QED
  BY <1>3, <1>4

LEMMA CleanupServes ==
  ASSUME ServingInv, NEW step \in {"probe", "toy", "launch"}, NEW reached \in BOOLEAN,
         Cleanup(step, reached), proof.step \in Installed, pod' = pod,
         count'.lost = count.lost \/ count'.lost # 0, count'.lost = 0 => reached
  PROVE  Serving'
<1>1. PodGrows
  BY SamePodGrows DEF ServingInv
<1>2. count.lost = 0 => pod.runtime
  BY DEF ServingInv, Serving, RuntimeInv
<1>3. CASE services' = {} /\ Goto(step) /\ Quiet
  <2>1. Living(services') = {}
    BY <1>3 DEF Living
  <2>2. QED
    BY <1>1, <1>2, <1>3, <2>1, NoneIsCalmer, GotoServes DEF Steps, Installed
<1>4. CASE services' = {[s EXCEPT !.state = "orphaned"] : s \in services} /\ Fails("NEEDS_HUMAN")
  BY <1>1, <1>4, OrphanedIsCalmer, FailsServes DEF ServingInv, Serving
<1>5. CASE ~reached /\ Goto(step) /\ Quiet /\ services' = services
  BY <1>1, <1>5, SameIsCalmer, GotoServes DEF ServingInv, Serving, Steps, Installed
<1>6. QED
  BY <1>3, <1>4, <1>5 DEF Cleanup

LEMMA ClearServes ==
  ASSUME ServingInv, ClearUnlessHealthy
  PROVE  Serving'
<1> USE DEF ClearUnlessHealthy, At
<1>1. proof.step \in Installed
  BY DEF Installed, Steps
<1>2. ASSUME NEW reached \in BOOLEAN, Reaches(reached), Cleanup("probe", reached)
      PROVE  Serving'
  BY <1>1, <1>2, ReachesLost, CleanupServes DEF ServingInv
<1>3. CASE /\ proof.attached /\ Answering # {} /\ Goto("probe") /\ Quiet
           /\ services' = services /\ count' = count
  <2>1. Calmer /\ PodGrows
    BY <1>3, SameIsCalmer, SamePodGrows DEF ServingInv, Serving
  <2>2. count.lost = 0 => pod.runtime
    BY <1>1 DEF ServingInv, Serving, RuntimeInv
  <2>3. count.lost = 0 => \A s \in services : s.state # "loading"
    BY <1>3 DEF ServingInv, Serving, ModelInv, Living, Answering
  <2>4. QED
    BY <1>3, <2>1, <2>2, <2>3, GotoServes DEF Steps, Installed
<1>4. QED
  BY <1>2, <1>3

(* What answers in an environment was there before the phase came to ask:  *)
(* a service that loads cannot answer later, nor can one beside it.        *)
LEMMA StartServes ==
  ASSUME ServingInv, StartServer
  PROVE  Serving'
<1> USE DEF StartServer, At
<1>1. proof.step \in Installed
  BY DEF Installed, Steps
<1>2. PICK reached, killed \in BOOLEAN :
        /\ Reaches(reached /\ killed)
        /\ LET serving == IF reached /\ proof.attached THEN Answering ELSE {}
           IN  \/ /\ \E s \in serving : ServesTargetModel(s)
                  /\ killed /\ Goto("health") /\ Quiet /\ UNCHANGED services
               \/ /\ ~ \E s \in serving : ServesTargetModel(s)
                  /\ IF proof.phase # "environment" THEN Cleanup("toy", killed)
                     ELSE IF serving # {} THEN Cleanup("launch", killed)
                     ELSE killed /\ Goto("launch") /\ Quiet /\ UNCHANGED services
  OBVIOUS
<1> DEFINE serving == IF reached /\ proof.attached THEN Answering ELSE {}
<1>3. /\ count'.lost = count.lost \/ count'.lost # 0
      /\ count'.lost = 0 => reached /\ killed
  BY <1>2, ReachesLost DEF ServingInv
<1>4. PodGrows /\ (count.lost = 0 => pod.runtime)
  BY <1>1, SamePodGrows DEF ServingInv, Serving, RuntimeInv
<1>5. CASE Cleanup("toy", killed) \/ Cleanup("launch", killed)
  BY <1>1, <1>3, <1>5, CleanupServes
<1>6. CASE services' = services /\ Quiet /\ Goto("health")
           /\ \E s \in serving : ServesTargetModel(s)
  <2>1. count'.lost = 0 => \A s \in Living(services') : s.model = ModelOf(proof.phase)
    BY <1>3, <1>6
       DEF ServingInv, Serving, ModelInv, Living, Answering, ServesTargetModel
  <2>2. QED
    BY <1>1, <1>3, <1>4, <1>6, <2>1, SameIsCalmer, GotoServes
       DEF ServingInv, Serving, Steps, Installed
<1>7. CASE services' = services /\ Quiet /\ Goto("launch")
           /\ serving = {} /\ proof.phase = "environment"
  <2>1. ASSUME count'.lost = 0 PROVE Living(services') = {}
    <3>1. /\ \A s \in services : s.state # "loading"
          /\ ~proof.attached => services = {}
      BY <1>3, <1>7, <2>1 DEF ServingInv, Serving, ModelInv
    <3>2. CASE proof.attached
      <4>1. Answering = {}
        BY <1>3, <1>7, <2>1, <3>2
      <4>2. QED
        BY <1>7, <3>1, <4>1 DEF Living, Answering, ServingInv, Serving, ServicesTyped
    <3>3. QED
      BY <1>7, <3>1, <3>2 DEF Living
  <2>2. QED
    BY <1>1, <1>3, <1>4, <1>7, <2>1, SameIsCalmer, GotoServes
       DEF ServingInv, Serving, Steps, Installed
<1>8. QED
  BY <1>2, <1>5, <1>6, <1>7

LEMMA CheckServes ==
  ASSUME ServingInv, VerifyImport \/ DiscoverBaseModel
  PROVE  Serving'
<1> USE DEF VerifyImport, DiscoverBaseModel, At
<1>1. Calmer /\ PodGrows
  BY SameIsCalmer, SamePodGrows DEF ServingInv, Serving
<1>2. count.lost = 0 => pod.runtime
  BY DEF ServingInv, Serving, RuntimeInv, Installed, Steps
<1>3. ASSUME NEW state \in {"INSTALL_FAILED", "MODEL_NOT_FOUND"} \cup NotReady, Fails(state)
      PROVE  Serving'
  BY <1>1, <1>3, FailsServes DEF NotReady
<1>4. ASSUME NEW step \in {"model", "clear"}, Goto(step), Quiet
      PROVE  Serving'
  BY <1>1, <1>2, <1>4, GotoServes DEF Steps, Installed
<1>5. QED
  BY <1>3, <1>4

LEMMA ToyServes ==
  ASSUME ServingInv, ToyBringup
  PROVE  Serving'
<1> USE DEF ToyBringup, At
<1>1. Calmer /\ PodGrows
  BY SameIsCalmer, SamePodGrows DEF ServingInv, Serving
<1>2. count.lost = 0 => pod.runtime /\ Living(services) = {}
  BY DEF ServingInv, Serving, RuntimeInv, ModelInv, Installed, Steps
<1>3. ASSUME NEW state \in {"BRINGUP_BLOCKED"} \cup ProbeFailures, Fails(state)
      PROVE  Serving'
  BY <1>1, <1>3, FailsServes DEF ProbeFailures
<1>4. CASE Goto("launch") /\ Quiet
  BY <1>1, <1>2, <1>4, GotoServes DEF Steps, Installed
<1>5. QED
  BY <1>3, <1>4

LEMMA LaunchServes ==
  ASSUME ServingInv, Launch
  PROVE  Serving'
<1> USE DEF Launch, At
<1>1. CASE Fails("SERVER_START_FAILED") /\ UNCHANGED <<services, logs, count>>
  BY <1>1, SameIsCalmer, SamePodGrows, FailsServes DEF ServingInv, Serving
<1>2. CASE /\ services' = services \cup
                {[launch |-> count.launches + 1, model |-> ModelOf(proof.phase),
                  loaded |-> Edited, state |-> "loading"]}
           /\ count' = [count EXCEPT !.launches = count.launches + 1]
           /\ Goto("health") /\ Quiet
  <2> DEFINE new == [launch |-> count.launches + 1, model |-> ModelOf(proof.phase),
                     loaded |-> Edited, state |-> "loading"]
  <2>1. services' = services \cup {new} /\ new.model = ModelOf(proof.phase)
        /\ new.state = "loading" /\ DOMAIN new = {"launch", "model", "loaded", "state"}
    BY <1>2
  <2> HIDE DEF new
  <2>2. ServicesTyped(services') /\ PodTyped(pod')
    BY <2>1 DEF ServingInv, Serving, ServicesTyped
  <2>3. /\ Moved({"health"}) /\ count'.lost = count.lost
        /\ proof'.health = proof.health /\ proof'.served = proof.served
    BY <1>2, GotoMoves DEF ServingInv, ShapeOK, Goto
  <2>4. ASSUME count.lost = 0
        PROVE  RuntimeInv' /\ ModelInv'
    <3>1. RuntimeInv /\ ModelInv
      BY <2>4 DEF ServingInv, Serving
    <3>2. pod.runtime /\ proof.step = "launch" /\ Living(services) = {}
      BY <3>1 DEF RuntimeInv, ModelInv, Installed, Steps
    <3>3. Living(services') = {new}
      BY <2>1, <3>2 DEF Living
    <3>4. RuntimeInv'
      BY <2>3, <3>1, <3>2 DEF RuntimeInv, Moved, Installed
    <3>5. ModelInv'
      BY <2>1, <2>3, <3>1, <3>3 DEF ModelInv, Moved, ModelOf
    <3>6. QED
      BY <3>4, <3>5
  <2>5. QED
    BY <2>2, <2>3, <2>4 DEF Serving, Moved
<1>3. QED
  BY <1>1, <1>2

LEMMA PollServes ==
  ASSUME ServingInv, PollHealth
  PROVE  Serving'
<1> USE DEF PollHealth, At
<1>1. Calmer /\ PodGrows
  BY SameIsCalmer, SamePodGrows DEF ServingInv, Serving
<1>2. ASSUME NEW state \in {"SERVER_START_FAILED", "READINESS_TIMEOUT"}, Fails(state)
      PROVE  Serving'
  BY <1>1, <1>2, FailsServes
<1>3. ASSUME NEW s \in Answering, Quiet,
             proof' = [proof EXCEPT !.step = "chat", !.health = s.launch,
                                    !.served = s.model, !.loaded = s.loaded]
      PROVE  Serving'
  <2>1. count.lost = 0 => pod.runtime /\ s.model = ModelOf(proof.phase)
    BY DEF ServingInv, Serving, RuntimeInv, ModelInv, Installed, Steps, Living, Answering
  <2>2. Moved({"chat"}) /\ proof'.served = s.model
    BY <1>3 DEF Moved, Quiet, ServingInv, ShapeOK
  <2>3. QED
    BY <1>1, <2>1, <2>2, MovedServes DEF Steps, Installed
<1>4. QED
  BY <1>2, <1>3 DEF DeadlinePasses

LEMMA ChatServes ==
  ASSUME ServingInv, ChatSmoke
  PROVE  Serving'
<1> USE DEF ChatSmoke, At
<1>1. PodGrows /\ (count.lost = 0 => pod.runtime)
  BY SamePodGrows DEF ServingInv, Serving, RuntimeInv, Installed, Steps
<1>2. ASSUME services' = services, Fails("API_SMOKE_FAILED")
      PROVE  Serving'
  BY <1>1, <1>2, SameIsCalmer, FailsServes DEF ServingInv, Serving
<1>3. ASSUME NEW s \in services, s.state = "up", Becomes(s, "hollow"), Fails("API_SMOKE_FAILED")
      PROVE  Serving'
  BY <1>1, <1>3, BecomesCalmer, FailsServes DEF ServingInv, Serving
<1>4. ASSUME NEW s \in services, services' = services, Quiet,
             proof' = [proof EXCEPT !.step = "backend", !.chat = s.launch, !.loaded = s.loaded]
      PROVE  Serving'
  <2>1. /\ Moved({"backend"})
        /\ proof'.health = proof.health /\ proof'.served = proof.served
    BY <1>4 DEF Moved, Quiet, ServingInv, ShapeOK
  <2>2. QED
    BY <1>1, <1>4, <2>1, SameIsCalmer, MovedServes DEF ServingInv, Serving, Steps, Installed
<1>5. QED
  BY <1>2, <1>3, <1>4

LEMMA BackendServes ==
  ASSUME ServingInv, VerifyBackend
  PROVE  Serving'
<1> USE DEF VerifyBackend, At
<1>1. Calmer /\ PodGrows /\ (count.lost = 0 => pod.runtime)
  BY SameIsCalmer, SamePodGrows DEF ServingInv, Serving, RuntimeInv, Installed, Steps
<1>2. ASSUME NEW state \in {"DEPLOYMENT_READY", "UNEXPECTED_FALLBACK"}, NEW log,
             Ends(state, log)
      PROVE  Serving'
  BY <1>1, <1>2, EndsEffect, EndedServes DEF ServingInv
<1>3. ASSUME NEW log, proof' = [proof EXCEPT !.step = "free", !.log = log], Quiet
      PROVE  Serving'
  <2>1. /\ Moved({"free"})
        /\ proof'.health = proof.health /\ proof'.served = proof.served
    BY <1>3 DEF Moved, Quiet, ServingInv, ShapeOK
  <2>2. QED
    BY <1>1, <1>3, <2>1, MovedServes DEF Steps, Installed
<1>4. QED
  BY <1>2, <1>3

LEMMA FreeServes ==
  ASSUME ServingInv, FreeCards
  PROVE  Serving'
<1> USE DEF FreeCards, At
<1>1. PodGrows /\ (count.lost = 0 => pod.runtime)
  BY SamePodGrows DEF ServingInv, Serving, RuntimeInv, Installed, Steps
<1>2. count'.lost = count.lost \/ count'.lost # 0
  BY ReachesLost DEF ServingInv
<1>3. ASSUME Ends("ENVIRONMENT_READY", proof.log), services' = {} \/ services' = services
      PROVE  Serving'
  BY <1>1, <1>2, <1>3, NoneIsCalmer, SameIsCalmer, EndsEffect, EndedServes
     DEF ServingInv, Serving
<1>4. CASE services' = {[s EXCEPT !.state = "orphaned"] : s \in services} /\ Fails("NEEDS_HUMAN")
  BY <1>1, <1>2, <1>4, OrphanedIsCalmer, FailsServes DEF ServingInv, Serving
<1>5. QED
  BY <1>3, <1>4

LEMMA StartedServes ==
  ASSUME ServingInv, NEW phase, NEW attached, NEW path, Started(phase, attached, path),
         pod' = pod, services' = services, status' = status,
         count'.lost = count.lost \/ count'.lost # 0,
         executor'.kind \in Parents => executor.kind \in Parents,
         phase = "service" => status.pod \/ executor.kind \in Parents,
         attached => pod.exists \/ executor.kind \in Parents,
         ~attached => ~pod.exists
  PROVE  Serving'
<1> USE DEF ServingInv, Serving
<1>1. /\ proof'.step = "attach" /\ proof'.phase = phase /\ proof'.attached = attached
      /\ proof'.health = 0
  BY DEF Started, NoProof
<1>2. ASSUME count'.lost = 0
      PROVE  RuntimeInv' /\ ModelInv'
  <2>1. RuntimeInv /\ ModelInv
    BY <1>2
  <2>2. RuntimeInv'
    BY <1>1, <2>1 DEF RuntimeInv, Installed
  <2>3. ModelInv'
    BY <1>1, <2>1 DEF ModelInv
  <2>4. QED
    BY <2>2, <2>3
<1>3. QED
  BY <1>1, <1>2

LEMMA StepsServe ==
  ASSUME ServingInv, ProofStep \/ StepTimesOut
  PROVE  Serving'
<1>1. CASE StepTimesOut
  BY <1>1, SameIsCalmer, SamePodGrows, FailsServes DEF StepTimesOut, ServingInv, Serving
<1>2. QED
  BY <1>1, AttachServes, CreateServes, InstalledServes, InstallServes, CheckServes,
     ClearServes, StartServes, ToyServes, LaunchServes, PollServes, ChatServes,
     BackendServes, FreeServes DEF ProofStep

LEMMA OthersServe ==
  ASSUME ServingInv, [Next]_vars, ~(ProofStep \/ StepTimesOut)
  PROVE  Serving'
<1>1. services' = services => Calmer
  BY SameIsCalmer DEF ServingInv, Serving
<1>2. ASSUME NEW phase, RunProof(phase) PROVE Serving'
  <2>1. executor'.kind \notin Parents /\ count'.lost = count.lost
    BY <1>2 DEF RunProof, Resting, Parents, ServingInv, ShapeOK
  <2>2. QED
    BY <1>2, <2>1, StartedServes DEF RunProof
<1>3. CASE RunTriage \/ RunPatch
  <2>1. count'.lost = count.lost /\ (status.pod \/ status.triage # "none")
    BY <1>3 DEF RunTriage, RunPatch, ServingInv, ShapeOK
  <2>2. proof' = proof /\ status' = status /\ pod' = pod /\ services' = services
    BY <1>3 DEF RunTriage, RunPatch
  <2>3. QED
    BY <1>1, <2>1, <2>2, CalmServes
<1>4. CASE Instrument \/ ApplyPatch
  <2>1. PICK outcome \in Outcomes :
          /\ Heard(outcome)
          /\ \/ /\ executor' = [executor EXCEPT !.step = "rerun", !.spoiled = ~outcome.done]
                /\ status' = status /\ \E path : Started("service", TRUE, path)
             \/ /\ executor' = Resting /\ proof' = proof
                /\ status' = [status EXCEPT !.patch = "PATCH_REJECTED"]
    BY <1>4 DEF Instrument, ApplyPatch, Rerun
  <2>2. count'.lost = count.lost \/ count'.lost # 0
    BY <2>1, HeardShape DEF ServingInv
  <2>3. executor.kind \in Parents /\ pod' = pod /\ services' = services
    BY <1>4 DEF Instrument, ApplyPatch, Doing, Parents
  <2>4. CASE executor' = Resting /\ proof' = proof
             /\ status' = [status EXCEPT !.patch = "PATCH_REJECTED"]
    <3>1. status'.pod = status.pod /\ status'.triage = status.triage
          /\ executor'.kind \notin Parents
      BY <2>4 DEF ServingInv, ShapeOK, Resting, Parents
    <3>2. QED
      BY <1>1, <2>2, <2>3, <2>4, <3>1, CalmServes
  <2>5. ASSUME NEW path, Started("service", TRUE, path), status' = status,
               executor' = [executor EXCEPT !.step = "rerun", !.spoiled = ~outcome.done]
        PROVE  Serving'
    BY <2>2, <2>3, <2>5, StartedServes DEF ServingInv, ShapeOK
  <2>6. QED
    BY <2>1, <2>4, <2>5
<1>5. CASE Replay \/ RestoreAndReport \/ RemovePatch
  <2>1. /\ proof' = proof /\ pod' = pod /\ services' = services
        /\ \E reached \in BOOLEAN : Reaches(reached)
        /\ executor.kind \in Parents
    BY <1>5 DEF Replay, RestoreAndReport, RemovePatch, Heard, Outcomes, Doing, Parents
  <2>2. status'.pod = status.pod
    BY <1>5 DEF Replay, RestoreAndReport, RemovePatch, ServingInv, ShapeOK
  <2>3. count'.lost = count.lost \/ count'.lost # 0
    BY <2>1, ReachesLost DEF ServingInv
  <2>4. QED
    BY <1>1, <2>1, <2>2, <2>3, CalmServes
<1>6. CASE JudgePatch
  <2>1. /\ proof' = proof /\ pod' = pod /\ services' = services /\ count' = count
        /\ executor.kind \in Parents
    BY <1>6 DEF JudgePatch, Doing, Parents
  <2>2. status'.pod = status.pod
    BY <1>6 DEF JudgePatch, ServingInv, ShapeOK
  <2>3. QED
    BY <1>1, <2>1, <2>2, CalmServes
<1>7. ASSUME NEW s \in services, ComesUp(s) \/ Dies(s) PROVE Serving'
  <2>1. Calmer
    BY <1>7, BecomesCalmer, GoneIsCalmer DEF ComesUp, Dies, ServingInv, Serving
  <2>2. QED
    BY <1>7, <2>1, CalmServes DEF ComesUp, Dies
<1>8. CASE Kill \/ ChildDies
  <2>1. /\ proof' = NoProof /\ pod' = pod /\ services' = services /\ status' = status
        /\ count'.lost = count.lost
        /\ executor'.kind \in Parents => executor.kind \in Parents
    BY <1>8 DEF Kill, ChildDies, Resting, Parents, ServingInv, ShapeOK
  <2>2. RuntimeInv => RuntimeInv'
    BY <2>1 DEF RuntimeInv, NoProof, Installed, Steps
  <2>3. ModelInv => ModelInv'
    BY <2>1 DEF ModelInv, NoProof
  <2>4. QED
    BY <2>1, <2>2, <2>3 DEF ServingInv, Serving, NoProof
<1>9. CASE UNCHANGED vars
  BY <1>1, <1>9, CalmServes DEF vars
<1>10. QED
  BY <1>2, <1>3, <1>4, <1>5, <1>6, <1>7, <1>8, <1>9 DEF Next, ExecutorStep

LEMMA ServingStep == ServingInv /\ [Next]_vars => ServingInv'
  BY NextShape, NextExecutor, StepsServe, OthersServe DEF ServingInv

(* As long as every command reaches the pod, the service whose health      *)
(* counts is of the model the contract names.                              *)
THEOREM HealthIsOfOwnModel == Spec => []JudgesItsOwnModel
<1>1. ServingInv => JudgesItsOwnModel
  BY DEF ServingInv, Serving, ModelInv, JudgesItsOwnModel
<1>2. QED
  BY <1>1, ServingInit, ServingStep, PTL DEF Spec

(* As long as every command reaches the pod, the runtime is not installed  *)
(* anew under a service that answers.                                      *)
THEOREM ServingKeepsRuntime == Spec => ServingIsNotReinstalled
<1> DEFINE P == At("install") /\ <<files, pod>>' # <<files, pod>>
                  => count.lost > 0 \/ Answering = {}
<1>1. ServingInv => [P]_vars
  <2>1. ASSUME ServingInv, At("install") PROVE count.lost > 0 \/ services = {}
    BY <2>1 DEF ServingInv, ShapeOK, Serving, RuntimeInv, At
  <2>2. QED
    BY <2>1 DEF Answering
<1>2. QED
  BY <1>1, ServingInit, ServingStep, PTL DEF Spec, ServingIsNotReinstalled

=============================================================================
