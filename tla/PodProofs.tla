------------------------------ MODULE PodProofs ------------------------------
(***************************************************************************)
(* What the deployment proof, failure triage and patch placement do to the *)
(* pod they share (src/runners/deployment_proof.py, triage_executor.py,    *)
(* patch_executor.py and the tools these start in the pod).                *)
(*                                                                         *)
(* One executor runs at a time.  Triage and placement edit an installed    *)
(* file, run a service proof as a child process and judge its result.  A   *)
(* service lives on in the pod between executors, with the files it loaded *)
(* when it was launched; it may die at any moment, and so may an executor. *)
(*                                                                         *)
(* Data that is abstracted: a log is the launch that wrote it, a file is   *)
(* its text as installed or with the edit, evidence files are the facts a  *)
(* result states.                                                          *)
(***************************************************************************)
EXTENDS Naturals, FiniteSets

CONSTANTS
  MaxLaunches,   \* bound: services launched
  MaxRuns,       \* bound: executors started
  MaxLost,       \* bound: commands that do not reach the pod
  MaxKills       \* bound: executors that are killed

ASSUME BoundAssumption == {MaxLaunches, MaxRuns, MaxLost, MaxKills} \subseteq Nat

VARIABLES
  pod,        \* whether it exists, is ready and has the runtime
  files,      \* the two installed files the executors edit
  services,   \* the process trees in the pod
  logs,       \* the log files in the pod
  trace,      \* the launch of the newest captured failure, 0 for none
  proof,      \* the running proof
  executor,   \* what runs the proof
  status,     \* the newest formal result of each kind of executor
  count       \* launches, runs, lost commands and kills so far

vars == <<pod, files, services, logs, trace, proof, executor, status, count>>

-----------------------------------------------------------------------------
(* States *)

Phases == {"environment", "service", "all"}

Models == {"base", "target"}

(* Which model the contract of a phase names. *)
ModelOf(phase) == IF phase = "environment" THEN "base" ELSE "target"

(* kunlun_attn.py, which triage instruments, and __init__.py, which carries the patch. *)
Files == {"attention", "plugin"}

NoProof == [step |-> "none", phase |-> "none", attached |-> FALSE, path |-> 0,
            health |-> 0, chat |-> 0, served |-> "none", loaded |-> {}, log |-> 0]

NoResult == [state |-> "none", model |-> "none", served |-> "none", loaded |-> {},
             health |-> 0, chat |-> 0, log |-> 0]

Resting == [kind |-> "none", step |-> "none", server |-> NoResult,
            captured |-> 0, replay |-> "none", spoiled |-> FALSE]

Init ==
  /\ pod = [exists |-> FALSE, ready |-> FALSE, runtime |-> FALSE]
  /\ files = [f \in Files |-> [text |-> "installed", backup |-> "none"]]
  /\ services = {} /\ logs = {} /\ trace = 0
  /\ proof = NoProof /\ executor = Resting
  /\ status = [proof |-> NoResult, triage |-> "none", patch |-> "none", pod |-> FALSE]
  /\ count = [launches |-> 0, runs |-> 0, lost |-> 0, kills |-> 0]

Edited == {f \in Files : files[f].text = "edited"}

(* An API server answers while its process is there, with or without an engine behind it. *)
Answering == {s \in services : s.state \in {"up", "hollow"}}

(* pgrep finds the API server, not the workers it leaves behind. *)
Alive == {s \in services : s.state # "orphaned"}

(* A command reaches the pod, or kubectl fails and nothing has happened. *)
Reaches(ok) ==
  \/ ok /\ UNCHANGED count
  \/ ~ok /\ count.lost < MaxLost /\ count' = [count EXCEPT !.lost = @ + 1]

(* What becomes of a tool that edits a file: it exits with 0 although kubectl failed *)
(* (in_pod reads no return code), and with an error when no answer came in time,     *)
(* whether or not the file is edited by then.                                        *)
Outcomes == [done : BOOLEAN, answered : BOOLEAN]

Heard(outcome) == Reaches(outcome.done /\ outcome.answered)

At(step) == proof.step = step

Goto(step) == proof' = [proof EXCEPT !.step = step]

-----------------------------------------------------------------------------
(* Edits of installed files *)

(* Defect: every edit makes a backup of what it finds. *)
BugBackedUp(f) == files[f].text

(* The first edit copies the file beside itself; a later one keeps that copy. *)
BackedUp(f) == IF files[f].backup = "none" THEN files[f].text ELSE files[f].backup

(* Neither tool edits a file that carries its edit. *)
Edit(f) == files' = [files EXCEPT ![f] = [text |-> "edited", backup |-> BackedUp(f)]]

(* The copy is moved back; without one the file stays as it is. *)
Restore(f) ==
  files' = IF files[f].backup = "none" THEN files
           ELSE [files EXCEPT ![f] = [text |-> files[f].backup, backup |-> "none"]]

-----------------------------------------------------------------------------
(* Logs in the pod *)

(* Defect: one fixed name for the log before. *)
BugNextFree(path, kind) == 1

(* Names are taken in order and none is ever removed. *)
NextFree(path, kind) ==
  1 + Cardinality({g \in logs : g.path = path /\ g.kind = kind})

Live(path) == {g \in logs : g.path = path /\ g.kind = "live"}

(* cp of the live log, if there is one, to a name of the given kind. *)
Archived(path, kind) ==
  LET n == NextFree(path, kind)
  IN  IF Live(path) = {} THEN logs
      ELSE {g \in logs : ~(g.path = path /\ g.kind = kind /\ g.n = n)}
           \cup {[path |-> path, kind |-> kind, n |-> n, of |-> g.of] : g \in Live(path)}

(* The launch redirects into its path, which truncates what is there. *)
Truncated(path, launch) ==
  (Archived(path, "prev") \ Live(path))
  \cup {[path |-> path, kind |-> "live", n |-> 0, of |-> launch]}

LogOf(path) == IF Live(path) = {} THEN 0 ELSE (CHOOSE g \in Live(path) : TRUE).of

-----------------------------------------------------------------------------
(* The end of a proof *)

Result(state, log) ==
  [state |-> state, model |-> ModelOf(proof.phase), served |-> proof.served,
   loaded |-> proof.loaded, health |-> proof.health, chat |-> proof.chat, log |-> log]

(* A proof of its own leaves its result; a child's goes to the executor that started it. *)
Ends(state, log) ==
  /\ proof' = NoProof
  /\ IF executor.kind = "proof"
     THEN /\ status' = [status EXCEPT !.proof = Result(state, log),
                                      !.pod = @ \/ state = "ENVIRONMENT_READY"]
          /\ executor' = Resting
     ELSE /\ executor' = [executor EXCEPT !.server = Result(state, log), !.step = "judge"]
          /\ UNCHANGED status

(* An action fails: the evidence stays, and so does the pod. *)
Fails(state) == Ends(state, proof.log)

Quiet == UNCHANGED <<executor, status>>

-----------------------------------------------------------------------------
(* The proof up to the launch *)

Started(phase, attached, path) ==
  proof' = [NoProof EXCEPT !.step = "attach", !.phase = phase, !.attached = attached,
                           !.path = path]

(* cli/deployment/proof.py; the graph attaches the service phase to the proven pod. *)
RunProof(phase) ==
  /\ executor = Resting /\ count.runs < MaxRuns
  /\ phase = "service" => status.pod
  /\ count' = [count EXCEPT !.runs = @ + 1]
  /\ executor' = [Resting EXCEPT !.kind = "proof"]
  /\ Started(phase, pod.exists, 0)
  /\ UNCHANGED <<pod, files, services, logs, trace, status>>

(* What an environment proof finds; a service proof is given the proven pod. *)
FoundPod == proof.attached

(* The pod of an earlier proof is imported when it is ready, and retained when it is not. *)
AttachPod ==
  /\ At("attach") /\ FoundPod
  /\ \/ /\ pod.ready /\ Quiet
        /\ Goto(IF proof.phase = "service" THEN "probe" ELSE "installed?")
     \/ ~pod.ready /\ Fails("NEEDS_HUMAN")
  /\ UNCHANGED <<pod, files, services, logs, trace, count>>

(* The manifest is applied, and the pod becomes ready in time or it does not. *)
CreatePod ==
  /\ At("attach") /\ ~FoundPod
  /\ \E ready \in BOOLEAN :
       /\ pod' = [pod EXCEPT !.exists = TRUE, !.ready = ready]
       /\ IF ready THEN Goto("install") /\ Quiet ELSE Fails("READINESS_TIMEOUT")
  /\ UNCHANGED <<files, services, logs, trace, count>>

AfterInstall == IF proof.phase = "environment" THEN "identity" ELSE "probe"

(* Defect: an attached pod is always installed. *)
BugRuntimeFound(reached) == FALSE

(* The import and the worktree answer, if the command gets there at all. *)
RuntimeFound(reached) == pod.runtime /\ reached

RuntimeInstalled ==
  /\ At("installed?")
  /\ \E reached \in BOOLEAN :
       /\ Reaches(reached)
       /\ Goto(IF RuntimeFound(reached) THEN AfterInstall ELSE "install")
  /\ Quiet /\ UNCHANGED <<pod, files, services, logs, trace>>

(* The installer writes the package's files anew; copies beside them stay. *)
InstallRuntime ==
  /\ At("install")
  /\ \/ pod' = [pod EXCEPT !.runtime = TRUE] /\ Goto(AfterInstall) /\ Quiet
     \/ pod' = [pod EXCEPT !.runtime = FALSE] /\ Fails("INSTALL_FAILED")
  /\ files' = [f \in Files |-> [files[f] EXCEPT !.text = "installed"]]
  /\ UNCHANGED <<services, logs, trace, count>>

(* What else the import check reads: the worktree and the devices. *)
NotReady == {"CODE_NOT_READY", "DEVICE_NOT_READY"}

VerifyImport ==
  /\ At("identity")
  /\ \/ Goto("model") /\ Quiet
     \/ \E state \in {"INSTALL_FAILED"} \cup NotReady : Fails(state)
  /\ UNCHANGED <<pod, files, services, logs, trace, count>>

DiscoverBaseModel ==
  /\ At("model")
  /\ \/ Goto("clear") /\ Quiet
     \/ Fails("MODEL_NOT_FOUND")
  /\ UNCHANGED <<pod, files, services, logs, trace, count>>

(* The process tree is killed, or what survives is left to a human; commands that   *)
(* do not get there kill nothing, and no output is taken for the absence of survivors. *)
Cleanup(next, reached) ==
  \/ reached /\ services' = {} /\ Goto(next) /\ Quiet
  \/ /\ reached /\ services # {}
     /\ services' = {[s EXCEPT !.state = "orphaned"] : s \in services}
     /\ Fails("NEEDS_HUMAN")
  \/ ~reached /\ Goto(next) /\ Quiet /\ UNCHANGED services

(* cleanup_service_processes(skip_if_healthy) of the environment phase. *)
ClearUnlessHealthy ==
  /\ At("clear")
  /\ \/ /\ proof.attached /\ Answering # {}
        /\ Goto("probe") /\ Quiet /\ UNCHANGED <<services, count>>
     \/ /\ ~proof.attached \/ {s \in services : s.state = "up"} = {}
        /\ \E reached \in BOOLEAN : Reaches(reached) /\ Cleanup("probe", reached)
  /\ UNCHANGED <<pod, files, logs, trace>>

(* Defect: whatever serves is taken for the model of the contract. *)
BugServesTargetModel(s) == TRUE

(* _serves_target_model: the name in /v1/models is the contract's. *)
ServesTargetModel(s) == s.model = ModelOf(proof.phase)

(* start_server asks what serves; what the phase does next depends on it. *)
StartServer ==
  /\ At("probe")
  /\ \E reached, killed \in BOOLEAN :
       /\ Reaches(reached /\ killed)
       /\ LET serving == IF reached /\ proof.attached THEN Answering ELSE {}
          IN  \/ /\ \E s \in serving : ServesTargetModel(s)
                 /\ killed /\ Goto("health") /\ Quiet /\ UNCHANGED services
              \/ /\ ~ \E s \in serving : ServesTargetModel(s)
                 /\ IF proof.phase # "environment" THEN Cleanup("toy", killed)
                    ELSE IF serving # {} THEN Cleanup("launch", killed)
                    ELSE killed /\ Goto("launch") /\ Quiet /\ UNCHANGED services
  /\ UNCHANGED <<pod, files, logs, trace>>

(* The probe reports nothing usable; or the target's configuration cannot be used. *)
ProbeFailures == {"NEEDS_HUMAN", "CONTRACT_INVALID"}

(* A few layers with dummy weights, before the target's weights are paid for. *)
ToyBringup ==
  /\ At("toy")
  /\ \/ Goto("launch") /\ Quiet
     \/ \E state \in {"BRINGUP_BLOCKED"} \cup ProbeFailures : Fails(state)
  /\ UNCHANGED <<pod, files, services, logs, trace, count>>

(* The log before is put aside, then the service starts with the files as they are. *)
Launch ==
  /\ At("launch")
  /\ LET id == count.launches + 1 IN
       \/ /\ id <= MaxLaunches
          /\ count' = [count EXCEPT !.launches = id]
          /\ logs' = Truncated(proof.path, id)
          /\ services' = services \cup
               {[launch |-> id, model |-> ModelOf(proof.phase), loaded |-> Edited,
                 state |-> "loading"]}
          /\ Goto("health") /\ Quiet
       \/ Fails("SERVER_START_FAILED") /\ UNCHANGED <<services, logs, count>>
  /\ UNCHANGED <<pod, files, trace>>

-----------------------------------------------------------------------------
(* The proof from the launch on *)

Crashed == logs' = Archived(proof.path, "crash")

(* Defect: the wait has no deadline. *)
BugDeadlinePasses == FALSE

(* The deadline of the contract passes, whatever the service does. *)
DeadlinePasses == Fails("READINESS_TIMEOUT") /\ UNCHANGED logs

PollHealth ==
  /\ At("health")
  /\ \/ \E s \in Answering :
          /\ proof' = [proof EXCEPT !.step = "chat", !.health = s.launch,
                                    !.served = s.model, !.loaded = s.loaded]
          /\ Quiet /\ UNCHANGED logs
     \/ Alive = {} /\ Crashed /\ Fails("SERVER_START_FAILED")
     \/ DeadlinePasses
  /\ UNCHANGED <<pod, files, services, trace, count>>

Becomes(s, state) == services' = (services \ {s}) \cup {[s EXCEPT !.state = state]}

(* A failing call of the instrumented kernel appends its arguments; other crashes do not. *)
MayCapture(s) ==
  trace' \in {trace} \cup (IF "attention" \in s.loaded THEN {s.launch} ELSE {})

(* The request, which names the contract's model, is answered, breaks the engine or fails. *)
ChatSmoke ==
  /\ At("chat")
  /\ \/ \E s \in services :
          /\ s.state = "up" /\ s.model = ModelOf(proof.phase)
          /\ proof' = [proof EXCEPT !.step = "backend", !.chat = s.launch,
                                    !.loaded = s.loaded]
          /\ Quiet /\ UNCHANGED <<services, trace, logs>>
     \/ \E s \in services :
          /\ s.state = "up" /\ s.model = ModelOf(proof.phase)
          /\ Becomes(s, "hollow")
          /\ MayCapture(s) /\ Crashed /\ Fails("API_SMOKE_FAILED")
     \/ /\ \A s \in services : ~(s.state = "up" /\ s.model = ModelOf(proof.phase))
        /\ Crashed /\ Fails("API_SMOKE_FAILED") /\ UNCHANGED <<services, trace>>
  /\ UNCHANGED <<pod, files, count>>

(* The log at the proof's path names the backend, and no fallback, or the proof fails. *)
VerifyBackend ==
  /\ At("backend")
  /\ LET log == LogOf(proof.path) IN
       \/ /\ log # 0 /\ proof.phase = "environment"
          /\ proof' = [proof EXCEPT !.step = "free", !.log = log] /\ Quiet
       \/ log # 0 /\ proof.phase # "environment" /\ Ends("DEPLOYMENT_READY", log)
       \/ Ends("UNEXPECTED_FALLBACK", log)
  /\ UNCHANGED <<pod, files, services, logs, trace, count>>

(* The base service gives its memory back before the environment counts as ready. *)
FreeCards ==
  /\ At("free")
  /\ \E reached \in BOOLEAN :
       /\ Reaches(reached)
       /\ \/ reached /\ services' = {} /\ Ends("ENVIRONMENT_READY", proof.log)
          \/ /\ reached /\ services # {}
             /\ services' = {[s EXCEPT !.state = "orphaned"] : s \in services}
             /\ Fails("NEEDS_HUMAN")
          \/ ~reached /\ Ends("ENVIRONMENT_READY", proof.log) /\ UNCHANGED services
  /\ UNCHANGED <<pod, files, logs, trace>>

(* A command does not come back in time. *)
StepTimesOut ==
  /\ proof.step \notin {"none", "install"}
  /\ Fails("NEEDS_HUMAN")
  /\ UNCHANGED <<pod, files, services, logs, trace, count>>

ProofStep ==
  \/ AttachPod \/ CreatePod \/ RuntimeInstalled \/ InstallRuntime \/ VerifyImport
  \/ DiscoverBaseModel \/ ClearUnlessHealthy \/ StartServer \/ ToyBringup \/ Launch
  \/ PollHealth \/ ChatSmoke \/ VerifyBackend \/ FreeCards

-----------------------------------------------------------------------------
(* Failure triage *)

(* The graph goes to triage from a service proof that failed. *)
RunTriage ==
  /\ executor = Resting /\ count.runs < MaxRuns
  /\ status.pod /\ status.proof.model = "target" /\ status.proof.state # "DEPLOYMENT_READY"
  /\ count' = [count EXCEPT !.runs = @ + 1]
  /\ executor' = [Resting EXCEPT !.kind = "triage", !.step = "edit"]
  /\ UNCHANGED <<pod, files, services, logs, trace, proof, status>>

Doing(kind, step) == executor.kind = kind /\ executor.step = step

(* The child proof runs in the pod of its parent. *)
Rerun(path) == Started("service", TRUE, path)

(* Stamped, so that the log which triage explains is not truncated. *)
RerunLog == count.runs

(* The call site is wrapped, then the service proof reruns with a log path of its own; *)
(* how the tool ended is only noted.                                                   *)
Instrument ==
  /\ Doing("triage", "edit")
  /\ \E outcome \in Outcomes :
       /\ Heard(outcome)
       /\ IF outcome.done THEN Edit("attention") ELSE UNCHANGED files
       /\ executor' = [executor EXCEPT !.step = "rerun", !.spoiled = ~outcome.done]
  /\ Rerun(RerunLog)
  /\ UNCHANGED <<pod, services, logs, trace, status>>

(* The newest captured arguments are replayed in isolation, whatever the proof said. *)
Replay ==
  /\ Doing("triage", "judge")
  /\ \E reached \in BOOLEAN, replay \in {"fails", "passes", "none"} :
       /\ Reaches(reached)
       /\ executor' = [executor EXCEPT !.step = "undo", !.captured = IF reached THEN trace ELSE 0,
                                       !.replay = replay]
  /\ UNCHANGED <<pod, files, services, logs, trace, proof, status>>

(* No attribution without captured arguments and an isolated case that ran. *)
Verdict ==
  CASE executor.captured = 0 \/ executor.replay = "none" -> "TRIAGE_FAILED"
    [] OTHER -> IF executor.replay = "fails" THEN "VENDOR_KERNEL_GAP"
                ELSE "RUNTIME_STATE_DEPENDENT"

(* finally: the file goes back before anything is reported, if the tool gets there. *)
RestoreAndReport ==
  /\ Doing("triage", "undo")
  /\ \E outcome \in Outcomes :
       /\ Heard(outcome)
       /\ IF outcome.done THEN Restore("attention") ELSE UNCHANGED files
  /\ status' = [status EXCEPT !.triage = Verdict]
  /\ executor' = Resting
  /\ UNCHANGED <<pod, services, logs, trace, proof>>

-----------------------------------------------------------------------------
(* Patch placement *)

(* The graph goes on to placement from a triage that reached a verdict. *)
RunPatch ==
  /\ executor = Resting /\ count.runs < MaxRuns
  /\ status.triage \notin {"none", "TRIAGE_FAILED"}
  /\ count' = [count EXCEPT !.runs = @ + 1]
  /\ executor' = [Resting EXCEPT !.kind = "patch", !.step = "edit"]
  /\ UNCHANGED <<pod, files, services, logs, trace, proof, status>>

(* The hook is appended, then the service proof reruns with the contract's log path.   *)
(* A tool that exits with an error raises before there is anything to undo: the        *)
(* placement is rejected with neither rerun nor removal, whatever became of the file.  *)
ApplyPatch ==
  /\ Doing("patch", "edit")
  /\ \E outcome \in Outcomes :
       /\ Heard(outcome)
       /\ IF outcome.done THEN Edit("plugin") ELSE UNCHANGED files
       /\ IF outcome.answered
          THEN /\ executor' = [executor EXCEPT !.step = "rerun", !.spoiled = ~outcome.done]
               /\ Rerun(0) /\ UNCHANGED status
          ELSE /\ status' = [status EXCEPT !.patch = "PATCH_REJECTED"]
               /\ executor' = Resting /\ UNCHANGED proof
  /\ UNCHANGED <<pod, services, logs, trace>>

(* A proof with the patch in place, the failure without it, and equal numbers. *)
Places(compared) == executor.server.state = "DEPLOYMENT_READY" /\ compared

(* compared: the failure was reproduced and the fallback agrees with the vendor's kernel. *)
JudgePatch ==
  /\ Doing("patch", "judge")
  /\ \E compared \in BOOLEAN :
       IF Places(compared)
       THEN status' = [status EXCEPT !.patch = "PATCH_PLACED"] /\ executor' = Resting
       ELSE executor' = [executor EXCEPT !.step = "undo"] /\ UNCHANGED status
  /\ UNCHANGED <<pod, files, services, logs, trace, proof, count>>

(* Once the patch is applied, to reject is to remove it first, as far as the tool gets: *)
(* how it ended is not looked at.                                                       *)
RemovePatch ==
  /\ Doing("patch", "undo")
  /\ \E outcome \in Outcomes :
       /\ Heard(outcome)
       /\ IF outcome.done THEN Restore("plugin") ELSE UNCHANGED files
  /\ status' = [status EXCEPT !.patch = "PATCH_REJECTED"]
  /\ executor' = Resting
  /\ UNCHANGED <<pod, services, logs, trace, proof>>

ExecutorStep ==
  \/ Instrument \/ Replay \/ RestoreAndReport
  \/ ApplyPatch \/ JudgePatch \/ RemovePatch

-----------------------------------------------------------------------------
(* What happens to services and executors *)

(* A service comes up alone: the port and the memory are for one. *)
ComesUp(s) ==
  /\ s.state = "loading" /\ services = {s}
  /\ Becomes(s, "up")
  /\ UNCHANGED <<pod, files, logs, trace, proof, executor, status, count>>

(* It dies: the engine alone, the server with its workers, or the server without them. *)
Dies(s) ==
  /\ s.state # "orphaned"
  /\ \/ s.state = "up" /\ Becomes(s, "hollow") /\ MayCapture(s)
     \/ (Becomes(s, "orphaned") \/ services' = services \ {s})
        /\ IF s.state = "loading" THEN MayCapture(s) ELSE UNCHANGED trace
  /\ UNCHANGED <<pod, files, logs, proof, executor, status, count>>

(* An executor is killed with its child. *)
Kill ==
  /\ executor # Resting /\ count.kills < MaxKills
  /\ count' = [count EXCEPT !.kills = @ + 1]
  /\ executor' = Resting /\ proof' = NoProof
  /\ UNCHANGED <<pod, files, services, logs, trace, status>>

(* A child that leaves no status is an error of its parent, which undoes its edit. *)
ChildDies ==
  /\ executor.kind # "proof" /\ proof # NoProof /\ count.kills < MaxKills
  /\ count' = [count EXCEPT !.kills = @ + 1]
  /\ executor' = [executor EXCEPT !.step = "undo"] /\ proof' = NoProof
  /\ UNCHANGED <<pod, files, services, logs, trace, status>>

Next ==
  \/ \E phase \in Phases : RunProof(phase)
  \/ RunTriage \/ RunPatch
  \/ ProofStep \/ StepTimesOut \/ ExecutorStep
  \/ \E s \in services : ComesUp(s) \/ Dies(s)
  \/ Kill \/ ChildDies

(* An executor that runs goes on; nothing is assumed of the services. *)
Fairness == WF_vars(ProofStep) /\ WF_vars(ExecutorStep)

Spec == Init /\ [][Next]_vars /\ Fairness

-----------------------------------------------------------------------------
(* Properties *)

(* The installed file that an executor edits. *)
FileOf(kind) == IF kind = "triage" THEN "attention" ELSE "plugin"

(* However often a service is launched again, under whichever path and by  *)
(* whichever executor, what each launch wrote is still in some log file of *)
(* the pod (archive_before_truncate, archive_crash_remote).                *)
NoLogIsLost == \A l \in 1..count.launches : \E g \in logs : g.of = l

(* What an executor that was not killed leaves of its edit, also after an  *)
(* earlier one was killed over it.  A triage leaves kunlun_attn.py as it   *)
(* was installed, and a placement leaves the patch exactly when it says    *)
(* PATCH_PLACED (the finally of _triage, the removals of _place).  There   *)
(* are three exceptions, each a tool that got no answer or nowhere: the    *)
(* last command of the executor was such a one (a removal, a restore, or   *)
(* the apply that raises at once, patch_executor.py:205), or the apply     *)
(* exited with 0 and PATCH_PLACED stands without the patch.  Even then     *)
(* what stays edited has the installed text beside it (.kdp_backup), for   *)
(* the next removal or restore to bring back.                              *)
EditsFollowVerdicts ==
  [][executor.kind \in {"triage", "patch"} /\ executor' = Resting
       /\ count'.kills = count.kills
     => LET edited == files'[FileOf(executor.kind)].text = "edited"
        IN  /\ count'.lost = count.lost =>
                 IF executor.kind = "triage" \/ status'.patch = "PATCH_REJECTED"
                 THEN ~edited
                 ELSE edited \/ executor.spoiled
            /\ edited => files'[FileOf(executor.kind)].backup = "installed"]_vars

(* As long as every command reaches the pod, the service whose health      *)
(* counts is of the contract's model: never the base service an earlier    *)
(* proof left behind, which would answer 200 and then fail the target's    *)
(* request, nor the target's in an environment proof (start_server,        *)
(* _serves_target_model).                                                  *)
JudgesItsOwnModel ==
  proof.health # 0 /\ count.lost = 0 => proof.served = ModelOf(proof.phase)

(* As long as every command reaches the pod, the runtime is never          *)
(* installed anew under a service that answers, whose processes would      *)
(* import the replaced files (_runtime_already_installed).                 *)
ServingIsNotReinstalled ==
  [][At("install") /\ <<files, pod>>' # <<files, pod>>
     => count.lost > 0 \/ Answering = {}]_vars

(* Every executor ends or is killed, also over a service that never comes  *)
(* up and never dies (the deadlines of poll_health and of the commands).   *)
ExecutorsEnd == executor # Resting ~> executor = Resting

=============================================================================
