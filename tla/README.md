# A formal model of infer-forge-harness

The harness adapts a model to an accelerator: it finds out what the model needs,
proves an environment and a service in a pod, finds the operators that need work,
drives each of them through three stages (torch reference, xpu kernel,
integration) with workers that may be slow, die or be wrong, and delivers a
receipt. This directory holds TLA+ modules for the parts of it that coordinate
or decide, TLC configurations that check them on small instances, and proofs
checked by TLAPS.

## Inventory

| Component (source) | State it keeps | Operations | Interacts with |
|---|---|---|---|
| Task scheduler, event store (`engine/scheduler.py`, `engine/contracts.py`) | SQLite tables `runs`, `operators`, `tasks`, `events` | create run, bind / fail environment, graph transition, discover, claim, renew, complete, fail, apply diagnosis, recover, reconcile | workers and the main agent call it, from several processes or threads over one file; writes attempt directories |
| Result gate (`engine/result_validation.py`) | none | `validate_result` | called by `complete` and `reconcile` |
| Attempt directories (`core/storage.py`) | `run.json`, `attempts/NNNNNN`, `manifest.json` | initialize, allocate, register, locate | scheduler, graph runner, executors |
| Bridge (`engine/graph_bridge.py`) | receipts, evidence hashes in run metadata | bind from a proof node, ingest discoveries, snapshot the gate, deliver | graph runner and scheduler |
| Graph runner (`runners/graph_runner.py`, `workflows/`) | journal, visits, node results | walk, resume, reuse, run node, fan out and in | bridge, executors, recovery |
| Recovery and brains (`engine/recovery.py`, `engine/brain.py`) | budget, history, decision files | decide, act, rerun | graph runner |
| Journal and task memory (`engine/state/`) | append-only JSON lines; one JSON document | append, query; load, change, save | graph runner, executors |
| Deployment proof (`runners/deployment_proof.py`) | pod, services in it, their logs, status file | environment, bring-up and service phases | pod, through the adapter |
| Executors (`runners/triage_executor.py`, `patch_executor.py`, `correctness_executor.py`, `task_runner.py`) | edited files in the pod, tensors, status files | triage, place a patch, grade kernels and answers | deployment proof as a child, task memory |
| Operator handoff (`operations/operators/`) | registry, requests, baseline, decision | scan shims, dispatch, freeze, decide | without a scheduler: files that are used again; with one: the bridge |
| Vendor handoff (`operations/operators/vendor_handoff.py`, `validators/handoff_validator.py`) | tickets, packages | draft, route, validate | triage reports, a document people write |
| Model intake and discovery (`operations/discovery/`, its probes) | request, scan, match, classification | one tool each | pod, upstream, checkpoint |
| Capability evaluation, conformance (`operations/validation/`) | probe reports, verdicts | list, child, fan in | graph runner, pod |
| Deployment plan, memory budget (`operations/deployment/`) | plan, snapshot, budget | plan, reconcile | pod, log of the service |
| Accuracy, support matrix (`operations/validation/accuracy_differential.py`, the matrix tool) | differential, one matrix file | compare, build entry, write | deployments, several updates |
| Validators (`validators/`) | verdict beside each document | one per document | the tools above |
| Watch, evidence (`runners/watch.py`, `evidence.py`) | none | poll, collect, archive logs | adapter |
| Progress (`engine/progress.py`) | none | project rows and events | scheduler tables |
| Discovery contract (`engine/discovery.py`) | none | validate packages | bridge |
| Adapter, runtimes, command line, device tools, docs | none of their own | command building, tensor code | |

What is hard in it:

* **Leases against the clock.** `claim_ready`, `recover`, `renew_lease`,
  `complete` and `fail` compare one deadline with `time.time()` at different
  moments; a late answer, a second claim and a forced recovery race.
* **Rows roll back, files do not.** An attempt directory and its manifest are
  written inside a database transaction that may still die or be refused.
* **Diagnosis rows are recycled.** A stage that fails again reopens its old
  diagnosis row; a conclusion is applied later, by another process.
* **The environment moves.** It may fail or be bound again while rows are
  queued, claimed or submitted, and while another walk is on its way to a receipt.
* **Everything waits for someone.** Lapsed leases are noticed by the next claim
  only, failed stages wait for a diagnosis and for the main agent to apply it.
* **Three stores, no common transaction.** A delivery rests on the database, the
  journal and evidence files, which change at different moments.
* **The pod remembers.** Services, their logs, edited files and dumped tensors
  outlive the executor that made them; the next one meets them.
* **Documents are read later than they are true.** A report of a pod, an upstream or a
  service is used by the next tool after its subject has changed.

`PROJECT.json` lists the hazards one by one, with the properties that cover
them or the reason why none does.

## What makes each component correct

* Scheduler: a row is decided only by its current lease; attempts count claims;
  a stage exists exactly when its predecessor succeeded; a diagnosis is about
  the failure its source is in; a retry consumes it; one environment per run;
  decided stages stay decided; queued work is eventually decided.
* Attempt directories: one claim per directory, none is written by another
  claim, an accepted row's directory holds a PASS manifest; concurrent
  launchers agree on the run identity.
* Bridge: a receipt is of one environment, covers every reported operator, and its
  regressions ran after all of them; what is delivered is what the receipt says at that moment;
  a walk that is resumed often enough delivers.
* Graph runner: only results of the current environment are reused; a walk that
  ends says why; loops are bounded; a fan-out passes only if every child did.
* Recovery: never more actions than the budget; every decision is one the
  catalogue allows; the loop ends.
* Pod executors: no log is lost, edits are undone or are what the verdict says or can be undone later, nobody is judged by
  another contract's service, nothing is installed under a running service, every executor ends.
* Tools: a verdict rests on evidence of its own subject; what was not seen is
  not claimed; what is refused reaches nobody; nothing is lost between a report and its recipient.

## Modules

| Module | Contents |
|---|---|
| `TaskScheduler` | the scheduler with the result gate and attempt directories, one run |
| `OperatorPipeline` | what the scheduler promises about each operator: the abstract specification |
| `LegacyReconcile` | the scheduler over a database an older version also wrote, with `reconcile` |
| `RunDirectory` | `run.json` and attempt directories under concurrent launchers, one file-system call per step |
| `RunIdentity` | what run directories promise to their launchers: the abstract specification |
| `Recovery` | the budgeted recovery of one failed node, with a rule, a command or an outside agent as its brain |
| `GraphWalk` | the walk over a workflow and the journal of facts it reuses, without a scheduler |
| `GraphDelivery` | the walk of a scheduled run: bridge, regressions, delivery, beside workers and other walks |
| `PodProofs` | deployment proof, failure triage and patch placement in one pod |
| `OperatorHandoff`, `OperatorCandidates` | operators without a scheduler: shims and their requests; baseline and decision |
| `VendorHandoff` | tickets and packages of findings |
| `CorrectnessGrading` | the three correctness gates and the tensors they leave in the pod |
| `SupportClaims` | the accuracy differential and the support matrix |
| `ModelDiscovery` | intake, scan, match and classification of a model |
| `CapabilityEvaluation` | the fan-out over dimensions and the parsers' conformance |
| `DeploymentBudget` | the plan's arithmetic and the memory budget of a service |
| `MCTaskScheduler`, `MCLegacyReconcile`, `MCGraphWalk`, `MCGraphDelivery`, `MCTools` | symmetry, bounds, workflow and inputs for TLC |
| `TaskScheduler_proofs` | type correctness and the safety theorems of the scheduler: leases, diagnoses, edges, attempt directories, the environment; it implements `OperatorPipeline` |
| `LegacyReconcile_proofs` | what reconcile makes of an older database |
| `RunDirectory_proofs` | the theorems about run directories, the refinement of `RunIdentity` among them |
| `Recovery_proofs` | type correctness and the safety invariants of the recovery |
| `GraphWalk_proofs` | type correctness of the walk, what it reuses and what it delivers |
| `GraphDelivery_proofs` | the theorems about delivery receipts |
| `PodProofs_proofs` | logs, edited files and services of the pod |
| `Tools_proofs` | the safety theorems of the tools, as `MCTools` puts them together |

### How `TaskScheduler` corresponds to the code

| Variable | Code |
|---|---|
| `run` | the row of `runs`: evidence mode, `environment_required`, `graph_environment_required`, whether it has an `artifact_root`, `status`, the fingerprint of the bound proof |
| `tasks` | table `tasks`; a row per operator, stage and, for diagnoses, source task. Columns the program never reads again are left out |
| `inserted` | orders `created_at` |
| `claimed` | the `task_claimed` events of a row, as their workers |
| `applied` | the `diagnosis_applied` events of a row, as pairs of source and diagnosis attempt |
| `disk` | for every attempt directory of a row, `open` or the outcome in its manifest |

Each public mutating method runs under `BEGIN IMMEDIATE`, so it is one action of
the same name. A call that raises rolls back and changes nothing: its
conditions are guards. `complete` covers the gate, the acceptance with the next
stage's row, and the rejection with the diagnosis row, as the code nests them.
`ClaimAborted` and `SubmissionAborted` are the transactions that die, or are
refused at the second lease check, after they touched the disk.

Abstractions:

* An operator specification is a name and the environment fingerprint it
  references; `operator_key` is a digest of both, so rows are indexed by the pair.
* A deadline is its distance from now; `Tick` moves all deadlines closer. Zero
  is "lapsed": the code compares with `<=`.
* A token is the ordinal of the claim of its row. Tokens of `secrets` differ
  from each other; the ordinals of one row do too, and a caller can present only
  a token it got from a claim.
* The gate's checks of formats, files and hashes are the verdict `FAIL`. What
  the properties tell apart is kept: the attempt, the attempt directory the
  evidence lies in, the fingerprint, the author of the validation report and
  the next action of a diagnosis.
* The branch of `claim_ready` for real runs without an artifact root is left out: `create_run` makes none.
* One run. `claim_ready` and `recover` work on the rows of every run in the
  database and treat each by its own run's state, so rows of other runs only
  take places under `limit`.
* Databases written by earlier versions, and `reconcile`, which repairs them,
  are in `LegacyReconcile`.

### How `LegacyReconcile` corresponds to the code

`InterruptedClaim`, `InterruptedComplete` and `InterruptedFail` leave behind what
`docs/migration/worker-results.md` says the version without transactions could:
a claim whose event is missing or names no attempt, an accepted stage without
its successor and without the name of its producer, a failed stage without a
diagnosis. After `Upgrade` only this version runs. `Reconcile` is one call of
`reconcile`, which goes over the rows in the order of their creation in one
transaction; `Producer` is its inference of who produced a result from the events.

### How `RunDirectory` corresponds to the code

One launcher is one `RunPaths` object in one process; `pc` says which file-system
call it makes next. `look` is the `exists` of `run.json` (its reading follows at once,
and the file never changes once it is there), `link` is `os.link`, `unlink` and
`refuse` are the `finally` clauses of the nested calls of `initialize` that return or raise,
`mkdir`, `fill` and `mark` are the steps of `allocate_attempt`. Creating, writing and
syncing the pending file is one step: nobody else knows its name. `Die` is a kill
between two calls. `made`, `filled` and `marks` are sets of files with their
contents. `Located` is `locate_attempt` reduced to its three answers.

### How `Recovery` corresponds to the code

The controller is one thread; `pc` says where it is: about to ask its brain
(`decide`), waiting for a response file or a command (`wait`), reading it (`read`), acting
(`act`), rerunning the node (`rerun`), done (`ended`) or left by an exception
(`raised`). `requests` are the attempt directories of the recovery, each with
the request, the response file and the outcome its manifest registers.

* `Write` is the world outside: it may write an incomplete or refused answer
  first, answer an old request, or never answer. `TimeOut` needs no guard, since the
  last poll may precede the file.
* `AgentBrain` asks a command that fails or hangs, and any decider whose
  answer is refused, a second time; an agent that does not answer in time
  blocks at once.
* `RuleBrain` reads only the failure in the request, which is the one of the
  first run through the whole recovery, so its answer is one value, `rule`.
* A decision's parameters are reduced to whether they replace a managed path.
* `Raise` is an exception that leaves the loop: a path that the write policy does not allow for a request, an
  answer or a rerun, or a command that cannot be started.
* An action is a command that completes or raises; what it changes
  outside is not the controller's to know.

### How `GraphWalk` corresponds to the code

A walk is one process: `Start` is the beginning of `_run`, which binds the environment
of the newest valid proof; `pc` is `at` the top of the loop for `current`, `running` its
commands, `failed` between a failure and the edge it takes. `request` is the command line.

* `journal` keeps of every node and environment the newest fact only, in the order of
  the file: `latest` takes the newest before it looks at its state, so an older
  fact is never read again. `rests` is for the properties: the needs that the fact was
  made from and that nothing has replaced since.
* `Usable`, `Verified` and `Current` are `reusable_fact` without and with the method,
  and `reusable_inputs_current`. They are sets of positions with at most one element.
  `Current` carries the kinds already met, as the code does: a plan and
  the patch that needs it depend on each other, and are never both current.
* What a damaged file, a changed digest or a refused validator do to a fact is one thing,
  `intact` turned false.
* A node of the workflow without a contract, an operator-driven one and one without an
  executor stop the walk as an unresolved skill does (`NoSkill`).
* `Rerun` is one turn of `Recovery` as the walk sees it: an attempt that is recorded.

The MC module writes down the edges and needs of the whole of `model_adaptation.yaml` and of `NODES`, and derives from them the
instances, which keep the nodes around the repairs: proof, gap classification, plan, service, triage, patch and vendor ticket
(`Core`), and the bring-up for the run about it (`Loop`). An edge to a node that is not kept leads to the next one that is, a need of it is a need
of what it needs. So the gap stands for the nodes before the plan, which may fail and send the walk to the triage while the plan of an
earlier walk is still the newest and passed: the patch, the triage and, after a repair, the service take that plan (`resolve` looks at the newest
fact, not at its ancestry, `graph_runner.py:347-365`). The service stands for everything up to the matrix.

### How `GraphDelivery` corresponds to the code

A walk is one process of `graph_runner.py` on a scheduled run. `walk[w].at` is the node it is at and
`phase` the next thing it does there; every database transaction, every journal line and every
check of evidence is one step, because workers, command-line calls and other walks act
between any two. The modelled part is the environment proof with
`bind_environment`, the two discoveries with their
dispatch, the service, accuracy and baseline regressions, and `finish_scheduled_graph` with the
receipt and `finalize`, which is one transaction (`locked`, `written`) that other connections wait for.

* `run` is the run's row with the graph metadata the bridge keeps in it; `rows` is the common
  progress of an operator's rows: workers move it by `Integrated` and `Retried`, as `TaskScheduler` allows.
* `DeliveryStatus` is `delivery_status`; its token, a digest, is the record itself. A fact is the gate snapshot its
  attempt started with, the environment it was recorded in and the facts it refers to that nothing
  newer has replaced. The receipt keeps which of them the regressions name (`on`): the service the accuracy
  was measured on, the baseline the integration was decided with.
* `damaged` is evidence whose digest differs from what was recorded; of a fact of the journal, its status file and the report its verdict
  is read from. `Fault` counts kills, damage, failing nodes and command-line calls.
* `_finalize` reads its facts twice, and does not compare every one of them with what was recorded: `Compared` are those
  of which something is kept elsewhere (the dispatch in the run's metadata, the service in the snapshot of the accuracy, the frozen evidence in the
  baseline). The others are only read again: changed, they may still be a pass or not, so such a delivery may be rejected or not
  (`MayReject`). Before the receipt is written the gate and the two snapshots are read once more (`Unchanged`).
* Nodes the bridge does not look into succeed; how the walk chooses them is in `GraphWalk`.

### How `PodProofs` corresponds to the code

One executor runs at a time, as the graph runs one node at a time; triage and placement start a
service proof as a child, so `proof` is the proof under way and `executor` what runs it.
The steps of a proof are the functions of `deployment_proof.py` in the order of its `ACTIONS`, each of
which may also fail, raise or be lost on its way to the pod.

* A service is the launch it came from, the log path it writes to, the model it serves and the files that were
  edited when it loaded them. It comes up, hangs, crashes, loses its engine (`hollow`) or leaves workers behind
  (`orphaned`) at any moment. It outlives proofs and executors.
* `logs` are the files in the pod, `live` or archived, each as the launch that wrote it: `archive_before_truncate` and
  `archive_crash_remote` move them, a launch writes a new one.
* `files` are the two installed files the executors edit, with the copies the edits leave beside them.
* `JudgesItsOwnModel` and `ServingIsNotReinstalled` hold as long as every command reaches the pod: a probe that is lost reads as
  "nothing is served" and the proof goes on to launch, and a clean-up that is lost reads as "no survivors".
* A tool that edits a file has one of four outcomes (`Outcomes`): done or not, with an exit status of 0 or an error. `in_pod` reads no return
  code, so a tool whose `kubectl` fails exits with 0; one that waits too long for an answer exits with an error, whether or not the file was edited
  by then. Only the apply of the patch looks at the status: it raises before the clause that would remove the patch, so a placement
  is then rejected with neither rerun nor removal, and the patch may lie in the file beside that verdict. `EditsFollowVerdicts` says so: it
  claims agreement of file and verdict except of an executor whose last command was lost or not answered, and of a placement
  whose apply exited with 0 and did nothing (`spoiled`); what it claims of all of them is that the installed text lies beside an edit that stayed.
  A command that is carried out after it was given up on is taken to be carried out before.

What a service proof takes over is a service that answers under the contract's model. It may be the one a triage has
relaunched under its own log path; the proof then reads the log at its contract's path (`deployment_proof.py:436`), which is an
earlier launch's. It may also have been launched before an edit was made, and the rerun of a triage or a placement then judges a process that has not
loaded the edit. The model contains both; no document says otherwise, and no property speaks of them.

### How the tool modules correspond to the code

Each of these is one family of commands that read documents, ask the pod, and write a document and a verdict of
its validator. A call is one step unless it can die between two files. What the subject is
(the kernel installed, the pod, the checkpoint, the service) changes between calls, and stays in
a report as a ghost, for the properties to compare. Fields that only have to be there are one Boolean, `complete` or `facts`.

* `OperatorHandoff`: `plugin` is what a scan finds, `registry` the list its author keeps; `Scan` is
  one invocation of MAT-029 with the dispatch of MAT-024 and the verdict. Requests are
  written before the validator looks, and stay when it refuses. `OperatorCandidates`: `manifest` and `frozen` are two files of one
  freezing; a rejected one writes the second only.
* `VendorHandoff`: a run writes its package (or ticket), renders it and writes the status, one file after the other. It may leave before the first
  (`StopEarly`), and raise or be killed after it (`PackageBreaksOff`, `TicketBreaksOff`): the rendering indexes fields that a finding may not
  have. `status` keeps what its verdict was reached on, `package` and `ticket` are the files as they lie there. What tells whether they belong together
  is the exit code, which `HandoffReachesItsOwner` speaks of. `PackageAccepted` has the clauses of `validate_handoff_package` on identifiers, layers, owners,
  evidence and stand-ins.
* `CorrectnessGrading`: `dumps` is the fixed directory per mode in the pod, with the grading that wrote each file; `out` the output
  directory; `probe` the state the probe reported. A kill is possible between the probe, the fetching and the verdict. A pass that the
  executor's own validator objects to becomes `AMBIGUOUS` (`valid`).
* `SupportClaims`: an update reads the matrix and writes it back later, with its row changed: an update that came in
  between is lost, which the code allows and the model too. What is claimed is backed nevertheless.
* `ModelDiscovery`: `Lookup` is the order in which the probe looks: installed, out of tree, variants, upstream. `scan` and `matched` keep
  the pod they were made in, which the tools record (`scanned_in`, `matched_in`) and never compare; the match reads the
  configuration that is at the path when it runs. The properties say what a report says of the pod it was made in.
* `CapabilityEvaluation`: `Child` is one child of the fan-out with probe, report and verdict, and may end after any of them; `FanIn`
  takes the reports and the exit codes as the runner does. The control of a probe is told apart, clears the gate, or raises:
  two probes run the kernel a second time for it (`RunsItsControl`) and count what raised as a control that discriminates. `Conformance` exercises the
  parsers there are samples for (`sampled`), a tool parser without one is passed over.
* `DeploymentBudget`: memory in units of a card, context in units of 1024 tokens. `Plan` halves the context until half of
  the remainder holds it; `Reconcile` folds the ranks into one worst value per measure.

Met on the way, and modelled as the code has it, without a document to contradict it:

* A passed `handoff_status.json` may be older than the package beside it: `vendor_handoff.py:193` writes the package before
  `render_package` may raise and before the verdict. The exit code tells, the directory does not.
* A control that raised counts as discriminating in the sliding-window and the quantized-linear probe (`sliding_window_decode_probe.py:222-231`,
  `quantized_linear_probe.py:251-266`), and the dimension passes. The validator's docstring (`validators/evaluation_validator.py:10-11`) asks
  for a control that actually missed the gate, which it cannot see. `PassIsExercised` names the case instead of excluding it.
* A tool parser that was asked for without a tool sample is not exercised, and the report may be conformant
  (`parser_conformance_probe.py:216`).
* `mat-020`, the ticket, is entered only from a triage that failed and needs one that passed, so a walk from the start ends there;
  it can be started directly. Its comment in the workflow (line 103) and the refusal in `vendor_handoff.py:221-224` read as if it were reached.
* A walk that repairs a node before the plan goes on with the plan of an earlier walk, whatever that was made from.
* A throwaway pod that never becomes ready raises in `__enter__`, so `__exit__` never removes it (`model_intake.py`); `probePods` keeps it.
* A quantization registry that cannot be imported is reported `NOT_PROVIDED`, not as an error of the probe.
* A verdict of an architecture that upstream ships per accelerator, `UPSTREAM_VENDORED_VARIANT`, is not in
  `SCAN_CLASSES`; the classification calls it `UNVERIFIED`.
* `capability_match_probe` never emits `block_sparse`, so the dimensions that only it demands cannot be listed.
* The plan accepts a share of weights up to a whole card, of which it uses 0.9; a parallelism that does not
  divide the heads only warns; `--rank` restricts what the budget looks at.

## Runs

Type invariants are proved for the scheduler, the run directory, the recovery and the walk; they are not
properties of a run. Every safety property of a passing run is also a theorem.

| Run | Instance | What it shows |
|---|---|---|
| `retries` | 1 operator, 2 workers, 2 claims per row and 5 in all; 3 once a claim or submission died half-way, 1 in simulated or graph-driven runs | expiries, late answers, rejections, diagnoses, retries and forced recovery; files left by rolled-back transactions never belong to another claim; the scheduler implements `OperatorPipeline` |
| `liveness` | 1 operator, 1 worker, no bound on claims but 2 per row | queued stages are decided, failures are concluded |
| `legacy` | 1 operator, 2 workers, 2 environments, 2 claims, the older version until an upgrade at any point | the edges `reconcile` creates rest on independent validation; every task belongs to the environment now bound, whenever it failed or was bound again; every failed stage an older version left gets its diagnosis |
| `directory` | 3 launchers with a requested identity or none, every content of an earlier `run.json`, 1 task, 1 call each | one maker per attempt, nothing incomplete is located; implements `RunIdentity`; the retry loops end |
| `recovery` | a budget of 2, all three brains, an action with an executor and one without | the budget is spent turn by turn, nothing is recovered but by a rerun that passed, only complete answers to the current request are acted on, the loop ends |
| `walk` | 7 nodes, 2 environments, 2 methods of the plan, 2 visits, 1 recovery rerun; walks that resume, start at the service or only prove the environment | what is reused and delivered hangs together, but for an older plan a repaired walk falls back on; every walk ends |
| `repairReused` | 8 nodes, 1 environment, 3 visits, resumed walks | **violated**, see Findings |
| `deliveries` | 2 walks, a proof of each of 2 environments, 1 operator, 1 fault | a receipt is of one environment; its regressions ran after all operators were integrated, the accuracy on the very service and the integration on the baseline it lists; the evidence of what is done is intact when it is written; and nobody comes in between while it is published |
| `deliveryComes` | 1 walk that is resumed, 3 proofs of 2 environments, 2 operators of either channel, 2 faults | the walk ends in a delivery, or is obstructed for good by damage to the bound proof or to a finished operator's evidence |
| `pod` | 3 launches, 4 executors, 1 command lost or not answered in time, 1 kill | logs, edits and services across executors; every executor ends |
| `tools` | the eight tools, one of them in each behaviour | evidence, recipients and claims of each tool |
| `sparse` | 2 gradings | **violated**, see Findings |

Bounds. `MaxAttempt = 2` gives every row a claim, a lapse or failure, and a
second claim: all hazards about stale tokens, recycled diagnosis rows and repeated
directories need two attempts of a row and none needs a third, because a
lease, a diagnosis input and a manifest are compared with the last attempt
only. `MaxClaims` is a state constraint that leaves out runs with more claims
altogether; five let one operator fail, be diagnosed, be retried, be accepted and go on to
the next stage. `MaxDisturbed` is the same for runs in which a transaction died after it touched
the disk: claim, aborted claim and the claim after it. `MaxElsewhere` keeps simulated and graph-driven runs to one claim:
what differs in them are the guards before a claim. `MaxWorkspaces = 2` allows an aborted claim before and between
the real ones. `LeaseTerms = {1}` suffices because a deadline is only compared
with now. Two workers make "another worker" possible; workers are symmetric,
and so are fingerprints where nothing names one. `Validators` contains the
workers, so a producer may try to validate its own result. In `legacy`, environments change in real runs that no
graph drives, and a second environment is enough for a fingerprint other than the queued rows'.

Three launchers allow one to publish, one to lose the race and one to come late;
a directory is compared with one other maker only, so one call each (`MaxCalls`)
suffices. Deadlock is not checked there: launchers that were killed, gave up
or used their calls stop for good. A recovery stops for good as well, and so do an executor and a
tool that used their calls (`pod`, `tools`). A budget of 2 makes
a second turn, with up to four requests, and what a third turn could confuse
(the answers of earlier turns) the second can.

The code allows a node three visits in one walk; two (`VisitLimit`) already close
every cycle of failure edges once. Two environments let a fingerprint come back after another
was proven; `MaxAstray`, a state constraint, leaves out journals with more than one fact that no walk could
use as things are: of the environment that is not bound, damaged, or of another method than today's. One is enough for a fact that is found
there again. Methods change for the plan, which others need and which needs others, and
the evidence of the triage is damaged (`Revisable`, `Fragile`), from which the patch and with it the next
plan are made.

`deliveries` needs two walks, because what can go wrong between the three stores needs a second process, and
two environments; rows of a second operator would do what the first one's do. Its one fault is a kill, damage (to the first proof, the
dispatch, the service or the operator: one for each way it is noticed), a failing node or a command-line call at any point, and nothing is started after a delivery. A walk alone with
everything that may happen to it twice, and with a second proof of the same environment to fall back on, is `deliveryComes`. Damage to a fact, a
proof that failed or a refused entry is made up for by later walks; what no walk makes again is the bound proof once it is
damaged and the evidence of an operator that is done (`Obstructed`), and the property excuses only runs in which one of these stays so.

In `pod` three launches are a service before, the one that is judged, and one the
child proof or a rerun starts; four executors are environment, service, triage and
placement. In `tools` (`MCTools`) one tool moves in each behaviour (`part`); the constraints leave out histories that
repeat themselves: authors make one mistake in the findings, one in the registry and leave one file that does not parse (`FewMistakes`), and findings
are written where no ticket is; packages are written, broken off and judged in any order.
Evidence changes before the step that reads it rather than after the last one that does (`ShortHistories`); what a
tool that stands still starts from is fixed (`OneStart`). Two models, two updates of the
matrix, two dimensions with a probe, two cards and two gradings are the pairs the properties compare.

`Recover` and `Tick` are always possible, as an operator may always run the
command and time always passes; deadlock checking therefore says little
there, and the liveness run takes its place.

### Fairness

`LiveSpec` of `TaskScheduler` assumes weak fairness of `Tick` (time passes), of `Claim` (some
worker polls), of `Submit(id)` (who holds a lease answers at some time, well or
badly) and of `ApplyDiagnosis(id)` (the main agent reads the conclusions).
None of it is fairness of the scheduler itself, which only reacts to calls; it is
what docs/architecture asks of its callers. The workers are not assumed to answer
in time: a submission is enabled only while the lease lives, and weak
fairness does not force it before the lease lapses. The properties hold up to the
bound: a row that used all its attempts and is queued again counts as answered
(`Exhausted`), and `QueuedStageIsDecided` excuses a run whose environment is not
ready. Starvation behind a row whose workers always die is therefore not seen by
this run; it is in the plan.

`LegacyLive` adds that the main agent runs `reconcile` after the upgrade, as the
migration guide tells it to. `LiveDirSpec` assumes that a process that is not killed
makes its next file-system call. `LiveSpec` of `Recovery` assumes that the thread of the
controller goes on, without counting on exceptions (`Raise`); it assumes nothing of those who decide. `LiveSpec` of `GraphWalk`
assumes that a walk that is not killed goes on: its commands end. Walks may be killed and
started for ever.

`LiveSpec` of `GraphDelivery` assumes that a walk goes on, that somebody resumes a walk that
stopped, which the `resume_command` in the runner's summary is for, and that workers integrate open operators and
take up failed ones, which is what the scheduler's liveness promises of them. `Fairness` of
`PodProofs` is about the steps of the executors only: commands have time limits. Of a service nothing
is assumed, neither that it comes up nor that it dies.

### Findings

`repairReused`: `workflows/model_adaptation.yaml:110` says "Every repair must pass
dummy-weight bring-up again before shim handoff and the expensive target checkpoint
load". With `--resume` the walk (`runners/graph_runner.py:1552`) reuses a node whose
newest fact passed and whose inputs are older; the bring-up needs the request and the
proof only, so its fact from before the patch is reused and the service is
started on it. Without `--resume` the bring-up runs.

`sparse`: `runners/correctness_executor.py:15` says "a probe that cannot produce
the tensors grades nothing". A block-sparse probe whose dump fails
(`tools/probe/block_sparse_attention_probe.py:468`) records an error of its control, counts that
as a control that discriminates, and reports a pass or a failure all the same; its
directory in the pod is not cleared. The executor (`correctness_executor.py:329`) fetches from
there what an earlier grading left and grades it: the run finds a sparse kernel that
passes on the tensors of the one installed before it. The other two gates hold: the platform
probe says that it exercised the kernel only after a whole dump, and the end-to-end gate
wants report, verdict and exit status of its child to agree.

A limit of `ReceiptOfOneEnvironment`: it speaks of the proof a receipt names (`root`), not of the files it lists as that
proof's evidence (`files`), which `_finalize` takes from `graph_environment`. `bind_environment`
(`engine/graph_bridge.py:289`) moves the bound proof and that record in two transactions, and `_environment_errors` does
not compare the two. A walk that waits between them, while another one that has bound a
proof of a different environment completely goes on to deliver, leaves a receipt that names the one and lists the files
of the other. It takes two walks, three proofs of two environments and two faults:
`GraphDeliveries.cfg` with `Proofs = {"p1", "p2", "p3"}`, `FaultBudget = 2` and the invariant
`receipt # NoReceipt => FpOf(receipt.files) = receipt.env` shows it in 34 states. With what `deliveries` has, two proofs
and one fault, it does not occur. The guide (`docs/guides/add-workflow.zh-CN.md:277`) asks of the
bridge that graph and scheduler belong to the same environment.

## Proofs

The theorems on the scheduler are about `Spec`, for any sets of names, fingerprints, workers and
validators, any lease terms and limits, any faults, and any `MaxAttempt`, from
the four named assumptions on the constants.

The argument goes bottom up:

1. `TypeCorrect`: `TypeOK` is inductive; one lemma per action.
2. Every step is one of few kinds of change to a row. `QueueStep` lemmas state
   what a step that touches the queue only (claim, renewal, recovery, time) does
   to a row, so that the invariants need one argument for all of them.
3. `LeasesAreLastClaims`: `LeaseOfLastClaim` is inductive given `TypeOK`.
4. `DiagnosesTrackFailures`: inductive given both. It needs
   the lease invariant because a failure is recorded for the attempt of
   the row and the diagnosis is reopened only by a greater one; attempts only grow
   by a claim, which takes pending rows, and a failed source is not pending.
5. `NoEdgeMissing`: inductive given `TypeOK`; a succeeded stage never leaves that
   status, so its successor's row is never orphaned.
6. `OnlyLiveLeasesDecide` follows from the lease invariant,
   `RetriesConsumeDiagnoses` from the diagnosis invariant: the code does not
   compare attempts when it applies a conclusion, the invariant does.
7. `ClaimsOwnTheirDirectories`, `AcceptedIsTheLastClaim` and `OtherAttemptsAreFrozen` rest on `FilesInv`, which
   says of each row with its directories and its claims that an absent row has none of them (`Unborn`) and that
   a leased directory is the last one (`OwnsDirectory`). A claim that dies litters only rows without a live
   lease, since it takes pending ones, and a manifest changes no number of directories.
8. `RealRunsHaveOneEnvironment` needs that a real run is given rows only while an environment is bound
   (`BoundWithRows`), which is then not replaced by another as long as there are rows.
9. `SchedulerRefines`: a row that is open is where its operator is (`AtStages`, from `NoMissingEdge`), so a step is
   told by what it does to that row and to its diagnosis. Queue steps take up and put back stages of any number of operators
   at once; every other step touches the rows of one operator. That a rejection always opens a conclusion needs
   `DiagnosesAreOlder`: what a diagnosis knows of is an attempt that is over, so `_ensure_diagnosis` never
   takes the old conclusion for one of the new failure. That a diagnosis concludes only what is rejected needs `DiagnosisTracksFailure`.

The theorems on `LegacyReconcile` are about `LegacySpec`, for any history the older version leaves and any part of the
event log that is missing. `HandOversAreIndependent` needs two things of the tables: the attempt of a row counts its claims
(`Tables`), so the producer that reconcile finds, if it finds one, is the worker of the row's last claim; and a stage that has a next one has succeeded (`AcceptedInOrder`), after which its claims and its
result never change. `RowMoves` sums up what any transaction of either version does to one row; a row that appears is
`Rooted` in an operator that has rows and is `InTurn`. `RepairsHaveOneEnvironment` reuses the argument of the scheduler.

The theorems on run directories are about `DirSpec`, for any number of
launchers, tasks, identities and calls. `OneIdentity` is inductive with
`DirTypeOK`: `run.json` is only ever written by a link that finds none. `OneMaker`
needs that whoever is between `mkdir` and `.attempt.json` is the maker of
its directory; `LocatedIsComplete` needs that a marked directory was filled by that
maker and that its identity is the one in `run.json`. The refinement maps a launcher past
`initialize` to one that knows the identity, and every file-system call to a
publication, a learning, a leaving or a stutter.

The theorems on the recovery are about `Spec`, for any budget, brains and actions.
`RecoveredByRerun` is inductive with `TurnInv`, which adds to the types that
the controller waits, acts and reruns only with budget left. `BudgetIsSpent` is
not: that a decision takes two requests at most needs `OpenInv`, which says how
many of the last requests belong to the turn under way (`Open`: none, one or two, by
where the controller is and whether it asked before), and that all others belong to earlier
turns. `ActsOnAnswers` needs in addition that the decision being acted on is `Blocked`
or traced to a request of this turn (`TraceInv`), and it stays true because a complete
answer is never written over and only the last request is registered, which is
of this turn and of no entry of the history.

The theorems on the walk are about `Spec` of `GraphWalk`, for any workflow, requests, environments, methods and limits.

* `WalkTypeCorrect`: a journal with its newest fact moved to the end is a journal (`OthersStay`, `RecordedFacts`).
* `ReuseStands` needs that `Current` obeys its own rule. It is a recursive function over sets of nodes that grow, and
  nothing here says that there are finitely many nodes; so instead of an induction, the rule is read as a monotone operator
  on sets of pairs, whose greatest fixed point is a solution (`StandingIsFixed`, `CurrentByRule`). What reuse means then rests on
  `JournalInv`: there is one fact of a node in an environment, facts of models lie in the base environment, and a success keeps
  resting on each of its needs until a newer result of that need follows it in the journal. An input that is
  older than what needs it is therefore still what it was made from. The nodes that stand are the closed set the property asks for.
* `DeliveriesAreOfOnePiece` does depend on the edges, and is the one theorem that takes an assumption on them.
  `LoopAssumption` (in `MCGraphWalk`) is `HangsTogether` of the workflow: the proof comes first and no edge leads back to it; what a node needs,
  but for the plan, lies on every way to it; a need that can be visited again is followed by the node that needs it before any delivery; nothing
  delivers before a plan was made or a failure diagnosed. TLC evaluates it for both instances and, as `WorkflowHangsTogether`, for the whole of
  `model_adaptation.yaml`, so the theorem speaks of that workflow too. A plan is excepted because the code excepts it: a node before the plan may
  fail, be diagnosed and repaired, and the walk goes on with an older one.
  `WalkInv` says of a walk from the start, between its steps: the proof it passed names the
  environment it is bound to (`Proves`); every node was left behind with a pass that was used, or without a pass, or can
  still be reached (`Visited`, `Way`); a node that was used rests on its needs, except on one that was made anew, or failed,
  and then the walk is on a way back to the node before it delivers (`UsedWell`). A delivery leaves no such exception (`Delivered`).

The theorems on deliveries rest on three invariants of `GraphDelivery_proofs`.

* `DeliveryInv`: a process that has collected its facts without an objection holds a proof of the environment the
  stages were recorded in, and names the service and the baseline its regressions were made on (`Process`); one in its transaction
  holds a gate that is that of the regressions, while run and rows are as the gate says (`AsCompared`); only one is in its transaction. Damage may
  come at any moment, so of the evidence a receipt is written on the theorem speaks at that step, where the gate is read again. A step is
  `Mild` when it enters no delivery and writes run and rows only while nobody else delivers: each action but two is, and `MildKeeps`
  does the rest once. `EnvironmentOfReceipt` and `DeliveredAsCompared` follow.
* `ReportInv`: who refers to the dispatch of the classification, or is about to record one, knows that its operators are rows (`Reporting`), and
  rows stay (`RowsOnlyGrow`); an operator leaves the list of a dispatch when the scheduler has it, or with an error on record.
* `CoverInv`: so the gate a delivery has compared covers all reported operators, hence `ReceiptCoversReports`.

The theorems on the pod are about `Spec` of `PodProofs`, for any bounds on launches, executors, kills and lost commands.
Whatever a proof does on its way, it moves on within its executor or ends (`ProofMoves`); one lemma says so of
every step, and the rest is an invariant for each of the three things executors share.

* `LogsSurvive`: there is one live log at a path, and the next free name of an archive is new (`LogsKept`), so an
  archive never writes over another one.
* `EditsMatchVerdicts`: a copy beside a file is one of the installed text, and without a copy the file is not edited (`FilesKept`), whatever
  commands were lost; where a placement stands says whether its patch is in (`PatchInv`), and only a last command that was lost separates file and verdict.
* `HealthIsOfOwnModel` and `ServingKeepsRuntime` are about pods that every command has reached, so the invariants say
  `count.lost = 0 => ...`. At most one service is not orphaned, none is on the way to a launch, and while health is polled it is of the
  model of the phase (`ModelInv`); a step behind the installation is taken in a pod whose runtime is there (`RuntimeInv`). The world only ever
  kills services or lets one that loads come up (`Calmer`).

The theorems on the tools are each about the specification of one tool, for any number of calls.

* `CandidatesHaveBaselines`: a manifest is written only of a pair that passed (`BaselineInv`), so the decision,
  which reads the manifest and not the status beside it, has one. `ShimsAreHandedOver`: an entry that carries a number has the request of that
  number, written for its shim (`Requested`, in `HandoffInv`), and requests stay when the report is refused.
  `OperatorsAreAccountedFor` is both for the specification the run checks.
* `MatrixIsBacked`, for any models and updates: the claim has to hold of the rows in the matrix, of the row every update
  has built and of every matrix an update has read and will write back (`ClaimsInv`).
* `GradedOnOwnEvidence`, for any number of gradings: a platform probe that says it exercised the kernel has
  dumped its output in this grading (`OwnEvidence`), and an exit status that agrees with the files is of a child that wrote them.
* `PassedIsExercised`: `Underway` says what holds before the fan-in, of reports that may be missing or refused: a report that says
  pass is right, that its control was told apart or raised in a probe that runs it, and a dimension that has run is accepted if no exit code says otherwise. The worst of the
  children is best only if all are (`WorstIsBest`).
* `VendorGetsItsOwn`: the verdict speaks of the package it was reached on, so what is accepted has one owner per finding and routes exactly
  the findings in binary layers to the vendor, whatever was packed or triaged before and after; a run that exits with success has
  judged the file that lies there, although runs before it may have raised between package and status (`VendorInv`).
* `EveryRankIsJudged`: the budget judges one worst value per measure; a bounded set of integers has a least and a greatest element,
  so what passes for the worst passes for each rank. The plan's halving ends, because 2^k outgrows every context, and what it ends with fits.
* `ClassifiedTruly`: pod and checkpoint may be others by the time a document is read, so the invariant speaks of the
  pod and checkpoint a report is of: what scan and match say is what the rules say of these (`ScanIsOf`, `MatchIsOf`), and
  the classification is what follows from the two reports it read (`ClassifiedAsTheyAre`).

Only model-checked are the liveness properties, `QueuedStageIsDecided`, `FailureIsConcluded`, `FailureIsDiagnosed`, `CallsEnd`,
`RecoveryEnds`, `WalkEnds`, `DeliveryComes` and `ExecutorsEnd` (fairness and ENABLED are out of the prover's reach), and of course
the two violations. Walks over the whole workflow are not model-checked; of them TLC evaluates the assumption of the theorem only.

## Plan

Done: `TaskScheduler` with `OperatorPipeline`, `LegacyReconcile`, `RunDirectory` with `RunIdentity`,
`Recovery`, `GraphWalk`, `GraphDelivery`, `PodProofs` and the tools.

Left:

1. `StoreTransaction`: threads over one connection, nested transitions, readers
   without the lock; and processes over one file. Shows which reads may see
   uncommitted rows.
2. `QueueFairness`: starvation behind a row whose workers always die, under limit 1.
3. `Progress` and the discovery contract: pure functions, against reference definitions.
4. Theorems: type correctness of `GraphDelivery` and `PodProofs`; what the liveness properties rest on, as safety (a measure that every step of a recovery or a walk lowers).

## Not modelled

Numeric probes, source patches that people apply by hand, and device code under `tools/`; the
command lines, targets and runtimes, which translate one call into another; the skill
registry, which is loaded once; the simulated agents, which are test workers; the runtime drift scan, which compares signatures; the performance
runner, whose numbers nothing reads; task memory and the watch thread, which inform people and decide nothing; the
catalog, wiki and documentation; the wording and layout of documents. They keep
no state that another component coordinates through. Progress and the discovery contract are in the plan.

## Running

    tlc -config MCRetries.cfg MCTaskScheduler.tla
    tlc -config GraphDeliveries.cfg MCGraphDelivery.tla
    tlc -config PodProofs.cfg PodProofs.tla
    tlc -config MCTools.cfg MCTools.tla
    tlc -config Recovery.cfg Recovery.tla
    tlc -config GraphRepair.cfg MCGraphWalk.tla          # finds the violation
    tlc -config SparseGrading.cfg CorrectnessGrading.tla # finds the violation
    tlapm TaskScheduler_proofs.tla
    tlapm LegacyReconcile_proofs.tla
    tlapm RunDirectory_proofs.tla
    tlapm Recovery_proofs.tla
    tlapm GraphWalk_proofs.tla
    tlapm GraphDelivery_proofs.tla
    tlapm PodProofs_proofs.tla
    tlapm Tools_proofs.tla
