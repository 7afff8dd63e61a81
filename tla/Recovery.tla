------------------------------ MODULE Recovery ------------------------------
(***************************************************************************)
(* The recovery of one failed node (src/engine/recovery.py, src/engine/    *)
(* brain.py and attempt_recovery of src/runners/graph_runner.py): a brain  *)
(* decides, the controller acts or reruns the node, under a budget.        *)
(*                                                                         *)
(* The brain is a rule, a command, or somebody who reads a request file    *)
(* and writes the answer when and how they like: in pieces, late, twice    *)
(* asked, or badly.                                                        *)
(***************************************************************************)
EXTENDS Naturals, Sequences

CONSTANTS
  Budget,     \* recovery_budget
  Brains,     \* subset of {"rule", "command", "file"}
  Executors,  \* the actions default_actions registers
  Unserved    \* actions without an executor

Reruns == {"RETRY", "RETRY_WITH_PARAMS"}

ASSUME BudgetIsPositive == Budget \in Nat \ {0}

ASSUME BrainKinds == Brains \subseteq {"rule", "command", "file"}

ASSUME ActionsAreDistinct ==
  /\ (Executors \cup Unserved) \cap (Reruns \cup {"BLOCKED"}) = {}
  /\ Executors \cap Unserved = {}

(* What Decision.from_dict accepts.  Of the parameters it matters only     *)
(* whether one of them names a managed path or nothing the node has.       *)
Answers ==
  [action : Reruns, params : {"declared", "managed"}]
    \cup [action : Executors \cup Unserved \cup {"BLOCKED"}, params : {"declared"}]

Blocked == [action |-> "BLOCKED", params |-> "declared"]

NoAnswer == [action |-> "none", params |-> "none"]  \* no response file
Garbled == [action |-> "garbled", params |-> "none"] \* incomplete or refused

VARIABLES
  brain,      \* the kind of brain
  rule,       \* the answer of RuleBrain: the failure it reads never changes
  pc,         \* where the controller is
  remaining,  \* of the budget
  retry,      \* whether this is the second request of a decision
  decision,   \* last_decision
  history,    \* decisions and their outcomes
  status,     \* of the RecoveryOutcome
  requests,   \* one attempt directory each: the request, the response
              \* file, the outcome in the manifest
  runs        \* reruns of the node that were started

vars == <<brain, rule, pc, remaining, retry, decision, history, status, requests, runs>>

Init ==
  /\ brain \in Brains
  /\ rule \in Answers
  /\ pc = "decide"
  /\ remaining = Budget
  /\ retry = FALSE
  /\ decision = Blocked
  /\ history = <<>>
  /\ status = "BLOCKED"
  /\ requests = <<>>
  /\ runs = <<>>

Last(seq) == seq[Len(seq)]

-----------------------------------------------------------------------------
(* AgentBrain.decide *)

RuleDecide ==
  /\ pc = "decide" /\ remaining > 0
  /\ brain = "rule"
  /\ decision' = rule
  /\ pc' = "act"
  /\ UNCHANGED <<brain, rule, remaining, retry, history, status, requests, runs>>

(* Defect: a second request reads the file of the first. *)
BugResponse == requests[1].response

(* Every request has a directory of its own. *)
Response == Last(requests).response

Ask ==
  /\ pc = "decide" /\ remaining > 0
  /\ brain # "rule"
  /\ requests' = Append(requests,
       [turn |-> Len(history), remaining |-> remaining,
        response |-> NoAnswer, manifest |-> "none"])
  /\ pc' = "wait"
  /\ UNCHANGED <<brain, rule, remaining, retry, decision, history, status, runs>>

(* The decider writes a response file: at once, or first a part of it. A   *)
(* command is over when it returns, an agent may still answer old requests.*)
Write(n, answer) ==
  /\ brain = "file" \/ (pc = "wait" /\ n = Len(requests))
  /\ requests[n].response \in {NoAnswer, Garbled}
  /\ requests' = [requests EXCEPT ![n].response = answer]
  /\ UNCHANGED <<brain, rule, pc, remaining, retry, decision, history, status, runs>>

(* The response exists when it is polled for, or the command returned 0. *)
Answered ==
  /\ pc = "wait"
  /\ brain = "file" => Response # NoAnswer
  /\ pc' = "read"
  /\ UNCHANGED <<brain, rule, remaining, retry, decision, history, status, requests, runs>>

Registered(outcome) ==
  requests' = [requests EXCEPT ![Len(requests)].manifest = outcome]

(* A request failed: the first is repeated, the second blocks. *)
Refused(again) ==
  /\ Registered("BLOCKED")
  /\ IF again /\ ~retry
     THEN retry' = TRUE /\ pc' = "decide" /\ UNCHANGED decision
     ELSE retry' = FALSE /\ pc' = "act" /\ decision' = Blocked
  /\ UNCHANGED <<brain, rule, remaining, history, status, runs>>

(* Defect: the agent is polled for without a deadline. *)
BugTimeOut == pc = "wait" /\ brain = "command" /\ Refused(TRUE)

(* The deadline passes.  The last poll may have been before the file came. *)
(* A command that hangs or fails is asked again, an agent is not.          *)
TimeOut == pc = "wait" /\ Refused(brain = "command")

Accept ==
  /\ pc = "read"
  /\ Response \in Answers
  /\ decision' = Response
  /\ Registered(decision'.action)
  /\ retry' = FALSE
  /\ pc' = "act"
  /\ UNCHANGED <<brain, rule, remaining, history, status, runs>>

Reject == pc = "read" /\ Response \notin Answers /\ Refused(TRUE)

-----------------------------------------------------------------------------
(* RecoveryController.recover *)

Log(outcome) ==
  history' = Append(history, [decision |-> decision, outcome |-> outcome,
                              left |-> remaining])

(* Brain and budget, then nothing left to decide. *)
Exhausted ==
  /\ pc = "decide" /\ remaining = 0
  /\ pc' = "ended"
  /\ UNCHANGED <<brain, rule, remaining, retry, decision, history, status, requests, runs>>

(* The brain gives up, or names an action nobody can perform. *)
Stop ==
  /\ pc = "act"
  /\ decision.action \notin Reruns \cup Executors
  /\ Log(IF decision = Blocked THEN "blocked" ELSE "no_executor_registered")
  /\ pc' = "ended"
  /\ UNCHANGED <<brain, rule, remaining, retry, decision, status, requests, runs>>

(* Defect: an action that raises is free. *)
BugPay(outcome) == remaining' = IF outcome = "action_failed" THEN remaining ELSE remaining - 1

Pay(outcome) == remaining' = remaining - 1

(* The action is a command of its own; whatever it raises is logged. *)
Perform(outcome) ==
  /\ pc = "act"
  /\ decision.action \in Executors
  /\ outcome \in {"action_complete", "action_failed"}
  /\ Log(outcome)
  /\ Pay(outcome)
  /\ pc' = "decide"
  /\ UNCHANGED <<brain, rule, retry, decision, status, requests, runs>>

(* Defect: parameters are not compared with the managed ones. *)
BugRefuses == FALSE

Refuses == decision.params = "managed"

(* The rerun refuses the decision's parameters, or cannot resolve the      *)
(* inputs of the node: no command is started.                              *)
NotRerun ==
  /\ pc = "act"
  /\ decision.action \in Reruns
  /\ Log("node_still_failing")
  /\ Pay("node_still_failing")
  /\ pc' = "decide"
  /\ UNCHANGED <<brain, rule, retry, decision, status, requests, runs>>

StartRerun ==
  /\ pc = "act"
  /\ decision.action \in Reruns
  /\ ~Refuses
  /\ runs' = Append(runs, [params |-> decision.params, passed |-> FALSE])
  /\ pc' = "rerun"
  /\ UNCHANGED <<brain, rule, remaining, retry, decision, history, status, requests>>

(* The command ends; its exit code, its state file and the validator's     *)
(* verdict in it together say whether the node passed.                     *)
FinishRerun(passed) ==
  /\ pc = "rerun"
  /\ runs' = [runs EXCEPT ![Len(runs)].passed = passed]
  /\ IF passed
     THEN /\ status' = "RECOVERED"
          /\ Log("node_passed")
          /\ pc' = "ended"
          /\ UNCHANGED remaining
     ELSE /\ Log("node_still_failing")
          /\ Pay("node_still_failing")
          /\ pc' = "decide"
          /\ UNCHANGED status
  /\ UNCHANGED <<brain, rule, retry, decision, requests>>

(* An exception leaves recover: a path of a request, its answer or a rerun *)
(* breaks the write policy, a command cannot be run or its logs not kept.  *)
Raise ==
  /\ \/ pc \in {"decide", "wait", "read"} /\ brain # "rule" /\ remaining > 0
     \/ pc = "act" /\ decision.action \in Reruns /\ ~Refuses
     \/ pc = "rerun"
  /\ pc' = "raised"
  /\ UNCHANGED <<brain, rule, remaining, retry, decision, history, status, requests, runs>>

Controller ==
  \/ RuleDecide \/ Ask \/ Answered \/ TimeOut \/ Accept \/ Reject
  \/ Exhausted \/ Stop \/ NotRerun \/ StartRerun
  \/ \E outcome \in {"action_complete", "action_failed"} : Perform(outcome)
  \/ \E passed \in BOOLEAN : FinishRerun(passed)

Decider == \E n \in DOMAIN requests : \E answer \in Answers \cup {Garbled} : Write(n, answer)

Next == Controller \/ Raise \/ Decider

Spec == Init /\ [][Next]_vars

(* The controller is one thread that goes on; deciders owe nothing, and no *)
(* exception is counted on to end what waits.                              *)
LiveSpec == Spec /\ WF_vars(Controller)

-----------------------------------------------------------------------------
Outcomes == {"blocked", "no_executor_registered", "action_complete",
             "action_failed", "node_still_failing", "node_passed"}

TypeOK ==
  /\ brain \in Brains
  /\ rule \in Answers
  /\ pc \in {"decide", "wait", "read", "act", "rerun", "ended", "raised"}
  /\ remaining \in 0..Budget
  /\ retry \in BOOLEAN
  /\ decision \in Answers
  /\ history \in Seq([decision : Answers, outcome : Outcomes, left : 1..Budget])
  /\ status \in {"BLOCKED", "RECOVERED"}
  /\ requests \in Seq([turn : Nat, remaining : 1..Budget,
                       response : Answers \cup {NoAnswer, Garbled},
                       manifest : {"none"} \cup Reruns \cup Executors \cup Unserved \cup {"BLOCKED"}])
  /\ runs \in Seq([params : {"declared", "managed"}, passed : BOOLEAN])

(* Every turn costs one, whatever came of it; the brain is told how many   *)
(* it has left and all that happened; no decision takes a third request.   *)
BudgetIsSpent ==
  /\ remaining + Len(history) = Budget + (IF pc = "ended" /\ remaining > 0 THEN 1 ELSE 0)
  /\ \A i \in DOMAIN history : history[i].left + i = Budget + 1
  /\ \A n \in DOMAIN requests : requests[n].remaining + requests[n].turn = Budget
  /\ \A m, n \in DOMAIN requests : requests[m].turn = requests[n].turn => m <= n + 1

(* The controller never marks anything recovered by itself: it reports     *)
(* RECOVERED exactly if the node passed a rerun, with none of its managed  *)
(* paths replaced, and did nothing after it.                               *)
RecoveredByRerun ==
  /\ status = "RECOVERED" <=> \E i \in DOMAIN runs : runs[i].passed
  /\ \A i \in DOMAIN runs :
       /\ runs[i].params = "declared"
       /\ runs[i].passed => pc = "ended" /\ i = Len(runs)
                            /\ Last(history).outcome = "node_passed"

(* What was done for a decider was its complete answer to the request of   *)
(* that very turn, and the directory of the request says so; incomplete,   *)
(* late and refused answers are in directories that say BLOCKED.           *)
ActsOnAnswers ==
  brain # "rule" =>
    \A i \in DOMAIN history :
      \/ history[i].decision = Blocked
      \/ \E n \in DOMAIN requests :
           /\ requests[n].turn = i - 1
           /\ requests[n].response = history[i].decision
           /\ requests[n].manifest = history[i].decision.action
           /\ \A m \in 1..(n - 1) :
                requests[m].turn = i - 1 => requests[m].manifest = "BLOCKED"

(* Whatever the decider does, the recovery comes to an end. *)
RecoveryEnds == <>(pc \in {"ended", "raised"})
=============================================================================
