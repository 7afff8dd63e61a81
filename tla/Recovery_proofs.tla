-------------------------- MODULE Recovery_proofs --------------------------
(***************************************************************************)
(* Theorems about the recovery of a node, for any budget, any brains and   *)
(* any actions.  A turn of the controller is the time between two entries  *)
(* of its history; requests are numbered by turns, so that an answer can   *)
(* be traced to the turn it was asked for.                                 *)
(***************************************************************************)
EXTENDS Recovery, TLAPS

USE BudgetIsPositive

Kinds == {"none"} \cup Reruns \cup Executors \cup Unserved \cup {"BLOCKED"}

Asked == [turn : Nat, remaining : 1..Budget,
          response : Answers \cup {NoAnswer, Garbled}, manifest : Kinds]

Entries == [decision : Answers, outcome : Outcomes, left : 1..Budget]

Rerunning == [params : {"declared", "managed"}, passed : BOOLEAN]

(* TypeOK, and where the controller can only be with budget left, waits    *)
(* for a request, and runs the node.                                       *)
TurnInv ==
  /\ brain \in Brains
  /\ rule \in Answers
  /\ pc \in {"decide", "wait", "read", "act", "rerun", "ended", "raised"}
  /\ remaining \in 0..Budget
  /\ retry \in BOOLEAN
  /\ decision \in Answers
  /\ history \in Seq(Entries)
  /\ status \in {"BLOCKED", "RECOVERED"}
  /\ requests \in Seq(Asked)
  /\ runs \in Seq(Rerunning)
  /\ pc \in {"wait", "read", "act", "rerun"} => remaining > 0
  /\ pc \in {"wait", "read"} => requests # <<>>
  /\ pc = "rerun" => runs # <<>>

LEMMA TurnInvTypes == TurnInv => TypeOK
  BY DEF TurnInv, TypeOK, Asked, Entries, Rerunning, Kinds

LEMMA BlockedIsAnswer == Blocked \in Answers
  BY DEF Blocked, Answers

LEMMA AnswersHaveKinds == \A a \in Answers :
        a.action \in Kinds /\ a.params \in {"declared", "managed"}
  BY DEF Answers, Kinds

(* Replacing one field of one request leaves all requests well-formed.     *)
LEMMA RequestEdits ==
  ASSUME requests \in Seq(Asked), NEW n \in DOMAIN requests
  PROVE  /\ \A a \in Answers \cup {NoAnswer, Garbled} :
              [requests EXCEPT ![n].response = a] \in Seq(Asked)
         /\ \A k \in Kinds : [requests EXCEPT ![n].manifest = k] \in Seq(Asked)
  <1>1. ASSUME NEW a \in Answers \cup {NoAnswer, Garbled}
        PROVE  [requests EXCEPT ![n].response = a] \in Seq(Asked)
    <2>1. requests[n] \in Asked
      OBVIOUS
    <2>2. [requests[n] EXCEPT !.response = a] \in Asked
      BY <2>1 DEF Asked
    <2> QED
      BY <2>2
  <1>2. ASSUME NEW k \in Kinds
        PROVE  [requests EXCEPT ![n].manifest = k] \in Seq(Asked)
    <2>1. requests[n] \in Asked
      OBVIOUS
    <2>2. [requests[n] EXCEPT !.manifest = k] \in Asked
      BY <2>1 DEF Asked
    <2> QED
      BY <2>2
  <1> QED
    BY <1>1, <1>2

LEMMA TurnInvInit == Init => TurnInv
  <1> SUFFICES ASSUME Init PROVE TurnInv
    OBVIOUS
  <1>1. <<>> \in Seq(Entries) /\ <<>> \in Seq(Asked) /\ <<>> \in Seq(Rerunning)
    OBVIOUS
  <1>2. remaining \in 0..Budget
    BY DEF Init
  <1> QED
    BY <1>1, <1>2, BlockedIsAnswer DEF Init, TurnInv

LEMMA TurnInvStep == TurnInv /\ [Next]_vars => TurnInv'
  <1> SUFFICES ASSUME TurnInv, [Next]_vars PROVE TurnInv'
    OBVIOUS
  <1> USE DEF TurnInv
  <1>1. CASE RuleDecide
    BY <1>1 DEF RuleDecide
  <1>2. CASE Ask
    <2> DEFINE new == [turn |-> Len(history), remaining |-> remaining,
                       response |-> NoAnswer, manifest |-> "none"]
    <2>1. new \in Asked
      BY <1>2 DEF Ask, Asked, Kinds
    <2>2. requests' = Append(requests, new)
      BY <1>2 DEF Ask
    <2> HIDE DEF new
    <2>3. requests' \in Seq(Asked) /\ requests' # <<>>
      BY <2>1, <2>2
    <2> QED
      BY <1>2, <2>3 DEF Ask
  <1>3. ASSUME NEW n \in DOMAIN requests, NEW answer \in Answers \cup {Garbled},
               Write(n, answer)
        PROVE  TurnInv'
    <2>1. requests' \in Seq(Asked) /\ requests' # <<>>
      BY <1>3, RequestEdits DEF Write
    <2> QED
      BY <1>3, <2>1 DEF Write
  <1>4. CASE Answered
    BY <1>4 DEF Answered
  <1>5. ASSUME NEW k \in Kinds, pc \in {"wait", "read"}, Registered(k)
        PROVE  requests' \in Seq(Asked) /\ requests' # <<>>
    BY <1>5, RequestEdits DEF Registered
  <1>6. ASSUME NEW again \in BOOLEAN, pc \in {"wait", "read"}, Refused(again)
        PROVE  TurnInv'
    <2>1. requests' \in Seq(Asked) /\ requests' # <<>>
      BY <1>5, <1>6 DEF Refused, Kinds
    <2> QED
      BY <1>6, <2>1, BlockedIsAnswer DEF Refused
  <1>7. CASE TimeOut
    BY <1>6, <1>7 DEF TimeOut
  <1>8. CASE Accept
    <2>1. decision' \in Answers /\ decision'.action \in Kinds
      BY <1>8, AnswersHaveKinds DEF Accept
    <2>2. requests' \in Seq(Asked) /\ requests' # <<>>
      BY <1>5, <1>8, <2>1 DEF Accept
    <2> QED
      BY <1>8, <2>1, <2>2 DEF Accept
  <1>9. CASE Reject
    BY <1>6, <1>9 DEF Reject
  <1>10. CASE Exhausted
    BY <1>10 DEF Exhausted
  <1>11. ASSUME NEW outcome \in Outcomes, pc \in {"act", "rerun"}, Log(outcome)
         PROVE  history' \in Seq(Entries)
    <2>1. [decision |-> decision, outcome |-> outcome, left |-> remaining] \in Entries
      BY <1>11 DEF Entries
    <2> QED
      BY <1>11, <2>1 DEF Log
  <1>12. CASE Stop
    BY <1>11, <1>12 DEF Stop, Outcomes
  <1>13. ASSUME NEW outcome \in {"action_complete", "action_failed"}, Perform(outcome)
         PROVE  TurnInv'
    BY <1>11, <1>13 DEF Perform, Pay, Outcomes
  <1>14. CASE NotRerun
    BY <1>11, <1>14 DEF NotRerun, Pay, Outcomes
  <1>15. CASE StartRerun
    <2>1. [params |-> decision.params, passed |-> FALSE] \in Rerunning
      BY AnswersHaveKinds DEF Rerunning
    <2>2. runs' \in Seq(Rerunning) /\ runs' # <<>>
      BY <1>15, <2>1 DEF StartRerun
    <2> QED
      BY <1>15, <2>2 DEF StartRerun
  <1>16. ASSUME NEW passed \in BOOLEAN, FinishRerun(passed)
         PROVE  TurnInv'
    <2>1. runs[Len(runs)] \in Rerunning
      BY <1>16 DEF FinishRerun
    <2>2. [runs[Len(runs)] EXCEPT !.passed = passed] \in Rerunning
      BY <2>1 DEF Rerunning
    <2>3. runs' \in Seq(Rerunning) /\ runs' # <<>>
      BY <1>16, <2>2 DEF FinishRerun
    <2> QED
      BY <1>11, <1>16, <2>3 DEF FinishRerun, Pay, Outcomes
  <1>17. CASE Raise
    BY <1>17 DEF Raise
  <1>18. CASE UNCHANGED vars
    BY <1>18 DEF vars
  <1> QED
    BY <1>1, <1>2, <1>3, <1>4, <1>7, <1>8, <1>9, <1>10, <1>12, <1>13, <1>14,
       <1>15, <1>16, <1>17, <1>18 DEF Next, Controller, Decider

LEMMA TurnInvAlways == Spec => []TurnInv
  BY TurnInvInit, TurnInvStep, PTL DEF Spec

(* The controller's variables and the files of its requests keep the types *)
(* of TypeOK; the budget of engine/recovery.py never becomes negative.     *)
THEOREM RecoveryTypeCorrect == Spec => []TypeOK
  BY TurnInvAlways, TurnInvTypes, PTL

-----------------------------------------------------------------------------
(* A node recovers by a rerun *)

(* The property is inductive: as long as the controller goes on no run has *)
(* passed, so the one that passes is the last.                             *)
LEMMA RecoveredStep ==
  ASSUME TurnInv, RecoveredByRerun, [Next]_vars
  PROVE  RecoveredByRerun'
  <1> USE DEF TurnInv
  <1>1. ASSUME UNCHANGED <<runs, status>>, pc = "ended" => pc' = "ended" /\ UNCHANGED history
        PROVE  RecoveredByRerun'
    BY <1>1 DEF RecoveredByRerun, Last
  <1>2. CASE RuleDecide \/ Ask \/ Answered \/ Accept
    BY <1>1, <1>2 DEF RuleDecide, Ask, Answered, Accept
  <1>3. CASE TimeOut \/ Reject
    BY <1>1, <1>3 DEF TimeOut, Reject, Refused
  <1>4. CASE Exhausted \/ Stop \/ NotRerun
    BY <1>1, <1>4 DEF Exhausted, Stop, NotRerun
  <1>5. ASSUME NEW outcome \in {"action_complete", "action_failed"}, Perform(outcome)
        PROVE  RecoveredByRerun'
    BY <1>1, <1>5 DEF Perform
  <1>6. CASE Raise
    BY <1>1, <1>6 DEF Raise
  <1>7. ASSUME NEW n \in DOMAIN requests, NEW answer \in Answers \cup {Garbled},
               Write(n, answer)
        PROVE  RecoveredByRerun'
    BY <1>1, <1>7 DEF Write
  <1>8. CASE StartRerun
    <2> DEFINE run == [params |-> "declared", passed |-> FALSE]
    <2>1. decision.params = "declared"
      BY <1>8, AnswersHaveKinds DEF StartRerun, Refuses
    <2>2. runs' = Append(runs, run) /\ run \in Rerunning
      BY <1>8, <2>1 DEF StartRerun, Rerunning
    <2>3. pc = "act" /\ UNCHANGED status
      BY <1>8 DEF StartRerun
    <2>4. \A i \in DOMAIN runs : ~runs[i].passed /\ runs[i].params = "declared"
      BY <2>3 DEF RecoveredByRerun
    <2>5. status # "RECOVERED"
      BY <2>4 DEF RecoveredByRerun
    <2>6. run.params = "declared" /\ run.passed = FALSE
      OBVIOUS
    <2> HIDE DEF run
    <2>7. \A i \in DOMAIN runs' : ~runs'[i].passed /\ runs'[i].params = "declared"
      BY <2>2, <2>4, <2>6
    <2> QED
      BY <2>3, <2>5, <2>7 DEF RecoveredByRerun
  <1>9. ASSUME NEW passed \in BOOLEAN, FinishRerun(passed)
        PROVE  RecoveredByRerun'
    <2>1. /\ pc = "rerun" /\ runs # <<>>
          /\ runs' = [runs EXCEPT ![Len(runs)].passed = passed]
      BY <1>9 DEF FinishRerun
    <2>2. \A i \in DOMAIN runs : ~runs[i].passed /\ runs[i].params = "declared"
      BY <2>1 DEF RecoveredByRerun
    <2>3. status # "RECOVERED"
      BY <2>2 DEF RecoveredByRerun
    <2>4. /\ DOMAIN runs' = DOMAIN runs /\ Len(runs') = Len(runs) /\ Len(runs) \in DOMAIN runs
          /\ \A i \in DOMAIN runs : i # Len(runs) => runs'[i] = runs[i]
      BY <2>1
    <2>5. runs[Len(runs)] \in Rerunning
      BY <2>1
    <2>6. /\ [runs[Len(runs)] EXCEPT !.passed = passed].params = runs[Len(runs)].params
          /\ [runs[Len(runs)] EXCEPT !.passed = passed].passed = passed
      BY <2>5 DEF Rerunning
    <2>7. runs'[Len(runs)] = [runs[Len(runs)] EXCEPT !.passed = passed]
      BY <2>1, <2>4
    <2>8. /\ \A i \in DOMAIN runs' : runs'[i].params = "declared"
          /\ \A i \in DOMAIN runs' : runs'[i].passed <=> passed /\ i = Len(runs')
      BY <2>2, <2>4, <2>6, <2>7
    <2>9. CASE passed
      <3> DEFINE entry == [decision |-> decision, outcome |-> "node_passed", left |-> remaining]
      <3>1. /\ status' = "RECOVERED" /\ pc' = "ended"
            /\ history' = Append(history, entry)
        BY <1>9, <2>9 DEF FinishRerun, Log
      <3>2. entry.outcome = "node_passed"
        OBVIOUS
      <3> HIDE DEF entry
      <3>3. Last(history').outcome = "node_passed"
        BY <3>1, <3>2 DEF Last
      <3> QED
        BY <2>4, <2>8, <2>9, <3>1, <3>3 DEF RecoveredByRerun
    <2>10. CASE ~passed
      <3>1. UNCHANGED status
        BY <1>9, <2>10 DEF FinishRerun
      <3> QED
        BY <2>3, <2>8, <2>10, <3>1 DEF RecoveredByRerun
    <2> QED
      BY <2>9, <2>10
  <1>10. CASE UNCHANGED vars
    BY <1>1, <1>10 DEF vars
  <1> QED
    BY <1>2, <1>3, <1>4, <1>5, <1>6, <1>7, <1>8, <1>9, <1>10
       DEF Next, Controller, Decider

(* recover reports RECOVERED exactly when the node passed a rerun that     *)
(* replaced none of its managed paths, and it does nothing after that.     *)
THEOREM RecoveryIsARerun == Spec => []RecoveredByRerun
  <1>1. Init => RecoveredByRerun
    BY DEF Init, RecoveredByRerun
  <1> QED
    BY <1>1, TurnInvAlways, RecoveredStep, PTL DEF Spec

-----------------------------------------------------------------------------
(* The budget *)

(* The number of the turn that is under way. *)
Turn == Len(history)

(* Requests of the turn that is under way. *)
Open ==
  IF pc = "decide" THEN (IF retry THEN 1 ELSE 0)
  ELSE IF pc \in {"wait", "read"} /\ ~retry THEN 1 ELSE 2

(* What was spent, without which requests belong to one decision. *)
Spent ==
  /\ remaining + Len(history) = Budget + (IF pc = "ended" /\ remaining > 0 THEN 1 ELSE 0)
  /\ \A i \in DOMAIN history : history[i].left + i = Budget + 1
  /\ \A n \in DOMAIN requests : requests[n].remaining + requests[n].turn = Budget

(* Requests before the open ones belong to earlier turns; turns never go   *)
(* back; the request that is waited for belongs to this turn.              *)
OpenInv ==
  /\ \A n \in DOMAIN requests : requests[n].turn <= Turn
  /\ \A n \in DOMAIN requests : n + Open <= Len(requests) => requests[n].turn < Turn
  /\ pc \in {"wait", "read"} => Last(requests).turn = Turn
  /\ pc \in {"act", "rerun"} => ~retry
  /\ brain = "rule" => ~retry /\ pc \notin {"wait", "read"}
  /\ \A m, n \in DOMAIN requests : requests[m].turn = requests[n].turn => m <= n + 1

(* Answers and outcomes of requests change, when they were asked does not. *)
SameRequests ==
  /\ DOMAIN requests' = DOMAIN requests /\ Len(requests') = Len(requests)
  /\ \A n \in DOMAIN requests : /\ requests'[n].turn = requests[n].turn
                                /\ requests'[n].remaining = requests[n].remaining

LEMMA EditsKeepRequests ==
  ASSUME TurnInv, NEW n \in DOMAIN requests
  PROVE  /\ \A a : requests' = [requests EXCEPT ![n].response = a] => SameRequests
         /\ \A k : requests' = [requests EXCEPT ![n].manifest = k] => SameRequests
  <1>1. requests[n] \in Asked /\ requests \in Seq(Asked)
    BY DEF TurnInv
  <1>2. ASSUME NEW a, requests' = [requests EXCEPT ![n].response = a]
        PROVE  SameRequests
    <2>1. /\ [requests[n] EXCEPT !.response = a].turn = requests[n].turn
          /\ [requests[n] EXCEPT !.response = a].remaining = requests[n].remaining
      BY <1>1 DEF Asked
    <2> QED
      BY <1>1, <1>2, <2>1 DEF SameRequests
  <1>3. ASSUME NEW k, requests' = [requests EXCEPT ![n].manifest = k]
        PROVE  SameRequests
    <2>1. /\ [requests[n] EXCEPT !.manifest = k].turn = requests[n].turn
          /\ [requests[n] EXCEPT !.manifest = k].remaining = requests[n].remaining
      BY <1>1 DEF Asked
    <2> QED
      BY <1>1, <1>3, <2>1 DEF SameRequests
  <1> QED
    BY <1>2, <1>3

LEMMA TurnsAreNumbers ==
  ASSUME TurnInv
  PROVE  \A n \in DOMAIN requests : requests[n].turn \in Nat
  <1>1. \A n \in DOMAIN requests : requests[n] \in Asked
    BY DEF TurnInv
  <1> QED
    BY <1>1 DEF Asked

LEMMA LastRequest ==
  ASSUME TurnInv, pc \in {"wait", "read"}
  PROVE  Len(requests) \in DOMAIN requests
  BY DEF TurnInv

LEMMA RegisteredKeepsRequests ==
  ASSUME TurnInv, pc \in {"wait", "read"}, NEW k, Registered(k)
  PROVE  SameRequests
  BY LastRequest, EditsKeepRequests DEF Registered

(* An entry of the history closes a turn. *)
LEMMA TurnCloses ==
  ASSUME TurnInv, Spent, OpenInv, pc \in {"act", "rerun"},
         NEW outcome \in Outcomes, Log(outcome),
         UNCHANGED <<requests, retry, brain>>, pc' \in {"decide", "ended"},
         pc' = "decide" => Pay(outcome),
         pc' = "ended" => UNCHANGED remaining
  PROVE  Spent' /\ OpenInv'
  <1> DEFINE entry == [decision |-> decision, outcome |-> outcome, left |-> remaining]
  <1>1. entry \in Entries /\ entry.left = remaining
    BY DEF TurnInv, Entries
  <1>2. history' = Append(history, entry)
    BY DEF Log
  <1> HIDE DEF entry
  <1>3. /\ Len(history') = Len(history) + 1
        /\ DOMAIN history' = 1..(Len(history) + 1)
        /\ history'[Len(history) + 1] = entry
        /\ \A i \in DOMAIN history : history'[i] = history[i]
        /\ Len(history) \in Nat /\ DOMAIN history = 1..Len(history)
    BY <1>1, <1>2 DEF TurnInv
  <1>4. remaining \in Nat /\ remaining > 0 /\ Budget \in Nat
    BY DEF TurnInv
  <1>5. remaining + Len(history) = Budget
    BY DEF Spent
  <1>6. \A i \in DOMAIN history' : history'[i].left + i = Budget + 1
    BY <1>1, <1>3, <1>4, <1>5 DEF Spent
  <1>7. Spent'
    BY <1>3, <1>4, <1>5, <1>6 DEF Spent, Pay
  <1>8. \A n \in DOMAIN requests : requests[n].turn \in Nat
    BY TurnsAreNumbers
  <1>9. OpenInv'
    BY <1>3, <1>8 DEF OpenInv, Turn, Open, Last
  <1> QED
    BY <1>7, <1>9

(* A step within a turn that makes no request. *)
LEMMA TurnGoesOn ==
  ASSUME TurnInv, TurnInv', Spent, OpenInv, SameRequests,
         UNCHANGED <<history, remaining>>, Open' >= Open,
         pc' \in {"wait", "read"} => pc \in {"wait", "read"},
         pc' \in {"act", "rerun"} => ~retry',
         UNCHANGED brain, brain = "rule" => ~retry',
         (pc = "ended") = (pc' = "ended") \/ remaining = 0
  PROVE  Spent' /\ OpenInv'
  <1>1. \A n \in DOMAIN requests : requests[n].turn \in Nat
    BY TurnsAreNumbers
  <1>2. Spent'
    BY DEF Spent, SameRequests
  <1>3. Open \in 0..2 /\ Open' \in 0..2
    BY DEF Open
  <1>4. Len(requests) \in Nat /\ DOMAIN requests = 1..Len(requests)
    BY DEF TurnInv
  <1>5. \A n \in DOMAIN requests' : n + Open' <= Len(requests') => requests'[n].turn < Turn'
    BY <1>3, <1>4 DEF OpenInv, SameRequests, Turn
  <1>6. pc' \in {"wait", "read"} => Last(requests').turn = Turn'
    BY LastRequest DEF OpenInv, SameRequests, Turn, Last
  <1>7. OpenInv'
    BY <1>5, <1>6 DEF OpenInv, SameRequests, Turn
  <1> QED
    BY <1>2, <1>7

LEMMA AskOpens ==
  ASSUME TurnInv, Spent, OpenInv, Ask
  PROVE  Spent' /\ OpenInv'
  <1> DEFINE new == [turn |-> Len(history), remaining |-> remaining,
                     response |-> NoAnswer, manifest |-> "none"]
  <1>1. requests' = Append(requests, new)
    BY DEF Ask
  <1>2. new.turn = Turn /\ new.remaining = remaining
    BY DEF Turn
  <1>3. new \in Asked
    BY DEF Asked, TurnInv, Ask, Kinds
  <1> HIDE DEF new
  <1>4. /\ Len(requests') = Len(requests) + 1
        /\ DOMAIN requests' = 1..(Len(requests) + 1)
        /\ requests'[Len(requests) + 1] = new
        /\ \A n \in DOMAIN requests : requests'[n] = requests[n]
        /\ Len(requests) \in Nat /\ DOMAIN requests = 1..Len(requests)
    BY <1>1, <1>3 DEF TurnInv
  <1>5. /\ pc = "decide" /\ pc' = "wait" /\ remaining > 0 /\ brain # "rule"
        /\ UNCHANGED <<history, remaining, retry, brain>>
    BY DEF Ask
  <1>6. remaining + Turn = Budget /\ Turn \in Nat
    BY <1>5 DEF Spent, TurnInv, Turn
  <1>7. Spent'
    <2>1. \A n \in DOMAIN requests' : requests'[n].remaining + requests'[n].turn = Budget
      BY <1>2, <1>4, <1>6 DEF Spent
    <2> QED
      BY <1>5, <2>1 DEF Spent
  <1>8. Open' = Open + 1 /\ Open \in {0, 1} /\ Turn' = Turn
    BY <1>5 DEF Open, Turn, TurnInv
  <1>9. \A n \in DOMAIN requests : requests[n].turn \in Nat
    BY TurnsAreNumbers
  <1>10. \A n \in DOMAIN requests' : n + Open' <= Len(requests') => requests'[n].turn < Turn'
    BY <1>4, <1>8, <1>9 DEF OpenInv
  <1>11. \A m, n \in DOMAIN requests' : requests'[m].turn = requests'[n].turn => m <= n + 1
    BY <1>2, <1>4, <1>6, <1>8, <1>9 DEF OpenInv
  <1>12. \A n \in DOMAIN requests' : requests'[n].turn <= Turn'
    BY <1>2, <1>4, <1>6, <1>8 DEF OpenInv
  <1>13. Last(requests').turn = Turn'
    BY <1>2, <1>4, <1>8 DEF Last
  <1> QED
    BY <1>5, <1>7, <1>10, <1>11, <1>12, <1>13 DEF OpenInv

LEMMA BudgetStep ==
  ASSUME TurnInv, TurnInv', Spent, OpenInv, [Next]_vars
  PROVE  Spent' /\ OpenInv'
  <1>1. ASSUME UNCHANGED requests
        PROVE  SameRequests
    BY <1>1 DEF SameRequests
  <1>2. CASE RuleDecide
    BY <1>1, <1>2, TurnGoesOn DEF RuleDecide, Open, OpenInv
  <1>3. CASE Ask
    BY <1>3, AskOpens
  <1>4. ASSUME NEW n \in DOMAIN requests, NEW answer \in Answers \cup {Garbled},
               Write(n, answer)
        PROVE  Spent' /\ OpenInv'
    <2>1. SameRequests
      BY <1>4, EditsKeepRequests DEF Write
    <2> QED
      BY <1>4, <2>1, TurnGoesOn DEF Write, Open, OpenInv
  <1>5. CASE Answered
    BY <1>1, <1>5, TurnGoesOn DEF Answered, Open, OpenInv
  <1>6. ASSUME NEW again \in BOOLEAN, pc \in {"wait", "read"}, Refused(again)
        PROVE  Spent' /\ OpenInv'
    <2>1. SameRequests
      BY <1>6, RegisteredKeepsRequests DEF Refused
    <2> QED
      BY <1>6, <2>1, TurnGoesOn DEF Refused, Open, OpenInv
  <1>7. CASE TimeOut
    BY <1>6, <1>7 DEF TimeOut
  <1>8. CASE Accept
    <2>1. SameRequests
      BY <1>8, RegisteredKeepsRequests DEF Accept
    <2> QED
      BY <1>8, <2>1, TurnGoesOn DEF Accept, Open, OpenInv
  <1>9. CASE Reject
    BY <1>6, <1>9 DEF Reject
  <1>10. CASE Exhausted
    BY <1>1, <1>10, TurnGoesOn DEF Exhausted, Open, OpenInv
  <1>11. CASE Stop
    BY <1>11, TurnCloses DEF Stop, Outcomes
  <1>12. ASSUME NEW outcome \in {"action_complete", "action_failed"}, Perform(outcome)
         PROVE  Spent' /\ OpenInv'
    BY <1>12, TurnCloses DEF Perform, Outcomes
  <1>13. CASE NotRerun
    BY <1>13, TurnCloses DEF NotRerun, Outcomes
  <1>14. CASE StartRerun
    BY <1>1, <1>14, TurnGoesOn DEF StartRerun, Open, OpenInv
  <1>15. ASSUME NEW passed \in BOOLEAN, FinishRerun(passed)
         PROVE  Spent' /\ OpenInv'
    BY <1>15, TurnCloses DEF FinishRerun, Outcomes
  <1>16. CASE Raise
    BY <1>1, <1>16, TurnGoesOn DEF Raise, Open, OpenInv
  <1>17. CASE UNCHANGED vars
    BY <1>1, <1>17, TurnGoesOn DEF vars, Open, OpenInv
  <1> QED
    BY <1>2, <1>3, <1>4, <1>5, <1>7, <1>8, <1>9, <1>10, <1>11, <1>12, <1>13,
       <1>14, <1>15, <1>16, <1>17 DEF Next, Controller, Decider

LEMMA BudgetAlways == Spec => [](TurnInv /\ Spent /\ OpenInv)
  <1>1. Init => Spent /\ OpenInv
    BY DEF Init, Spent, OpenInv
  <1> QED
    BY <1>1, TurnInvInit, TurnInvStep, BudgetStep, PTL DEF Spec

(* Whatever came of a turn costs one of the budget, the brain is told what *)
(* is left, and no decision of engine/brain.py takes a third request.      *)
THEOREM EveryTurnIsPaid == Spec => []BudgetIsSpent
  BY BudgetAlways, PTL DEF BudgetIsSpent, Spent, OpenInv

-----------------------------------------------------------------------------
(* Whose answer it was *)

(* One of the requests of this turn was answered completely with d, and    *)
(* those before it were given up.                                          *)
Traced(reqs, turn, d) ==
  \E n \in DOMAIN reqs :
    /\ reqs[n].turn = turn
    /\ reqs[n].response = d
    /\ reqs[n].manifest = d.action
    /\ \A m \in 1..(n - 1) : reqs[m].turn = turn => reqs[m].manifest = "BLOCKED"

(* What is done and what was done can be traced; of the requests of this   *)
(* turn only the one that is waited for is not yet given up.               *)
TraceInv ==
  brain # "rule" =>
    /\ \A i \in DOMAIN history :
         history[i].decision = Blocked \/ Traced(requests, i - 1, history[i].decision)
    /\ pc \in {"act", "rerun"} => decision = Blocked \/ Traced(requests, Turn, decision)
    /\ pc = "decide" =>
         \A n \in DOMAIN requests : requests[n].turn = Turn => requests[n].manifest = "BLOCKED"
    /\ pc \in {"wait", "read"} =>
         \A n \in 1..(Len(requests) - 1) :
           requests[n].turn = Turn => requests[n].manifest = "BLOCKED"

(* An answer and what became of it are never overwritten.                  *)
Settles(turns) ==
  /\ Len(requests') >= Len(requests)
  /\ \A n \in DOMAIN requests :
       /\ requests'[n].turn = requests[n].turn
       /\ requests[n].response \in Answers => requests'[n].response = requests[n].response
       /\ requests[n].turn \in turns => requests'[n].manifest = requests[n].manifest

LEMMA TracesStay ==
  ASSUME TurnInv, TurnInv', NEW turns, Settles(turns)
  PROVE  \A turn \in turns, d \in Answers : Traced(requests, turn, d) => Traced(requests', turn, d)
  <1> SUFFICES ASSUME NEW turn \in turns, NEW d \in Answers, Traced(requests, turn, d)
               PROVE  Traced(requests', turn, d)
    OBVIOUS
  <1>1. PICK n \in DOMAIN requests :
          /\ requests[n].turn = turn
          /\ requests[n].response = d
          /\ requests[n].manifest = d.action
          /\ \A m \in 1..(n - 1) : requests[m].turn = turn => requests[m].manifest = "BLOCKED"
    BY DEF Traced
  <1>2. /\ n \in DOMAIN requests' /\ n \in Nat
        /\ 1..(n - 1) \subseteq DOMAIN requests
    BY DEF TurnInv, Settles
  <1>3. \A m \in 1..(n - 1) : requests'[m].turn = turn => requests'[m].manifest = "BLOCKED"
    BY <1>1, <1>2 DEF Settles
  <1>4. /\ requests'[n].turn = turn
        /\ requests'[n].response = d
        /\ requests'[n].manifest = d.action
    BY <1>1 DEF Settles
  <1> QED
    BY <1>2, <1>3, <1>4 DEF Traced

LEMMA AskSettles ==
  ASSUME TurnInv, Ask
  PROVE  Settles(Nat)
  <1> DEFINE new == [turn |-> Len(history), remaining |-> remaining,
                     response |-> NoAnswer, manifest |-> "none"]
  <1>1. requests' = Append(requests, new)
    BY DEF Ask
  <1> HIDE DEF new
  <1> QED
    BY <1>1 DEF TurnInv, Settles

LEMMA WriteSettles ==
  ASSUME TurnInv, NEW n \in DOMAIN requests, NEW answer \in Answers \cup {Garbled},
         Write(n, answer)
  PROVE  Settles(Nat)
  <1>1. requests[n] \in Asked /\ requests \in Seq(Asked)
    BY DEF TurnInv
  <1>2. /\ [requests[n] EXCEPT !.response = answer].turn = requests[n].turn
        /\ [requests[n] EXCEPT !.response = answer].manifest = requests[n].manifest
    BY <1>1 DEF Asked
  <1>3. requests[n].response \notin Answers
    BY DEF Write, NoAnswer, Garbled, Answers
  <1>4. requests' = [requests EXCEPT ![n].response = answer]
    BY DEF Write
  <1> QED
    BY <1>1, <1>2, <1>3, <1>4 DEF Settles

LEMMA RegisteredSettles ==
  ASSUME TurnInv, OpenInv, pc \in {"wait", "read"}, NEW k, Registered(k)
  PROVE  /\ Settles(0..(Turn - 1))
         /\ requests'[Len(requests)].manifest = k
         /\ requests'[Len(requests)].response = requests[Len(requests)].response
         /\ \A n \in 1..(Len(requests) - 1) : requests'[n] = requests[n]
  <1> DEFINE last == Len(requests)
  <1>1. last \in DOMAIN requests /\ requests[last] \in Asked /\ requests \in Seq(Asked)
    BY LastRequest DEF TurnInv
  <1>2. /\ [requests[last] EXCEPT !.manifest = k].turn = requests[last].turn
        /\ [requests[last] EXCEPT !.manifest = k].response = requests[last].response
        /\ [requests[last] EXCEPT !.manifest = k].manifest = k
    BY <1>1 DEF Asked
  <1>3. requests' = [requests EXCEPT ![last].manifest = k]
    BY DEF Registered
  <1>4. requests[last].turn = Turn /\ Turn \in Nat
    BY DEF OpenInv, Last, TurnInv, Turn
  <1>5. requests[last].turn \notin 0..(Turn - 1)
    BY <1>4
  <1>6. /\ DOMAIN requests' = DOMAIN requests /\ Len(requests') = Len(requests)
        /\ requests'[last] = [requests[last] EXCEPT !.manifest = k]
        /\ \A n \in DOMAIN requests : n # last => requests'[n] = requests[n]
    BY <1>1, <1>3
  <1>7. DOMAIN requests = 1..last /\ last \in Nat
    BY <1>1
  <1> HIDE DEF last
  <1>8. \A n \in DOMAIN requests :
          /\ requests'[n].turn = requests[n].turn
          /\ requests'[n].response = requests[n].response
          /\ requests[n].turn \in 0..(Turn - 1) => requests'[n].manifest = requests[n].manifest
    BY <1>2, <1>5, <1>6
  <1>9. Settles(0..(Turn - 1))
    BY <1>6, <1>7, <1>8 DEF Settles
  <1>10. requests'[last].manifest = k /\ requests'[last].response = requests[last].response
    BY <1>2, <1>6
  <1>11. \A n \in 1..(last - 1) : requests'[n] = requests[n]
    BY <1>6, <1>7
  <1> QED
    BY <1>9, <1>10, <1>11 DEF last

(* What was done before stays traced in every step.                        *)
LEMMA PastStays ==
  ASSUME TurnInv, TurnInv', TraceInv, brain # "rule", UNCHANGED history,
         Settles(0..(Turn - 1)) \/ Settles(Nat)
  PROVE  \A i \in DOMAIN history' :
           history'[i].decision = Blocked \/ Traced(requests', i - 1, history'[i].decision)
  <1>1. /\ \A i \in DOMAIN history : history[i] \in Entries /\ i - 1 \in 0..(Turn - 1)
        /\ 0..(Turn - 1) \subseteq Nat
    BY DEF TurnInv, Turn
  <1>2. \A i \in DOMAIN history : history[i].decision \in Answers
    BY <1>1 DEF Entries
  <1>3. \A i \in DOMAIN history :
          Traced(requests, i - 1, history[i].decision) => Traced(requests', i - 1, history[i].decision)
    BY <1>1, <1>2, TracesStay
  <1> QED
    BY <1>3 DEF TraceInv

LEMMA TraceCloses ==
  ASSUME TurnInv, TurnInv', TraceInv, pc \in {"act", "rerun"}, OpenInv',
         NEW outcome \in Outcomes, Log(outcome), UNCHANGED <<requests, brain>>,
         pc' \in {"decide", "ended"}, OpenInv, UNCHANGED retry
  PROVE  TraceInv'
  <1> SUFFICES ASSUME brain # "rule" PROVE TraceInv'
    BY DEF TraceInv
  <1> DEFINE entry == [decision |-> decision, outcome |-> outcome, left |-> remaining]
  <1>1. history' = Append(history, entry) /\ entry.decision = decision
    BY DEF Log
  <1> HIDE DEF entry
  <1>2. /\ DOMAIN history' = 1..(Len(history) + 1)
        /\ history'[Len(history) + 1].decision = decision
        /\ \A i \in DOMAIN history : history'[i] = history[i]
        /\ Turn' = Turn + 1 /\ Turn = Len(history) /\ Turn \in Nat
        /\ DOMAIN history = 1..Len(history)
    BY <1>1 DEF TurnInv, Turn
  <1>3. \A turn, d : Traced(requests', turn, d) = Traced(requests, turn, d)
    BY DEF Traced
  <1>4. \A i \in DOMAIN history' :
          history'[i].decision = Blocked \/ Traced(requests', i - 1, history'[i].decision)
    BY <1>2, <1>3 DEF TraceInv
  <1>5. \A n \in DOMAIN requests : requests[n].turn \in Nat /\ requests[n].turn <= Turn
    BY TurnsAreNumbers DEF OpenInv
  <1>6. \A n \in DOMAIN requests' : requests'[n].turn # Turn'
    BY <1>2, <1>5
  <1> QED
    BY <1>4, <1>6 DEF TraceInv

LEMMA TraceStep ==
  ASSUME TurnInv, TurnInv', OpenInv, OpenInv', TraceInv, [Next]_vars
  PROVE  TraceInv'
  <1> SUFFICES ASSUME brain # "rule", brain' = brain PROVE TraceInv'
    BY DEF TraceInv, Next, Controller, Decider, vars, RuleDecide, Ask, Answered,
           TimeOut, Accept, Reject, Refused, Exhausted, Stop, NotRerun, StartRerun,
           Raise, Perform, FinishRerun, Write
  <1>1. ASSUME UNCHANGED <<requests, history>>
        PROVE  /\ Settles(Nat) /\ Turn' = Turn
               /\ \A turn, d : Traced(requests', turn, d) = Traced(requests, turn, d)
    BY <1>1 DEF Settles, Turn, Traced, TurnInv
  <1>2. CASE RuleDecide
    BY <1>2 DEF RuleDecide
  <1>3. CASE Ask
    <2>1. /\ UNCHANGED history /\ pc = "decide" /\ pc' = "wait" /\ Turn' = Turn
      BY <1>3 DEF Ask, Turn
    <2>2. Settles(Nat)
      BY <1>3, AskSettles
    <2>3. Len(requests') = Len(requests) + 1 /\ Len(requests) \in Nat
      BY <1>3 DEF Ask, TurnInv
    <2>4. DOMAIN requests = 1..Len(requests)
      BY DEF TurnInv
    <2>5. \A n \in 1..(Len(requests') - 1) :
            requests'[n].turn = Turn' => requests'[n].manifest = "BLOCKED"
      BY <2>1, <2>2, <2>3, <2>4, TurnsAreNumbers DEF TraceInv, Settles
    <2> QED
      BY <2>1, <2>2, <2>5, PastStays DEF TraceInv
  <1>4. ASSUME NEW n \in DOMAIN requests, NEW answer \in Answers \cup {Garbled},
               Write(n, answer)
        PROVE  TraceInv'
    <2>1. UNCHANGED <<history, pc, decision>> /\ Turn' = Turn
      BY <1>4 DEF Write, Turn
    <2>2. Settles(Nat)
      BY <1>4, WriteSettles
    <2>3. Len(requests') = Len(requests) /\ DOMAIN requests' = DOMAIN requests
      BY <1>4 DEF Write, TurnInv
    <2>4. \A m \in DOMAIN requests : /\ requests'[m].turn = requests[m].turn
                                     /\ requests'[m].manifest = requests[m].manifest
      BY <2>2, TurnsAreNumbers DEF Settles
    <2>5. Traced(requests, Turn, decision) => Traced(requests', Turn, decision)
      <3>1. Turn \in Nat /\ decision \in Answers
        BY DEF TurnInv, Turn
      <3> QED
        BY <2>2, <3>1, TracesStay
    <2>6. DOMAIN requests = 1..Len(requests) /\ Len(requests) \in Nat
      BY DEF TurnInv
    <2>7. \A i \in DOMAIN history' :
            history'[i].decision = Blocked \/ Traced(requests', i - 1, history'[i].decision)
      BY <2>1, <2>2, PastStays
    <2>8. pc' = "decide" => \A m \in DOMAIN requests' :
            requests'[m].turn = Turn' => requests'[m].manifest = "BLOCKED"
      BY <2>1, <2>3, <2>4 DEF TraceInv
    <2>9. pc' \in {"wait", "read"} => \A m \in 1..(Len(requests') - 1) :
            requests'[m].turn = Turn' => requests'[m].manifest = "BLOCKED"
      BY <2>1, <2>3, <2>4, <2>6 DEF TraceInv
    <2>10. pc' \in {"act", "rerun"} => decision' = Blocked \/ Traced(requests', Turn, decision)
      BY <2>1, <2>5 DEF TraceInv
    <2> QED
      BY <2>1, <2>7, <2>8, <2>9, <2>10 DEF TraceInv
  <1>5. CASE Answered
    <2>1. pc = "wait" /\ pc' = "read"
      BY <1>5 DEF Answered
    <2> QED
      BY <1>1, <1>5, <2>1 DEF TraceInv, Answered
  <1>6. ASSUME NEW again \in BOOLEAN, pc \in {"wait", "read"}, Refused(again)
        PROVE  TraceInv'
    <2>1. /\ UNCHANGED history /\ Turn' = Turn
          /\ pc' = "decide" \/ (pc' = "act" /\ decision' = Blocked)
      BY <1>6 DEF Refused, Turn
    <2>2. /\ Settles(0..(Turn - 1))
          /\ requests'[Len(requests)].manifest = "BLOCKED"
          /\ \A n \in 1..(Len(requests) - 1) : requests'[n] = requests[n]
      BY <1>6, RegisteredSettles DEF Refused
    <2>3. /\ DOMAIN requests' = 1..Len(requests) /\ Len(requests) \in Nat
      BY <1>6 DEF Refused, Registered, TurnInv
    <2>4. \A n \in DOMAIN requests' :
            requests'[n].turn = Turn' => requests'[n].manifest = "BLOCKED"
      BY <1>6, <2>1, <2>2, <2>3 DEF TraceInv
    <2> QED
      BY <2>1, <2>2, <2>4, PastStays DEF TraceInv
  <1>7. CASE TimeOut
    BY <1>6, <1>7 DEF TimeOut
  <1>8. CASE Accept
    <2> DEFINE last == Len(requests)
    <2>1. /\ pc = "read" /\ pc' = "act" /\ UNCHANGED history /\ Turn' = Turn
          /\ decision' = requests[last].response /\ Registered(decision'.action)
      BY <1>8 DEF Accept, Response, Last, Turn
    <2>2. /\ Settles(0..(Turn - 1))
          /\ requests'[last].manifest = decision'.action
          /\ requests'[last].response = decision'
          /\ \A n \in 1..(last - 1) : requests'[n] = requests[n]
      BY <2>1, RegisteredSettles
    <2>3. last \in DOMAIN requests' /\ DOMAIN requests' = DOMAIN requests
      BY <2>1, LastRequest DEF Registered, TurnInv
    <2>4. Len(requests') = last
      BY <2>1 DEF Registered, TurnInv
    <2>5. requests'[last].turn = Turn
      BY <2>1, <2>3, RegisteredKeepsRequests DEF SameRequests, OpenInv, Last
    <2>6. \A n \in 1..(last - 1) :
            requests'[n].turn = Turn => requests'[n].manifest = "BLOCKED"
      BY <2>1, <2>2 DEF TraceInv
    <2> HIDE DEF last
    <2>7. Traced(requests', Turn', decision')
      BY <2>1, <2>2, <2>3, <2>5, <2>6 DEF Traced
    <2> QED
      BY <2>1, <2>2, <2>7, PastStays DEF TraceInv
  <1>9. CASE Reject
    BY <1>6, <1>9 DEF Reject
  <1>10. CASE Exhausted
    BY <1>1, <1>10 DEF TraceInv, Exhausted
  <1>11. CASE Stop
    BY <1>11, TraceCloses DEF Stop, Outcomes
  <1>12. ASSUME NEW outcome \in {"action_complete", "action_failed"}, Perform(outcome)
         PROVE  TraceInv'
    BY <1>12, TraceCloses DEF Perform, Outcomes
  <1>13. CASE NotRerun
    BY <1>13, TraceCloses DEF NotRerun, Outcomes
  <1>14. CASE StartRerun
    BY <1>1, <1>14 DEF TraceInv, StartRerun
  <1>15. ASSUME NEW passed \in BOOLEAN, FinishRerun(passed)
         PROVE  TraceInv'
    BY <1>15, TraceCloses DEF FinishRerun, Outcomes
  <1>16. CASE Raise
    BY <1>1, <1>16 DEF TraceInv, Raise
  <1>17. CASE UNCHANGED vars
    BY <1>1, <1>17 DEF TraceInv, vars
  <1> QED
    BY <1>2, <1>3, <1>4, <1>5, <1>7, <1>8, <1>9, <1>10, <1>11, <1>12, <1>13,
       <1>14, <1>15, <1>16, <1>17 DEF Next, Controller, Decider

(* What was done for a decider was its complete answer to a request of     *)
(* that very turn, recorded in the directory of the request, and every     *)
(* request it was asked before in the turn is recorded as given up.        *)
THEOREM AnswersAreTraced == Spec => []ActsOnAnswers
  <1>1. Init => TraceInv
    BY DEF Init, TraceInv
  <1>2. TraceInv => ActsOnAnswers
    BY DEF TraceInv, ActsOnAnswers, Traced
  <1> QED
    BY <1>1, <1>2, BudgetAlways, TurnInvStep, TraceStep, PTL DEF Spec
=============================================================================
