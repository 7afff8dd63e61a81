-------------------------- MODULE OperatorPipeline --------------------------
(***************************************************************************)
(* What the scheduler promises about each operator of a run, without rows, *)
(* leases, tokens, clocks, files or diagnosis workers: an operator passes  *)
(* torch, xpu and integration in this order; one worker at a time works on *)
(* its current stage and alone decides it; a rejected stage stays rejected *)
(* until one conclusion about that very rejection asks for a retry, and a  *)
(* conclusion is spent by the retry it causes.                             *)
(***************************************************************************)
CONSTANTS Operators, NextActions

VARIABLES
  position,   \* the stage an operator is at, "unknown" or "done"
  condition,  \* of that stage: "idle", "held" or "rejected"
  conclusion  \* about its rejection: "none", "open" or a next action

pipeline == <<position, condition, conclusion>>

Order == [torch |-> "xpu", xpu |-> "integration", integration |-> "done"]

PipelineInit ==
  /\ position = [o \in Operators |-> "unknown"]
  /\ condition = [o \in Operators |-> "idle"]
  /\ conclusion = [o \in Operators |-> "none"]

Enter(o) ==
  /\ position[o] = "unknown"
  /\ position' = [position EXCEPT ![o] = "torch"]
  /\ UNCHANGED <<condition, conclusion>>

(* Stages under work are put back and stages at rest are taken up, any *)
(* number of them at once; a stage put back may be taken again.        *)
Schedule(back, taken) ==
  /\ \A o \in back : condition[o] = "held"
  /\ \A o \in taken : /\ position[o] \in DOMAIN Order
                      /\ condition[o] = "idle" \/ o \in back
  /\ condition' = [o \in Operators |->
                     IF o \in taken THEN "held"
                     ELSE IF o \in back THEN "idle" ELSE condition[o]]
  /\ UNCHANGED <<position, conclusion>>

AcceptStage(o) ==
  /\ condition[o] = "held"
  /\ position' = [position EXCEPT ![o] = Order[@]]
  /\ condition' = [condition EXCEPT ![o] = "idle"]
  /\ UNCHANGED conclusion

RejectStage(o) ==
  /\ condition[o] = "held"
  /\ condition' = [condition EXCEPT ![o] = "rejected"]
  /\ conclusion' = [conclusion EXCEPT ![o] = "open"]
  /\ UNCHANGED position

Conclude(o, action) ==
  /\ conclusion[o] = "open"
  /\ conclusion' = [conclusion EXCEPT ![o] = action]
  /\ UNCHANGED <<position, condition>>

Retry(o) ==
  /\ conclusion[o] = "RETRY"
  /\ condition' = [condition EXCEPT ![o] = "idle"]
  /\ conclusion' = [conclusion EXCEPT ![o] = "none"]
  /\ UNCHANGED position

PipelineNext ==
  \/ \E back, taken \in SUBSET Operators : Schedule(back, taken)
  \/ \E o \in Operators :
       \/ Enter(o) \/ AcceptStage(o) \/ RejectStage(o) \/ Retry(o)
       \/ \E action \in NextActions : Conclude(o, action)

PipelineSpec == PipelineInit /\ [][PipelineNext]_pipeline
=============================================================================
