------------------------------ MODULE GraphWalk ------------------------------
(***************************************************************************)
(* The walk over a workflow (src/runners/graph_runner.py) and the journal  *)
(* of facts it leaves and reuses (src/engine/state/journal.py), without a  *)
(* scheduler.  One walk at a time; a walk may be killed and started anew   *)
(* from the journal, while evidence on disk and methods change.            *)
(*                                                                         *)
(* Each node produces one kind of fact, so kinds are called by their node. *)
(***************************************************************************)
EXTENDS Naturals, Sequences

CONSTANTS
  Nodes,          \* of the workflow
  Entry,          \* the first of them
  OnSuccess,      \* edges to a node or out of the workflow
  OnFailure,
  Needs,          \* the facts a node cannot run without
  Optional,       \* the facts it uses if they are there
  Prover,         \* environment_proof
  Plan,           \* deployment_plan
  Triage,         \* failure_triage
  ModelScoped,    \* nodes whose facts are looked up whatever the environment
  FanOut,         \* nodes that are never reused
  Fingerprints,   \* of environments that may be proven
  Methods,        \* versions of a method
  VisitLimit,     \* visits of a node in one walk; 3 in the code
  RecoveryBudget, \* reruns of a failed node
  Requests,       \* bound: what is asked of a walk, its command line
  Revisable,      \* bound: nodes whose method changes
  Fragile         \* bound: nodes whose evidence is damaged

Nowhere == "nowhere"      \* no --from-node, no --until-node
Base == "base"            \* the environment before one is proven
NoMethod == "no method"   \* no skill is registered, or more than one fits

Inputs(n) == Needs[n] \cup Optional[n]

ASSUME WorkflowAssumption ==
  /\ Nowhere \notin Nodes
  /\ {Entry, Prover, Triage, Plan} \subseteq Nodes
  /\ OnSuccess \in [Nodes -> Nodes \cup {"DELIVERED"}]
  /\ OnFailure \in [Nodes -> Nodes \cup {"NEEDS_HUMAN"}]
  /\ Needs \in [Nodes -> SUBSET Nodes] /\ Optional \in [Nodes -> SUBSET Nodes]
  /\ Prover \in ModelScoped /\ Inputs(Prover) = {}
  /\ \A n \in ModelScoped \cap Nodes : Inputs(n) \subseteq ModelScoped
  /\ OnFailure[Prover] \notin Nodes
  /\ Requests \subseteq [from : Nodes \cup {Nowhere}, until : Nodes \cup {Nowhere},
                          resume : BOOLEAN, recover : BOOLEAN]

ASSUME ValuesAssumption ==
  /\ Base \notin Fingerprints /\ NoMethod \notin Methods /\ Methods # {}
  /\ VisitLimit \in Nat \ {0} /\ RecoveryBudget \in Nat

VARIABLES
  journal,   \* the newest fact of each node in each environment, in the order
             \* of the file; nothing ever reads an older one
  method,    \* the registered method of each node
  pc,        \* of the walk
  request,   \* what was asked for
  env,       \* the environment the walk is bound to
  current,   \* the node it is at
  visits,    \* of each node in this walk
  skill,     \* the method the running node got
  left,      \* reruns left to recover the node
  used,      \* nodes that passed or were reused in this walk
  exit       \* why the last walk ended

walk == <<request, env, current, visits, skill, left, used, exit>>
vars == <<journal, method, pc, walk>>

NoRequest == [from |-> Nowhere, until |-> Nowhere, resume |-> FALSE, recover |-> FALSE]

Init ==
  /\ journal = <<>>
  /\ method = [n \in Nodes |-> CHOOSE m \in Methods : TRUE]
  /\ pc = "idle"
  /\ request = NoRequest
  /\ env = Base
  /\ current = Entry
  /\ visits = [n \in Nodes |-> 0]
  /\ skill = NoMethod
  /\ left = 0
  /\ used = {}
  /\ exit = "none"

-----------------------------------------------------------------------------
(* Facts.  Sets of positions in the journal that have at most one element. *)

Scope(n) == IF n \in ModelScoped THEN Base ELSE env

Newest(n) == {i \in DOMAIN journal : journal[i].node = n /\ journal[i].scope = Scope(n)}

(* The newest fact, if it is a success and its evidence is as recorded. *)
Usable(n) ==
  {i \in Newest(n) :
     /\ journal[i].passed /\ journal[i].intact
     /\ n = Prover => env \in {Base, journal[i].proven}}

(* A fact that the method of today would produce. *)
Verified(n) == {i \in Usable(n) : journal[i].method = method[n]}

(* Everything a verified fact was made from is still verified and is older.*)
(* A kind that is met again on the way down is never current.              *)
Current[n \in Nodes] ==
  [seen \in SUBSET Nodes |->
     /\ n \notin seen
     /\ \A k \in Needs[n] : Verified(k) # {}
     /\ \A k \in Optional[n] : Usable(k) # {} => Verified(k) # {}
     /\ \A k \in Inputs(n) : \A i \in Verified(k), j \in Verified(n) :
          i < j /\ Current[k][seen \cup {n}]]

(* Defect: only the direct inputs are looked at. *)
BugReusable(n) ==
  /\ request.resume
  /\ n \notin FanOut
  /\ Verified(n) # {}
  /\ \A k \in Needs[n] : Verified(k) # {}
  /\ \A k \in Inputs(n) : \A i \in Verified(k), j \in Verified(n) : i < j

Reusable(n) ==
  /\ request.resume
  /\ n \notin FanOut
  /\ Verified(n) # {}
  /\ Current[n][{}]

(* Defect: whatever was recorded last. *)
BugFound(k, verify) == Newest(k)

(* The fact a node gets for an input.  Methods are compared only if the    *)
(* walk was told where to start.                                           *)
Found(k, verify) == IF verify THEN Verified(k) ELSE Usable(k)

Verifies == request.from # Nowhere

(* Positions of facts triage could be about; only the last one is. *)
Results == {i \in DOMAIN journal :
              /\ journal[i].node \notin {Triage, Prover}
              /\ journal[i].scope = Scope(journal[i].node)}

LatestFailure ==
  {i \in Results : /\ \A j \in Results : j <= i
                   /\ ~journal[i].passed /\ journal[i].intact}

Resolved(n, verify) ==
  /\ \A k \in Needs[n] : Found(k, verify) # {}
  /\ n = Triage /\ Found(Plan, verify) = {} => LatestFailure # {}

(* All facts but the one that a new fact of the node at work replaces. *)
Others ==
  IF Newest(current) = {} THEN journal
  ELSE LET i == CHOOSE i \in Newest(current) : TRUE
       IN [j \in 1..(Len(journal) - 1) |-> journal[IF j < i THEN j ELSE j + 1]]

(* A fact that consumed the one replaced does not rest on it any more. *)
Aged(fact) ==
  IF fact.scope = env \/ current \in ModelScoped
  THEN [fact EXCEPT !.rests = @ \ {current}] ELSE fact

(* record_fact.  "rests" says which needs of a success it was made from *)
(* and no newer result has replaced.                                    *)
Recorded(outcome, proven) ==
  Append([i \in DOMAIN Others |-> Aged(Others[i])],
         [node |-> current, scope |-> Scope(current),
          passed |-> outcome = "pass", intact |-> TRUE, method |-> skill,
          rests |-> IF outcome = "pass" THEN Needs[current] ELSE {},
          proven |-> proven])

(* bind_proven_environment *)
Bound(facts) ==
  LET proofs == {i \in DOMAIN facts :
                   facts[i].node = Prover /\ facts[i].passed /\ facts[i].intact}
  IN IF proofs = {} THEN Base ELSE facts[CHOOSE i \in proofs : TRUE].proven

-----------------------------------------------------------------------------
(* The walk *)

Settled == skill' = NoMethod /\ left' = 0

Leave(why) ==
  /\ pc' = "idle" /\ exit' = why
  /\ current' = Entry /\ visits' = [n \in Nodes |-> 0]
  /\ Settled

(* The process ends and with it what it knew. *)
Stop(why) == Leave(why) /\ request' = NoRequest /\ env' = Base /\ used' = {}

GoTo(node, bound, counts) ==
  /\ pc' = "at" /\ current' = node
  /\ env' = bound /\ visits' = counts
  /\ Settled
  /\ UNCHANGED <<request, exit>>

(* On along the edge of success, unless the walk was to end here.  What is *)
(* known of a walk that delivers is kept to look back on.                  *)
Succeed(bound, counts) ==
  \/ /\ request.until = current
     /\ Stop("UNTIL_NODE_REACHED")
  \/ /\ request.until # current
     /\ used' = used \cup {current}
     /\ \/ /\ OnSuccess[current] \in Nodes
           /\ GoTo(OnSuccess[current], bound, counts)
        \/ /\ OnSuccess[current] \notin Nodes
           /\ Leave(OnSuccess[current])
           /\ env' = bound
           /\ UNCHANGED request

Start(req) ==
  /\ pc = "idle"
  /\ pc' = "at"
  /\ request' = req
  /\ env' = Bound(journal)
  /\ current' = IF req.from = Nowhere THEN Entry ELSE req.from
  /\ used' = {} /\ exit' = "none"
  /\ UNCHANGED <<journal, method, visits, skill, left>>

CycleStop ==
  /\ pc = "at" /\ visits[current] = VisitLimit
  /\ Stop("FAILURE_EDGE_CYCLE")
  /\ UNCHANGED <<journal, method>>

Visit == pc = "at" /\ visits[current] < VisitLimit

(* Defect: a visit is only counted the first time. *)
BugCounted == [visits EXCEPT ![current] = 1]

Counted == [visits EXCEPT ![current] = @ + 1]

NoSkill ==
  /\ Visit /\ method[current] = NoMethod
  /\ Stop("SKILL_UNRESOLVED")
  /\ UNCHANGED <<journal, method>>

Reuse ==
  /\ Visit /\ method[current] # NoMethod
  /\ Reusable(current)
  /\ Succeed(env, Counted)
  /\ UNCHANGED <<journal, method>>

Unresolved ==
  /\ Visit /\ method[current] # NoMethod
  /\ ~Reusable(current)
  /\ ~Resolved(current, Verifies)
  /\ Stop("INPUT_UNRESOLVED")
  /\ UNCHANGED <<journal, method>>

Begin ==
  /\ Visit /\ method[current] # NoMethod
  /\ ~Reusable(current)
  /\ Resolved(current, Verifies)
  /\ pc' = "running"
  /\ skill' = method[current]
  /\ visits' = Counted
  /\ UNCHANGED <<journal, method, request, env, current, left, used, exit>>

Proven == IF current = Prover THEN Fingerprints ELSE {Base}

(* The commands end; exit code, state and validator together say how. *)
Pass(proven) ==
  /\ pc = "running"
  /\ journal' = Recorded("pass", proven)
  /\ Succeed(IF current = Prover THEN Bound(journal') ELSE env, visits)
  /\ UNCHANGED method

(* A failed proof stops the walk, and so does a triage that needs a human. *)
FailAndStop(proven) ==
  /\ pc = "running" /\ current \in {Prover, Triage}
  /\ journal' = Recorded("fail", proven)
  /\ Stop(IF current = Prover THEN "ENVIRONMENT_FAILED" ELSE "FAILURE_DIAGNOSIS_REQUIRED")
  /\ UNCHANGED method

Fail ==
  /\ pc = "running" /\ current # Prover
  /\ journal' = Recorded("fail", Base)
  /\ used' = used \ {current}
  /\ pc' = "failed"
  /\ left' = IF request.recover THEN RecoveryBudget ELSE 0
  /\ UNCHANGED <<method, request, env, current, visits, skill, exit>>

(* A rerun of the recovery controller (module Recovery).  It never         *)
(* compares the methods of its inputs.                                     *)
Rerun(outcome) ==
  /\ pc = "failed" /\ left > 0
  /\ Resolved(current, FALSE)
  /\ journal' = Recorded(outcome, Base)
  /\ \/ outcome = "pass" /\ Succeed(env, visits)
     \/ /\ outcome = "fail"
        /\ left' = left - 1
        /\ UNCHANGED <<pc, request, env, current, visits, skill, used, exit>>
  /\ UNCHANGED method

(* No recovery was asked for, or it did not help. *)
Rework ==
  /\ pc = "failed"
  /\ \/ /\ OnFailure[current] \in Nodes
        /\ GoTo(OnFailure[current], env, visits)
        /\ UNCHANGED used
     \/ /\ OnFailure[current] \notin Nodes
        /\ Stop(OnFailure[current])
  /\ UNCHANGED <<journal, method>>

Step ==
  \/ CycleStop \/ NoSkill \/ Reuse \/ Unresolved \/ Begin
  \/ \E proven \in Proven : Pass(proven) \/ FailAndStop(proven)
  \/ Fail \/ Rework
  \/ \E outcome \in {"pass", "fail"} : Rerun(outcome)

-----------------------------------------------------------------------------
(* What happens around the walk *)

Kill ==
  /\ pc # "idle"
  /\ Stop("killed")
  /\ UNCHANGED <<journal, method>>

Damage(i) ==
  /\ journal[i].intact /\ journal[i].node \in Fragile
  /\ journal' = [journal EXCEPT ![i].intact = FALSE]
  /\ UNCHANGED <<method, pc, walk>>

Revise(n, m) ==
  /\ method' = [method EXCEPT ![n] = m]
  /\ UNCHANGED <<journal, pc, walk>>

Next ==
  \/ \E req \in Requests : Start(req)
  \/ Step
  \/ Kill
  \/ \E i \in DOMAIN journal : Damage(i)
  \/ \E n \in Revisable, m \in Methods \cup {NoMethod} : Revise(n, m)

Spec == Init /\ [][Next]_vars

(* A walk that is not killed goes on. *)
LiveSpec == Spec /\ WF_vars(Step)

-----------------------------------------------------------------------------
Exits == {"none", "killed", "DELIVERED", "NEEDS_HUMAN", "UNTIL_NODE_REACHED",
          "FAILURE_EDGE_CYCLE", "SKILL_UNRESOLVED", "INPUT_UNRESOLVED",
          "ENVIRONMENT_FAILED", "FAILURE_DIAGNOSIS_REQUIRED"}

Facts == [node : Nodes, scope : Fingerprints \cup {Base}, passed : BOOLEAN,
          intact : BOOLEAN, method : Methods, rests : SUBSET Nodes,
          proven : Fingerprints \cup {Base}]

TypeOK ==
  /\ journal \in Seq(Facts)
  /\ method \in [Nodes -> Methods \cup {NoMethod}]
  /\ pc \in {"idle", "at", "running", "failed"}
  /\ request \in Requests \cup {NoRequest}
  /\ env \in Fingerprints \cup {Base}
  /\ current \in Nodes
  /\ visits \in [Nodes -> 0..VisitLimit]
  /\ skill \in Methods \cup {NoMethod}
  /\ left \in 0..RecoveryBudget
  /\ used \in SUBSET Nodes
  /\ exit \in Exits

(* What a walk over the whole workflow delivers is of one piece: every     *)
(* fact passed in the environment that the delivered proof proves, and was *)
(* made from exactly the facts of its needs that are delivered with it,    *)
(* whether this walk made them, recovered them or found them.  Only the    *)
(* plan may come from before this walk, of which the code checks no more   *)
(* than that it is the newest and passed in this environment: its own      *)
(* inputs may have been replaced since.  It serves only a walk that could  *)
(* not make a plan and was repaired after a diagnosis.                     *)
DeliveredOfOnePiece ==
  exit = "DELIVERED" /\ request.from \in {Nowhere, Entry} =>
    /\ Prover \in used
    /\ Plan \in used \/ Triage \in used
    /\ \A n \in used :
         /\ Needs[n] \ {Plan} \subseteq used
         /\ \E i \in Newest(n) :
              /\ journal[i].passed
              /\ Needs[n] \subseteq journal[i].rests
              /\ n = Prover => journal[i].proven = env

(* A node is skipped only for a fact whose whole ancestry stands: there is *)
(* a set of facts, closed under what they need, in which each passed, is   *)
(* as recorded, is what the method of today produces, and was made from    *)
(* the others and not from results they have replaced.                     *)
ReusedStandsOnItsInputs ==
  [][Reuse => \E closed \in SUBSET Nodes :
       /\ current \in closed
       /\ \A n \in closed :
            /\ Needs[n] \subseteq closed
            /\ \E i \in Verified(n) : Needs[n] \subseteq journal[i].rests]_vars

(* The failure edges form cycles; every walk ends all the same, also one   *)
(* that runs into the same failures for ever.                              *)
WalkEnds == []<>(pc = "idle")
=============================================================================
