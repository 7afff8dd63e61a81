-------------------------- MODULE GraphWalk_proofs --------------------------
(***************************************************************************)
(* Proofs about GraphWalk for every workflow, every number of environments *)
(* and methods, every limit, and whatever is damaged or revised between    *)
(* the steps of a walk.  Only the last theorem assumes something of how    *)
(* the nodes hang together, LoopAssumption.  TLC evaluates it for the      *)
(* instances and, as WorkflowHangsTogether, for the whole workflow of      *)
(* model_adaptation.yaml: with other edges a walk may deliver what does    *)
(* not belong together.                                                    *)
(*                                                                         *)
(* Current is a recursive function over sets of nodes.  That its rule has  *)
(* a solution is shown without an order on its arguments: the rule, taken  *)
(* as an operator on sets of pairs, is monotone and so has a fixed point.  *)
(* What reuse means then rests on the journal: it has one fact of a node   *)
(* in an environment, new facts come last, and a success keeps resting on  *)
(* each of its needs until a newer result of that need follows it.         *)
(*                                                                         *)
(* What a walk delivers is of one piece because a fact that lost its hold  *)
(* on a need is made anew before the walk delivers: where a need can be    *)
(* visited again, every way on leads past the node that needs it.  And     *)
(* what a node needs was used, because it lies on every way to the node    *)
(* and a node that failed has no success to be found.                      *)
(***************************************************************************)
EXTENDS MCGraphWalk, SequenceTheorems, TLAPS

-----------------------------------------------------------------------------
(* What it means to be current *)

(* The rule of current for node n met below the nodes seen, with current   *)
(* itself given as a set of such pairs.                                    *)
Stands(pairs, n, seen) ==
  /\ n \notin seen
  /\ \A k \in Needs[n] : Verified(k) # {}
  /\ \A k \in Optional[n] : Usable(k) # {} => Verified(k) # {}
  /\ \A k \in Inputs(n) : \A i \in Verified(k), j \in Verified(n) :
       i < j /\ <<k, seen \cup {n}>> \in pairs

Meetings == Nodes \X SUBSET Nodes

Grown(pairs) == {p \in Meetings : Stands(pairs, p[1], p[2])}

(* The greatest set that the rule maps to itself. *)
Standing == UNION {pairs \in SUBSET Meetings : pairs \subseteq Grown(pairs)}

LEMMA GrownIsMonotone ==
  ASSUME NEW small, NEW large, small \subseteq large
  PROVE  Grown(small) \subseteq Grown(large)
  BY DEF Grown, Stands

LEMMA StandingIsFixed == Grown(Standing) = Standing
  <1>1. Standing \subseteq Grown(Standing)
    <2> SUFFICES ASSUME NEW p \in Standing PROVE p \in Grown(Standing)
      OBVIOUS
    <2>1. PICK pairs \in SUBSET Meetings : pairs \subseteq Grown(pairs) /\ p \in pairs
      BY DEF Standing
    <2>2. pairs \subseteq Standing
      BY <2>1 DEF Standing
    <2> QED
      BY <2>1, <2>2, GrownIsMonotone
  <1>2. Grown(Standing) \subseteq Standing
    <2>1. Grown(Standing) \subseteq Grown(Grown(Standing))
      BY <1>1, GrownIsMonotone
    <2>2. Grown(Standing) \in SUBSET Meetings
      BY DEF Grown
    <2> QED
      BY <2>1, <2>2 DEF Standing
  <1> QED
    BY <1>1, <1>2

LEMMA InputsAreNodes ==
  ASSUME NEW n \in Nodes
  PROVE  Needs[n] \subseteq Nodes /\ Optional[n] \subseteq Nodes /\ Inputs(n) \subseteq Nodes
  BY WorkflowAssumption DEF Inputs

(* The recursive definition has a solution, so current obeys its rule. *)
LEMMA CurrentByRule ==
  ASSUME NEW n \in Nodes, NEW seen \in SUBSET Nodes
  PROVE  Current[n][seen] =
           /\ n \notin seen
           /\ \A k \in Needs[n] : Verified(k) # {}
           /\ \A k \in Optional[n] : Usable(k) # {} => Verified(k) # {}
           /\ \A k \in Inputs(n) : \A i \in Verified(k), j \in Verified(n) :
                i < j /\ Current[k][seen \cup {n}]
  <1> DEFINE Rule(f) ==
        [m \in Nodes |-> [s \in SUBSET Nodes |->
           /\ m \notin s
           /\ \A k \in Needs[m] : Verified(k) # {}
           /\ \A k \in Optional[m] : Usable(k) # {} => Verified(k) # {}
           /\ \A k \in Inputs(m) : \A i \in Verified(k), j \in Verified(m) :
                i < j /\ f[k][s \cup {m}]]]
      solution == [m \in Nodes |-> [s \in SUBSET Nodes |-> <<m, s>> \in Standing]]
  <1>1. ASSUME NEW m \in Nodes, NEW s \in SUBSET Nodes
        PROVE  (<<m, s>> \in Standing) = Stands(Standing, m, s)
    <2>1. <<m, s>> \in Standing <=> <<m, s>> \in Grown(Standing)
      BY StandingIsFixed
    <2>2. <<m, s>> \in Grown(Standing) <=> Stands(Standing, m, s)
      BY <1>1 DEF Grown, Meetings
    <2>3. Stands(Standing, m, s) \in BOOLEAN
      BY DEF Stands
    <2> QED
      BY <2>1, <2>2, <2>3
  <1>2. /\ solution = [m \in Nodes |-> solution[m]]
        /\ \A m \in Nodes : /\ solution[m] = [s \in SUBSET Nodes |-> solution[m][s]]
                             /\ \A s \in SUBSET Nodes : solution[m][s] = (<<m, s>> \in Standing)
    OBVIOUS
  <1> HIDE DEF solution
  <1>3. ASSUME NEW m \in Nodes, NEW s \in SUBSET Nodes
        PROVE  solution[m][s] = Rule(solution)[m][s]
    <2>1. \A k \in Inputs(m) : solution[k][s \cup {m}] = (<<k, s \cup {m}>> \in Standing)
      BY <1>2, InputsAreNodes
    <2>2. Stands(Standing, m, s) = Rule(solution)[m][s]
      BY <2>1 DEF Stands
    <2> QED
      BY <1>1, <1>2, <2>2
  <1>4. solution = Rule(solution)
    <2>1. ASSUME NEW m \in Nodes
          PROVE  solution[m] = Rule(solution)[m]
      <3>1. Rule(solution)[m] = [s \in SUBSET Nodes |-> Rule(solution)[m][s]]
        OBVIOUS
      <3> HIDE DEF Rule
      <3> QED
        BY <1>2, <1>3, <3>1
    <2>2. Rule(solution) = [m \in Nodes |-> Rule(solution)[m]]
      OBVIOUS
    <2> HIDE DEF Rule
    <2> QED
      BY <1>2, <2>1, <2>2
  <1>5. Current = CHOOSE f : f = Rule(f)
    BY DEF Current
  <1>6. Current = Rule(Current)
    <2> HIDE DEF Rule
    <2> QED
      BY <1>4, <1>5
  <1>7. Current[n][seen] = Rule(Current)[n][seen]
    <2> HIDE DEF Rule
    <2> QED
      BY <1>6
  <1> HIDE DEF Current
  <1> QED
    BY <1>7

-----------------------------------------------------------------------------
(* Types *)

Environments == Fingerprints \cup {Base}

Busy == pc \in {"running", "failed"}

WalkTyped ==
  /\ pc \in {"idle", "at", "running", "failed"}
  /\ request \in Requests \cup {NoRequest}
  /\ env \in Environments
  /\ current \in Nodes
  /\ visits \in [Nodes -> 0..VisitLimit]
  /\ skill \in Methods \cup {NoMethod}
  /\ left \in 0..RecoveryBudget
  /\ used \in SUBSET Nodes
  /\ exit \in Exits
  /\ Busy => skill \in Methods

TypeInv ==
  /\ journal \in Seq(Facts)
  /\ method \in [Nodes -> Methods \cup {NoMethod}]
  /\ WalkTyped

LEMMA ScopeType ==
  ASSUME TypeInv, NEW n PROVE Scope(n) \in Environments
  BY DEF TypeInv, WalkTyped, Scope, Environments

LEMMA LeaveTyped ==
  ASSUME WalkTyped, NEW why \in Exits, Leave(why), env' \in Environments,
         request' \in Requests \cup {NoRequest}, used' \in SUBSET Nodes
  PROVE  WalkTyped'
  BY WorkflowAssumption, ValuesAssumption
  DEF WalkTyped, Leave, Settled, Busy

LEMMA StopTyped ==
  ASSUME WalkTyped, NEW why \in Exits, Stop(why)
  PROVE  WalkTyped'
  BY LeaveTyped DEF Stop, Environments

LEMMA GoToTyped ==
  ASSUME WalkTyped, NEW node \in Nodes, NEW bound \in Environments,
         NEW counts \in [Nodes -> 0..VisitLimit], GoTo(node, bound, counts),
         used' \in SUBSET Nodes
  PROVE  WalkTyped'
  BY ValuesAssumption DEF WalkTyped, GoTo, Settled, Busy

LEMMA SucceedTyped ==
  ASSUME WalkTyped, NEW bound \in Environments, NEW counts \in [Nodes -> 0..VisitLimit],
         Succeed(bound, counts)
  PROVE  WalkTyped'
  <1>1. current \in Nodes /\ used \cup {current} \in SUBSET Nodes
    BY DEF WalkTyped
  <1>2. CASE Stop("UNTIL_NODE_REACHED")
    BY <1>2, StopTyped DEF Exits
  <1>3. CASE /\ used' = used \cup {current} /\ OnSuccess[current] \in Nodes
             /\ GoTo(OnSuccess[current], bound, counts)
    BY <1>1, <1>3, GoToTyped
  <1>4. CASE /\ used' = used \cup {current} /\ OnSuccess[current] \notin Nodes
             /\ Leave(OnSuccess[current]) /\ env' = bound /\ UNCHANGED request
    <2>1. OnSuccess[current] \in Exits
      BY <1>1, <1>4, WorkflowAssumption DEF Exits
    <2>2. request' \in Requests \cup {NoRequest}
      BY <1>4 DEF WalkTyped
    <2> QED
      BY <1>1, <1>4, <2>1, <2>2, LeaveTyped
  <1> QED
    BY <1>2, <1>3, <1>4 DEF Succeed

LEMMA CountedType ==
  ASSUME WalkTyped, Visit PROVE Counted \in [Nodes -> 0..VisitLimit]
  BY ValuesAssumption DEF WalkTyped, Visit, Counted

LEMMA BoundType ==
  ASSUME NEW facts \in Seq(Facts) PROVE Bound(facts) \in Environments
  <1> DEFINE proofs == {i \in DOMAIN facts :
                          facts[i].node = Prover /\ facts[i].passed /\ facts[i].intact}
  <1>1. ASSUME proofs # {} PROVE facts[CHOOSE i \in proofs : TRUE].proven \in Environments
    <2>1. (CHOOSE i \in proofs : TRUE) \in DOMAIN facts
      BY <1>1
    <2> DEFINE i == CHOOSE i \in proofs : TRUE
    <2> HIDE DEF i
    <2>2. facts[i] \in Facts
      BY <2>1 DEF i
    <2>3. facts[i].proven \in Environments
      BY <2>2 DEF Facts, Environments
    <2> QED
      BY <2>3 DEF i
  <1> QED
    BY <1>1 DEF Bound, Environments

-----------------------------------------------------------------------------
(* The journal after a new fact *)

(* Where the facts that stay were before. *)
CameFrom(j) ==
  IF Newest(current) = {} \/ j < CHOOSE i \in Newest(current) : TRUE THEN j ELSE j + 1

LEMMA OthersStay ==
  ASSUME journal \in Seq(Facts)
  PROVE  /\ Others \in Seq(Facts)
         /\ \A j \in DOMAIN Others : /\ CameFrom(j) \in DOMAIN journal
                                      /\ Others[j] = journal[CameFrom(j)]
         /\ \A j, k \in DOMAIN Others : j < k <=> CameFrom(j) < CameFrom(k)
         /\ \A i \in DOMAIN journal :
              i \in Newest(current) \/ \E j \in DOMAIN Others : CameFrom(j) = i
         /\ (\A i, j \in Newest(current) : i = j)
              => \A j \in DOMAIN Others : CameFrom(j) \notin Newest(current)
  <1>1. CASE Newest(current) = {}
    BY <1>1 DEF Others, CameFrom
  <1>2. CASE Newest(current) # {}
    <2> DEFINE r == CHOOSE i \in Newest(current) : TRUE
    <2>1. r \in Newest(current) /\ r \in 1..Len(journal) /\ Len(journal) \in Nat
      BY <1>2 DEF Newest
    <2>2. Others = [j \in 1..(Len(journal) - 1) |-> journal[IF j < r THEN j ELSE j + 1]]
      BY <1>2 DEF Others
    <2>3. \A j : CameFrom(j) = IF j < r THEN j ELSE j + 1
      BY <1>2 DEF CameFrom
    <2> HIDE DEF r
    <2>4. \A j \in 1..(Len(journal) - 1) :
            /\ CameFrom(j) \in 1..Len(journal) /\ CameFrom(j) # r
            /\ Others[j] = journal[CameFrom(j)] /\ Others[j] \in Facts
      BY <2>1, <2>2, <2>3
    <2>5. Others \in Seq(Facts) /\ DOMAIN Others = 1..(Len(journal) - 1)
      <3>1. Len(journal) - 1 \in Nat
        BY <2>1
      <3>2. Others \in [1..(Len(journal) - 1) -> Facts]
        BY <2>2, <2>4
      <3> QED
        BY <3>1, <3>2, SeqDef
    <2>6. \A j, k \in DOMAIN Others : j < k <=> CameFrom(j) < CameFrom(k)
      BY <2>1, <2>3, <2>5
    <2>7. ASSUME NEW i \in DOMAIN journal, i # r
          PROVE  \E j \in DOMAIN Others : CameFrom(j) = i
      <3>1. CASE i < r
        BY <2>1, <2>3, <2>5, <3>1
      <3>2. CASE i > r
        <4>1. i - 1 \in DOMAIN Others /\ CameFrom(i - 1) = i
          BY <2>1, <2>3, <2>5, <3>2
        <4> QED
          BY <4>1
      <3> QED
        BY <2>1, <2>7, <3>1, <3>2
    <2> QED
      BY <2>1, <2>4, <2>5, <2>6, <2>7
  <1> QED
    BY <1>1, <1>2

LEMMA AgedFact ==
  ASSUME NEW fact \in Facts
  PROVE  /\ Aged(fact) \in Facts
         /\ Aged(fact).node = fact.node /\ Aged(fact).scope = fact.scope
         /\ Aged(fact).passed = fact.passed /\ Aged(fact).proven = fact.proven
         /\ Aged(fact).rests = IF fact.scope = env \/ current \in ModelScoped
                               THEN fact.rests \ {current} ELSE fact.rests
  BY DEF Aged, Facts

NewFact(outcome, proven) ==
  [node |-> current, scope |-> Scope(current),
   passed |-> outcome = "pass", intact |-> TRUE, method |-> skill,
   rests |-> IF outcome = "pass" THEN Needs[current] ELSE {},
   proven |-> proven]

LEMMA RecordedFacts ==
  ASSUME TypeInv, skill \in Methods, NEW outcome, NEW proven \in Environments
  PROVE  LET facts == Recorded(outcome, proven)
             n == Len(Others)
         IN /\ n \in Nat /\ facts \in Seq(Facts) /\ DOMAIN facts = 1..(n + 1)
            /\ facts[n + 1] = NewFact(outcome, proven)
            /\ \A j \in 1..n : /\ j \in DOMAIN Others
                               /\ facts[j] = Aged(Others[j])
  <1> DEFINE n == Len(Others)
             aged == [j \in DOMAIN Others |-> Aged(Others[j])]
             fact == NewFact(outcome, proven)
  <1>1. Others \in Seq(Facts)
    BY OthersStay DEF TypeInv
  <1>2. n \in Nat /\ DOMAIN Others = 1..n
    BY <1>1
  <1>3. fact \in Facts
    <2>1. /\ current \in Nodes /\ Scope(current) \in Environments
          /\ Needs[current] \in SUBSET Nodes
      BY ScopeType, WorkflowAssumption DEF TypeInv, WalkTyped
    <2> QED
      BY <2>1 DEF NewFact, Facts, Environments
  <1>4. aged \in Seq(Facts) /\ Len(aged) = n
    <2>1. \A j \in 1..n : Others[j] \in Facts
      BY <1>1, <1>2
    <2>2. aged \in [1..n -> Facts]
      BY <1>2, <2>1, AgedFact
    <2> QED
      BY <1>2, <2>2, SeqDef, LenProperties
  <1>5. Recorded(outcome, proven) = Append(aged, fact)
    BY DEF Recorded, NewFact
  <1>6. \A j \in 1..n : aged[j] = Aged(Others[j])
    BY <1>2
  <1> HIDE DEF aged, fact, n
  <1>7. /\ Append(aged, fact) \in Seq(Facts) /\ Len(Append(aged, fact)) = n + 1
        /\ Append(aged, fact)[n + 1] = fact
        /\ \A j \in 1..n : Append(aged, fact)[j] = aged[j]
    BY <1>2, <1>3, <1>4, AppendProperties
  <1>8. DOMAIN Append(aged, fact) = 1..(n + 1)
    BY <1>7
  <1> QED
    BY <1>2, <1>5, <1>6, <1>7, <1>8 DEF n, fact

-----------------------------------------------------------------------------
(* Types, step by step *)

(* The proven environments are of the kind the journal keeps. *)
LEMMA RecordTyped ==
  ASSUME TypeInv, Busy, NEW outcome, NEW proven \in Environments,
         journal' = Recorded(outcome, proven)
  PROVE  journal' \in Seq(Facts)
  BY RecordedFacts DEF TypeInv, WalkTyped

LEMMA StepTyped ==
  ASSUME TypeInv, Step
  PROVE  TypeInv'
  <1> USE DEF TypeInv
  <1>1. /\ current \in Nodes /\ env \in Environments /\ visits \in [Nodes -> 0..VisitLimit]
        /\ Prover \in Nodes /\ method[current] \in Methods \cup {NoMethod}
    BY WorkflowAssumption DEF WalkTyped
  <1>2. CASE CycleStop \/ NoSkill \/ Unresolved
    BY <1>2, StopTyped DEF CycleStop, NoSkill, Unresolved, Exits
  <1>3. CASE Reuse
    BY <1>1, <1>3, SucceedTyped, CountedType DEF Reuse
  <1>4. CASE Begin
    BY <1>1, <1>4, CountedType DEF Begin, WalkTyped, Busy
  <1>5. ASSUME NEW proven \in Proven PROVE proven \in Environments
    BY <1>5 DEF Proven, Environments
  <1>6. ASSUME NEW proven \in Proven, Pass(proven) PROVE TypeInv'
    <2>1. journal' \in Seq(Facts)
      BY <1>5, <1>6, RecordTyped DEF Pass, Busy
    <2>2. Bound(journal') \in Environments
      BY <2>1, BoundType
    <2>3. WalkTyped'
      BY <1>1, <1>6, <2>2, SucceedTyped DEF Pass
    <2> QED
      BY <1>6, <2>1, <2>3 DEF Pass
  <1>7. ASSUME NEW proven \in Proven, FailAndStop(proven) PROVE TypeInv'
    <2>1. journal' \in Seq(Facts)
      BY <1>5, <1>7, RecordTyped DEF FailAndStop, Busy
    <2>2. WalkTyped'
      BY <1>7, StopTyped DEF FailAndStop, Exits
    <2> QED
      BY <1>7, <2>1, <2>2 DEF FailAndStop
  <1>8. CASE Fail
    <2>1. journal' \in Seq(Facts)
      BY <1>8, RecordTyped DEF Fail, Busy, Environments
    <2>2. WalkTyped'
      BY <1>8, ValuesAssumption DEF Fail, WalkTyped, Busy
    <2> QED
      BY <1>8, <2>1, <2>2 DEF Fail
  <1>9. ASSUME NEW outcome, Rerun(outcome) PROVE TypeInv'
    <2>1. journal' \in Seq(Facts)
      BY <1>9, RecordTyped DEF Rerun, Busy, Environments
    <2>2. WalkTyped'
      <3>1. CASE Succeed(env, visits)
        BY <1>1, <3>1, SucceedTyped
      <3>2. CASE /\ left' = left - 1
                 /\ UNCHANGED <<pc, request, env, current, visits, skill, used, exit>>
        BY <1>9, <3>2, ValuesAssumption DEF Rerun, WalkTyped, Busy
      <3> QED
        BY <1>9, <3>1, <3>2 DEF Rerun
    <2> QED
      BY <1>9, <2>1, <2>2 DEF Rerun
  <1>10. CASE Rework
    <2>1. WalkTyped'
      <3>1. CASE /\ OnFailure[current] \in Nodes /\ GoTo(OnFailure[current], env, visits)
                 /\ UNCHANGED used
        BY <1>1, <3>1, GoToTyped DEF WalkTyped
      <3>2. CASE OnFailure[current] \notin Nodes /\ Stop(OnFailure[current])
        <4>1. OnFailure[current] \in Exits
          BY <1>1, <3>2, WorkflowAssumption DEF Exits
        <4> QED
          BY <3>2, <4>1, StopTyped
      <3> QED
        BY <1>10, <3>1, <3>2 DEF Rework
    <2> QED
      BY <1>10, <2>1 DEF Rework
  <1> QED
    BY <1>2, <1>3, <1>4, <1>6, <1>7, <1>8, <1>9, <1>10 DEF Step

LEMMA DamagedFacts ==
  ASSUME journal \in Seq(Facts), NEW i \in DOMAIN journal, Damage(i)
  PROVE  /\ journal' \in Seq(Facts) /\ DOMAIN journal' = DOMAIN journal
         /\ \A j \in DOMAIN journal :
              /\ journal'[j].node = journal[j].node /\ journal'[j].scope = journal[j].scope
              /\ journal'[j].passed = journal[j].passed /\ journal'[j].rests = journal[j].rests
              /\ journal'[j].proven = journal[j].proven
              /\ journal'[j].intact => journal[j].intact
  <1> DEFINE fact == [journal[i] EXCEPT !.intact = FALSE]
  <1>1. journal' = [journal EXCEPT ![i] = fact]
    BY DEF Damage
  <1>2. /\ fact \in Facts /\ fact.node = journal[i].node /\ fact.scope = journal[i].scope
        /\ fact.passed = journal[i].passed /\ fact.rests = journal[i].rests
        /\ fact.proven = journal[i].proven /\ ~fact.intact
    <2>1. journal[i] \in Facts
      OBVIOUS
    <2> QED
      BY <2>1 DEF Facts
  <1> HIDE DEF fact
  <1>3. journal' \in Seq(Facts) /\ DOMAIN journal' = DOMAIN journal
    BY <1>1, <1>2, ExceptSeq
  <1> QED
    BY <1>1, <1>2, <1>3

LEMMA NextTyped ==
  ASSUME TypeInv, [Next]_vars
  PROVE  TypeInv'
  <1> USE DEF TypeInv
  <1>1. ASSUME NEW req \in Requests, Start(req) PROVE TypeInv'
    <2>1. Bound(journal) \in Environments
      BY BoundType
    <2>2. req.from \in Nodes \cup {Nowhere} /\ Entry \in Nodes
      BY WorkflowAssumption
    <2>3. WalkTyped'
      BY <1>1, <2>1, <2>2 DEF Start, WalkTyped, Busy, Exits
    <2> QED
      BY <1>1, <2>3 DEF Start
  <1>2. CASE Kill
    BY <1>2, StopTyped DEF Kill, Exits
  <1>3. ASSUME NEW i \in DOMAIN journal, Damage(i) PROVE TypeInv'
    BY <1>3, DamagedFacts DEF Damage, walk, WalkTyped, Busy
  <1>4. ASSUME NEW n, NEW m \in Methods \cup {NoMethod}, Revise(n, m) PROVE TypeInv'
    BY <1>4 DEF Revise, walk, WalkTyped, Busy
  <1>5. CASE UNCHANGED vars
    BY <1>5 DEF vars, walk, WalkTyped, Busy
  <1> QED
    BY <1>1, <1>2, <1>3, <1>4, <1>5, StepTyped DEF Next

(* The walk, its counters and every fact it records keep their types, for  *)
(* any workflow (graph_runner.py, state/journal.py).                       *)
THEOREM WalkTypeCorrect == Spec => []TypeOK
  <1>1. Init => TypeInv
    BY WorkflowAssumption, ValuesAssumption
    DEF Init, TypeInv, WalkTyped, Busy, Environments, Exits
  <1>2. TypeInv /\ [Next]_vars => TypeInv'
    BY NextTyped
  <1>3. TypeInv => TypeOK
    BY DEF TypeInv, WalkTyped, TypeOK, Environments
  <1> QED
    BY <1>1, <1>2, <1>3, PTL DEF Spec

-----------------------------------------------------------------------------
(* What a success was made from, until a newer result replaces it *)

(* Where the fact of k is that one of scope s is made from. *)
ScopeOfNeed(k, s) == IF k \in ModelScoped THEN Base ELSE s

OnePerScope ==
  \A i, j \in DOMAIN journal :
    journal[i].node = journal[j].node /\ journal[i].scope = journal[j].scope => i = j

BaseOfModels ==
  \A i \in DOMAIN journal : journal[i].node \in ModelScoped => journal[i].scope = Base

Replaced(j, k) ==
  \E i \in DOMAIN journal : /\ j < i /\ journal[i].node = k
                           /\ journal[i].scope = ScopeOfNeed(k, journal[j].scope)

RestsTillReplaced ==
  \A j \in DOMAIN journal : journal[j].passed =>
    \A k \in Needs[journal[j].node] : k \in journal[j].rests \/ Replaced(j, k)

JournalInv == OnePerScope /\ BaseOfModels /\ RestsTillReplaced

(* The journal a new fact leaves: the facts that stay, aged, and the new one. *)
LEMMA RecordedJournal ==
  ASSUME TypeInv, Busy, OnePerScope, NEW outcome, NEW proven \in Environments,
         journal' = Recorded(outcome, proven)
  PROVE  LET n == Len(Others)
         IN /\ n \in Nat /\ DOMAIN journal' = 1..(n + 1)
            /\ journal'[n + 1].node = current /\ journal'[n + 1].scope = Scope(current)
            /\ journal'[n + 1].passed = (outcome = "pass")
            /\ journal'[n + 1].proven = proven /\ journal'[n + 1].intact
            /\ outcome = "pass" => journal'[n + 1].rests = Needs[current]
            /\ \A j \in 1..n :
                 LET old == journal[CameFrom(j)]
                 IN /\ CameFrom(j) \in DOMAIN journal /\ CameFrom(j) \notin Newest(current)
                    /\ journal'[j].node = old.node /\ journal'[j].scope = old.scope
                    /\ journal'[j].passed = old.passed /\ journal'[j].proven = old.proven
                    /\ journal'[j].rests = IF old.scope = env \/ current \in ModelScoped
                                           THEN old.rests \ {current} ELSE old.rests
            /\ \A j, k \in 1..n : j < k <=> CameFrom(j) < CameFrom(k)
            /\ \A i \in DOMAIN journal :
                 i \in Newest(current) \/ \E j \in 1..n : CameFrom(j) = i
  <1> DEFINE n == Len(Others)
  <1>1. /\ n \in Nat /\ DOMAIN journal' = 1..(n + 1)
        /\ journal'[n + 1] = NewFact(outcome, proven)
        /\ \A j \in 1..n : j \in DOMAIN Others /\ journal'[j] = Aged(Others[j])
    BY RecordedFacts DEF TypeInv, WalkTyped
  <1>2. DOMAIN Others = 1..n
    BY OthersStay DEF TypeInv
  <1> HIDE DEF n
  <1>3. /\ journal'[n + 1].node = current /\ journal'[n + 1].scope = Scope(current)
        /\ journal'[n + 1].passed = (outcome = "pass")
        /\ journal'[n + 1].proven = proven /\ journal'[n + 1].intact
        /\ outcome = "pass" => journal'[n + 1].rests = Needs[current]
    <2> DEFINE fact == NewFact(outcome, proven)
    <2>1. /\ fact.node = current /\ fact.scope = Scope(current)
          /\ fact.passed = (outcome = "pass") /\ fact.proven = proven
          /\ fact.intact
          /\ outcome = "pass" => fact.rests = Needs[current]
      BY DEF NewFact
    <2> HIDE DEF fact
    <2>2. journal'[n + 1] = fact
      BY <1>1 DEF fact
    <2> QED
      BY <2>1, <2>2
  <1>4. ASSUME NEW j \in 1..n
        PROVE  LET old == journal[CameFrom(j)]
               IN /\ CameFrom(j) \in DOMAIN journal /\ CameFrom(j) \notin Newest(current)
                  /\ journal'[j].node = old.node /\ journal'[j].scope = old.scope
                  /\ journal'[j].passed = old.passed /\ journal'[j].proven = old.proven
                  /\ journal'[j].rests = IF old.scope = env \/ current \in ModelScoped
                                         THEN old.rests \ {current} ELSE old.rests
    <2>1. \A i, k \in Newest(current) : i = k
      BY DEF OnePerScope, Newest
    <2>2. /\ CameFrom(j) \in DOMAIN journal /\ CameFrom(j) \notin Newest(current)
          /\ Others[j] = journal[CameFrom(j)]
      BY <1>2, <2>1, OthersStay DEF TypeInv
    <2> DEFINE old == journal[CameFrom(j)]
    <2>3. old \in Facts
      BY <2>2 DEF TypeInv
    <2>4. journal'[j] = Aged(old)
      BY <1>1, <2>2
    <2> HIDE DEF old
    <2>5. /\ journal'[j].node = old.node /\ journal'[j].scope = old.scope
          /\ journal'[j].passed = old.passed /\ journal'[j].proven = old.proven
          /\ journal'[j].rests = IF old.scope = env \/ current \in ModelScoped
                                 THEN old.rests \ {current} ELSE old.rests
      BY <2>3, <2>4, AgedFact
    <2> QED
      BY <2>2, <2>5 DEF old
  <1>5. \A j, k \in 1..n : j < k <=> CameFrom(j) < CameFrom(k)
    BY <1>2, OthersStay DEF TypeInv
  <1>6. \A i \in DOMAIN journal : i \in Newest(current) \/ \E j \in 1..n : CameFrom(j) = i
    BY <1>2, OthersStay DEF TypeInv
  <1> QED
    BY <1>1, <1>3, <1>4, <1>5, <1>6 DEF n

LEMMA RecordKeepsJournal ==
  ASSUME TypeInv, Busy, JournalInv, NEW outcome, NEW proven \in Environments,
         journal' = Recorded(outcome, proven)
  PROVE  JournalInv'
  <1> DEFINE n == Len(Others)
  <1>0. OnePerScope
    BY DEF JournalInv
  <1>1. n \in Nat /\ DOMAIN journal' = 1..(n + 1)
    BY <1>0, RecordedJournal
  <1>2. /\ journal'[n + 1].node = current /\ journal'[n + 1].scope = Scope(current)
        /\ journal'[n + 1].passed => journal'[n + 1].rests = Needs[current]
    BY <1>0, RecordedJournal
  <1>4. ASSUME NEW j \in 1..n
        PROVE  LET old == journal[CameFrom(j)]
               IN /\ CameFrom(j) \in DOMAIN journal /\ CameFrom(j) \notin Newest(current)
                  /\ journal'[j].node = old.node /\ journal'[j].scope = old.scope
                  /\ journal'[j].passed = old.passed
                  /\ journal'[j].rests = IF old.scope = env \/ current \in ModelScoped
                                         THEN old.rests \ {current} ELSE old.rests
    BY <1>0, RecordedJournal
  <1>5. \A j, k \in 1..n : j < k <=> CameFrom(j) < CameFrom(k)
    BY <1>0, RecordedJournal
  <1>6. \A i \in DOMAIN journal : i \in Newest(current) \/ \E j \in 1..n : CameFrom(j) = i
    BY <1>0, RecordedJournal
  <1> HIDE DEF n
  <1>7. OnePerScope'
    <2>1. ASSUME NEW i \in 1..(n + 1), NEW j \in 1..(n + 1), i < j,
                 journal'[i].node = journal'[j].node, journal'[i].scope = journal'[j].scope
          PROVE  FALSE
      <3>1. i \in 1..n
        BY <1>1, <2>1
      <3>2. CASE j = n + 1
        <4>1. CameFrom(i) \in Newest(current)
          BY <1>2, <1>4, <2>1, <3>1, <3>2 DEF Newest
        <4> QED
          BY <1>4, <3>1, <4>1
      <3>3. CASE j \in 1..n
        <4> DEFINE a == CameFrom(i)
                   b == CameFrom(j)
        <4>3. /\ a \in DOMAIN journal /\ b \in DOMAIN journal
              /\ journal'[i].node = journal[a].node /\ journal'[i].scope = journal[a].scope
              /\ journal'[j].node = journal[b].node /\ journal'[j].scope = journal[b].scope
          BY <1>4, <3>1, <3>3
        <4>4. a < b
          BY <1>5, <2>1, <3>1, <3>3
        <4> HIDE DEF a, b
        <4>1. a = b
          BY <2>1, <4>3 DEF JournalInv, OnePerScope
        <4>2. a < b /\ a \in Nat
          BY <4>3, <4>4 DEF TypeInv
        <4> QED
          BY <4>1, <4>2
      <3> QED
        BY <1>1, <3>2, <3>3
    <2> QED
      BY <1>1, <2>1 DEF OnePerScope
  <1>8. BaseOfModels'
    <2>1. \A i \in 1..n : journal'[i].node \in ModelScoped => journal'[i].scope = Base
      BY <1>4 DEF JournalInv, BaseOfModels
    <2> QED
      BY <1>1, <1>2, <2>1 DEF BaseOfModels, Scope
  <1>9. RestsTillReplaced'
    <2>1. SUFFICES ASSUME NEW j \in 1..(n + 1), journal'[j].passed,
                          NEW k \in Needs[journal'[j].node]
                   PROVE  \/ k \in journal'[j].rests
                          \/ \E i \in 1..(n + 1) :
                               /\ j < i /\ journal'[i].node = k
                               /\ journal'[i].scope = ScopeOfNeed(k, journal'[j].scope)
      BY <1>1 DEF RestsTillReplaced, Replaced, ScopeOfNeed
    <2>2. CASE j = n + 1
      BY <1>2, <2>1, <2>2
    <2>3. CASE j \in 1..n
      <3> DEFINE old == journal[CameFrom(j)]
      <3>1. /\ CameFrom(j) \in DOMAIN journal /\ old.passed /\ k \in Needs[old.node]
            /\ journal'[j].scope = old.scope
            /\ journal'[j].rests = IF old.scope = env \/ current \in ModelScoped
                                   THEN old.rests \ {current} ELSE old.rests
        BY <1>4, <2>1, <2>3
      <3>2. j < n + 1 /\ n + 1 \in 1..(n + 1)
        BY <1>1, <2>3
      <3>3. CASE k \in old.rests /\ k \notin journal'[j].rests
        <4>1. k = current /\ (old.scope = env \/ current \in ModelScoped)
          BY <3>1, <3>3
        <4> QED
          BY <1>2, <3>1, <3>2, <4>1 DEF ScopeOfNeed, Scope
      <3>4. CASE Replaced(CameFrom(j), k)
        <4>1. PICK i \in DOMAIN journal :
                /\ CameFrom(j) < i /\ journal[i].node = k
                /\ journal[i].scope = ScopeOfNeed(k, old.scope)
          BY <3>4 DEF Replaced
        <4>2. CASE i \in Newest(current)
          BY <1>2, <3>1, <3>2, <4>1, <4>2 DEF Newest
        <4>3. ASSUME NEW m \in 1..n, CameFrom(m) = i PROVE j < m
          BY <1>5, <2>3, <4>1, <4>3
        <4>4. ASSUME NEW m \in 1..n, CameFrom(m) = i
              PROVE  /\ m \in 1..(n + 1) /\ j < m /\ journal'[m].node = k
                     /\ journal'[m].scope = ScopeOfNeed(k, journal'[j].scope)
          <5>1. m \in 1..(n + 1)
            BY <1>1
          <5>2. j < m
            BY <4>3, <4>4
          <5>3. journal'[m].node = journal[i].node /\ journal'[m].scope = journal[i].scope
            BY <1>4, <4>4
          <5> QED
            BY <3>1, <4>1, <5>1, <5>2, <5>3
        <4> QED
          BY <1>6, <4>2, <4>4
      <3>5. k \in old.rests \/ Replaced(CameFrom(j), k)
        BY <3>1 DEF JournalInv, RestsTillReplaced
      <3> QED
        BY <3>3, <3>4, <3>5
    <2> QED
      BY <1>1, <2>2, <2>3
  <1> QED
    BY <1>7, <1>8, <1>9 DEF JournalInv

LEMMA NextKeepsJournal ==
  ASSUME TypeInv, JournalInv, [Next]_vars
  PROVE  JournalInv'
  <1>1. CASE journal' = journal
    BY <1>1 DEF JournalInv, OnePerScope, BaseOfModels, RestsTillReplaced, Replaced
  <1>2. ASSUME NEW outcome, NEW proven \in Environments, Busy,
               journal' = Recorded(outcome, proven)
        PROVE  JournalInv'
    BY <1>2, RecordKeepsJournal
  <1>3. ASSUME NEW i \in DOMAIN journal, Damage(i) PROVE JournalInv'
    <2>1. /\ DOMAIN journal' = DOMAIN journal
          /\ \A j \in DOMAIN journal :
              /\ journal'[j].node = journal[j].node /\ journal'[j].scope = journal[j].scope
              /\ journal'[j].passed = journal[j].passed /\ journal'[j].rests = journal[j].rests
      BY <1>3, DamagedFacts DEF TypeInv
    <2> QED
      BY <2>1 DEF JournalInv, OnePerScope, BaseOfModels, RestsTillReplaced, Replaced
  <1>4. Proven \subseteq Environments /\ Base \in Environments
    BY DEF Proven, Environments
  <1>5. ASSUME Step PROVE journal' = journal \/
                            \E outcome : \E proven \in Environments :
                              Busy /\ journal' = Recorded(outcome, proven)
    BY <1>4, <1>5 DEF Step, CycleStop, NoSkill, Reuse, Unresolved, Begin, Pass, FailAndStop,
       Fail, Rework, Rerun, Busy
  <1> QED
    BY <1>1, <1>2, <1>3, <1>5 DEF Next, Start, Kill, Revise, vars

-----------------------------------------------------------------------------
(* Reuse *)

(* An input that is older than what needs it has not been replaced since.  *)
LEMMA OlderInputIsRestedOn ==
  ASSUME TypeInv, JournalInv, NEW n \in Nodes, NEW j \in Verified(n),
         NEW k \in Needs[n], NEW i \in Verified(k), i < j
  PROVE  k \in journal[j].rests
  <1>1. /\ j \in DOMAIN journal /\ journal[j].node = n /\ journal[j].scope = Scope(n)
        /\ journal[j].passed
    BY DEF Verified, Usable, Newest
  <1>2. i \in DOMAIN journal /\ journal[i].node = k /\ journal[i].scope = Scope(k)
    BY DEF Verified, Usable, Newest
  <1>3. ScopeOfNeed(k, Scope(n)) = Scope(k)
    BY WorkflowAssumption DEF ScopeOfNeed, Scope, Inputs
  <1>4. ~Replaced(j, k)
    <2>1. ASSUME NEW m \in DOMAIN journal, j < m, journal[m].node = k,
                 journal[m].scope = ScopeOfNeed(k, journal[j].scope)
          PROVE  FALSE
      <3>1. m = i
        BY <1>1, <1>2, <1>3, <2>1 DEF JournalInv, OnePerScope
      <3>2. i \in Nat /\ j \in Nat
        BY <1>1, <1>2 DEF TypeInv
      <3> QED
        BY <2>1, <3>1, <3>2
    <2> QED
      BY <2>1 DEF Replaced
  <1> QED
    BY <1>1, <1>4 DEF JournalInv, RestsTillReplaced

(* The nodes that are verified and current below some others.              *)
StandingNodes ==
  {n \in Nodes : Verified(n) # {} /\ \E seen \in SUBSET Nodes : Current[n][seen]}

LEMMA StandingNodesAreClosed ==
  ASSUME TypeInv, JournalInv, NEW n \in StandingNodes
  PROVE  /\ Needs[n] \subseteq StandingNodes
         /\ \E j \in Verified(n) : Needs[n] \subseteq journal[j].rests
  <1>1. n \in Nodes /\ Verified(n) # {}
    BY DEF StandingNodes
  <1>2. PICK seen \in SUBSET Nodes : Current[n][seen]
    BY DEF StandingNodes
  <1>3. /\ \A k \in Needs[n] : Verified(k) # {}
        /\ \A k \in Inputs(n) : \A i \in Verified(k), j \in Verified(n) :
             i < j /\ Current[k][seen \cup {n}]
    BY <1>1, <1>2, CurrentByRule
  <1>4. ASSUME NEW k \in Needs[n] PROVE k \in StandingNodes
    <2>1. k \in Inputs(n) /\ k \in Nodes
      BY <1>1, InputsAreNodes DEF Inputs
    <2>2. Verified(k) # {} /\ Current[k][seen \cup {n}]
      BY <1>1, <1>3, <2>1
    <2>3. seen \cup {n} \in SUBSET Nodes
      BY <1>1
    <2> QED
      BY <2>1, <2>2, <2>3 DEF StandingNodes
  <1>5. PICK j \in Verified(n) : TRUE
    BY <1>1
  <1>6. ASSUME NEW k \in Needs[n] PROVE k \in journal[j].rests
    <2>1. PICK i \in Verified(k) : TRUE
      BY <1>3
    <2>2. i < j
      BY <1>3 DEF Inputs
    <2> QED
      BY <1>1, <2>2, OlderInputIsRestedOn
  <1> QED
    BY <1>4, <1>5, <1>6

(* A node is skipped only for a fact whose whole ancestry stands, for any  *)
(* workflow and any history of the journal (reusable_inputs_current).      *)
THEOREM ReuseStands == Spec => ReusedStandsOnItsInputs
  <1> DEFINE Stood == Reuse => \E closed \in SUBSET Nodes :
               /\ current \in closed
               /\ \A n \in closed :
                    /\ Needs[n] \subseteq closed
                    /\ \E i \in Verified(n) : Needs[n] \subseteq journal[i].rests
  <1>1. Init => TypeInv /\ JournalInv
    <2>1. Init => TypeInv
      BY WorkflowAssumption, ValuesAssumption
      DEF Init, TypeInv, WalkTyped, Busy, Environments, Exits
    <2>2. Init => JournalInv
      BY DEF Init, JournalInv, OnePerScope, BaseOfModels, RestsTillReplaced
    <2> QED
      BY <2>1, <2>2
  <1>2. TypeInv /\ JournalInv /\ [Next]_vars => (TypeInv /\ JournalInv)'
    BY NextTyped, NextKeepsJournal
  <1>3. ASSUME TypeInv, JournalInv, Reuse PROVE Stood
    <2>1. current \in StandingNodes
      <3>1. current \in Nodes /\ {} \in SUBSET Nodes
        BY <1>3 DEF TypeInv, WalkTyped
      <3>2. Verified(current) # {} /\ Current[current][{}]
        BY <1>3 DEF Reuse, Reusable
      <3> QED
        BY <3>1, <3>2 DEF StandingNodes
    <2>2. StandingNodes \in SUBSET Nodes
      BY DEF StandingNodes
    <2>3. \A n \in StandingNodes :
            /\ Needs[n] \subseteq StandingNodes
            /\ \E i \in Verified(n) : Needs[n] \subseteq journal[i].rests
      BY <1>3, StandingNodesAreClosed
    <2> QED
      BY <2>1, <2>2, <2>3
  <1>4. TypeInv /\ JournalInv => [Stood]_vars
    BY <1>3
  <1> QED
    BY <1>1, <1>2, <1>4, PTL DEF Spec, ReusedStandsOnItsInputs

-----------------------------------------------------------------------------
(* What a walk used *)

Passes(n) == \E i \in Newest(n) : journal[i].passed

RestsOn(n, k) == \E i \in Newest(n) : journal[i].passed /\ k \in journal[i].rests

Proves == \E i \in Newest(Prover) : journal[i].passed /\ journal[i].proven = env

ProofAtHand == \E i \in Newest(Prover) : journal[i].passed /\ journal[i].intact

Way(k, past) == Reached(Given, k, past)

(* Where a walk may get to once the node has passed. *)
Beyond(n) == Way(OnSuccess[n], {})

(* Where it may get to without a plan made or a failure diagnosed. *)
Early == Way(Entry, {Plan, Triage})

Dead(n) == IsDeadEnd(Given, n)

(* A node that the walk left passed and was used, or failed. *)
Visited(n) == n \in used \/ ~Passes(n)

(* A node that was used rests on what it needs, or its need was visited    *)
(* again and it is about to be.                                            *)
UsedWell(n) ==
  /\ Passes(n) /\ OnSuccess[n] \in Nodes /\ current \in Beyond(n)
  /\ \A k \in Needs[n] : \/ (k \in used \/ k = Plan) /\ RestsOn(n, k)
                         \/ k \in Beyond(n) /\ current \in Way(k, {n})

Walking ==
  /\ exit # "DELIVERED"
  /\ current = Prover => used = {} /\ (env = Base => ~ProofAtHand)
  /\ current # Prover => Prover \in used /\ Proves
  /\ pc = "failed" => ~Passes(current)
  /\ Dead(current) => pc = "at" /\ ~Passes(Triage)
  /\ current \in Early \/ Dead(current) \/ Plan \in used \/ Triage \in used
  /\ \A k \in Nodes : current \in Way(Entry, {k}) \/ Visited(k)
  /\ Busy => Needs[current] \ {Plan} \subseteq used
  /\ \A n \in used : UsedWell(n)

Delivered ==
  /\ Prover \in used /\ Proves
  /\ Plan \in used \/ Triage \in used
  /\ \A n \in used : /\ Passes(n)
                     /\ \A k \in Needs[n] : (k \in used \/ k = Plan) /\ RestsOn(n, k)

ProofsAreNamed ==
  \A i \in DOMAIN journal : journal[i].node = Prover /\ journal[i].passed
                             => journal[i].proven \in Fingerprints

FromStart == request.from \in {Nowhere, Entry}

WalkInv ==
  /\ pc = "failed" => current # Prover
  /\ ProofsAreNamed
  /\ FromStart /\ pc # "idle" => Walking
  /\ FromStart /\ exit = "DELIVERED" => Delivered

(* What is assumed of the workflow, as the steps of a walk use it *)

LEMMA Names ==
  /\ Prover \in Nodes /\ Plan \in Nodes /\ Triage \in Nodes
  /\ Entry = Prover /\ Prover \notin {Plan, Triage}
  /\ Needs[Prover] = {} /\ OnFailure[Prover] \notin Nodes
  BY LoopAssumption, WorkflowAssumption DEF HangsTogether, Inputs

LEMMA GivenWorkflow ==
  /\ Given.success = OnSuccess /\ Given.failure = OnFailure /\ Given.needs = Needs
  /\ DOMAIN Given.needs = Nodes
  BY WorkflowAssumption DEF Given

(* The nodes that are reached are closed under the edges. *)
LEMMA WaysAreClosed ==
  ASSUME NEW n \in Nodes, NEW k \in Nodes, NEW past, past \in {{}, {n}, {Plan, Triage}}
  PROVE  /\ k \in Way(k, past)
         /\ \A c \in Way(k, past) \ past : Edges(Given, c) \subseteq Way(k, past)
  <1>1. \A m, l \in Nodes : \A p \in {{}, {m}, {Plan, Triage}} : ReachedIsClosed(Given, l, p)
    BY LoopAssumption, GivenWorkflow DEF HangsTogether
  <1>2. ReachedIsClosed(Given, k, past)
    BY <1>1
  <1> QED
    BY <1>2 DEF ReachedIsClosed, Way

LEMMA EdgesLead ==
  ASSUME NEW c \in Nodes, ~Dead(c), NEW next \in Nodes, next \in {OnSuccess[c], OnFailure[c]}
  PROVE  next \in Edges(Given, c)
  BY GivenWorkflow DEF Edges, Dead

LEMMA DeadEnds ==
  ASSUME NEW n \in Nodes, Dead(n)
  PROVE  /\ Triage \in Needs[n] /\ n # Prover
         /\ \A c \in Nodes : OnSuccess[c] # n /\ (OnFailure[c] = n => c = Triage)
  BY GivenWorkflow, Names DEF Dead, IsDeadEnd

LEMMA NeedsLieBefore ==
  ASSUME NEW n \in Nodes
  PROVE  /\ Needs[n] \subseteq Nodes /\ n \notin Needs[n]
         /\ \A k \in Needs[n] \ {Plan} : n \notin Way(Entry, {k})
         /\ Prover \notin {OnSuccess[n], OnFailure[n]}
  BY LoopAssumption, GivenWorkflow, WorkflowAssumption DEF HangsTogether, Way

LEMMA NeedsAreFollowed ==
  ASSUME NEW n \in Nodes, NEW k \in Needs[n], OnSuccess[n] \in Nodes, k \in Beyond(n),
         NEW c \in Way(k, {n}), c # n, ~Dead(c)
  PROVE  OnSuccess[c] \in Nodes
  <1>1. \A m \in Reached(Given, k, {n}) \ {n} : ~Delivers(Given, m)
    BY LoopAssumption, GivenWorkflow DEF HangsTogether, Way, Beyond
  <1> QED
    BY <1>1, GivenWorkflow DEF Delivers, Way, Dead

LEMMA EarlyNodes ==
  /\ Entry \in Early /\ Plan \in Early /\ Triage \in Early
  /\ \A c \in Early \ {Plan, Triage} : OnSuccess[c] \in Nodes \/ Dead(c)
  /\ \A c \in Early \ {Plan, Triage} : Edges(Given, c) \subseteq Early
  /\ OnFailure[Plan] \in Nodes => OnFailure[Plan] \in Early
  /\ OnFailure[Triage] \in Nodes => Dead(OnFailure[Triage])
  <1>1. /\ Plan \in Early /\ Triage \in Early
        /\ \A c \in Early \ {Plan, Triage} : ~Delivers(Given, c)
        /\ OnFailure[Plan] \in Nodes => OnFailure[Plan] \in Early
        /\ OnFailure[Triage] \in Nodes => Dead(OnFailure[Triage])
    BY LoopAssumption, GivenWorkflow DEF HangsTogether, Early, Way, Dead
  <1>2. Entry \in Early /\ \A c \in Early \ {Plan, Triage} : Edges(Given, c) \subseteq Early
    BY Names, WaysAreClosed DEF Early
  <1>3. \A c \in Early \ {Plan, Triage} : OnSuccess[c] \in Nodes \/ Dead(c)
    BY <1>1, GivenWorkflow DEF Delivers, Dead
  <1> QED
    BY <1>1, <1>2, <1>3

(* When the walk moves on, what was used stays on its way. *)
LEMMA StaysOnItsWay ==
  ASSUME NEW n \in Nodes, UsedWell(n), NEW c \in Nodes, c = current, c # n, ~Dead(c),
         NEW next \in Nodes, next \in {OnSuccess[c], OnFailure[c]}
  PROVE  /\ next \in Beyond(n)
         /\ \A k \in Needs[n] : \/ k # c /\ (k \in used \/ k = Plan) /\ RestsOn(n, k)
                                \/ k \in Beyond(n) /\ next \in Way(k, {n})
  <1>1. next \in Edges(Given, c)
    BY EdgesLead
  <1>2. OnSuccess[n] \in Nodes /\ c \in Beyond(n)
    BY DEF UsedWell
  <1>3. next \in Beyond(n)
    BY <1>1, <1>2, WaysAreClosed DEF Beyond
  <1>4. ASSUME NEW k \in Needs[n], k \in Beyond(n), c \in Way(k, {n})
        PROVE  next \in Way(k, {n})
    <2>1. k \in Nodes
      BY NeedsLieBefore
    <2> QED
      BY <1>1, <1>4, <2>1, WaysAreClosed
  <1>5. c \in Needs[n] => c \in Way(c, {n})
    BY WaysAreClosed
  <1> QED
    BY <1>2, <1>3, <1>4, <1>5 DEF UsedWell

(* It stays true of every node that it was visited or may be missed. *)
LEMMA VisitedOrMissed ==
  ASSUME NEW c \in Nodes, ~Dead(c), NEW next \in Nodes, next \in {OnSuccess[c], OnFailure[c]},
         NEW k \in Nodes, k # c, c \in Way(Entry, {k})
  PROVE  next \in Way(Entry, {k})
  <1>1. next \in Edges(Given, c) /\ Entry \in Nodes
    BY EdgesLead, Names
  <1> QED
    BY <1>1, WaysAreClosed

(* A new fact and what it does to the others *)
LEMMA RecordEffect ==
  ASSUME TypeInv, Busy, OnePerScope, NEW outcome, NEW proven \in Environments,
         journal' = Recorded(outcome, proven), NEW n \in Nodes, Scope(n)' = Scope(n)
  PROVE  /\ n # current => /\ Passes(n)' <=> Passes(n)
                           /\ \A k : k # current /\ RestsOn(n, k) => RestsOn(n, k)'
         /\ n = current => /\ Passes(n)' <=> outcome = "pass"
                           /\ outcome = "pass" => \A k \in Needs[n] : RestsOn(n, k)'
         /\ Prover # current /\ n = Prover /\ env' = env /\ Proves => Proves'
  <1> DEFINE last == Len(Others) + 1
  <1>1. /\ last \in DOMAIN journal' /\ DOMAIN journal' = 1..last /\ last \in Nat
        /\ journal'[last].node = current /\ journal'[last].scope = Scope(current)
        /\ journal'[last].passed = (outcome = "pass")
        /\ outcome = "pass" => journal'[last].rests = Needs[current]
    BY RecordedJournal
  <1>2. ASSUME NEW j \in 1..(last - 1)
        PROVE  LET old == journal[CameFrom(j)]
               IN /\ CameFrom(j) \in DOMAIN journal /\ CameFrom(j) \notin Newest(current)
                  /\ journal'[j].node = old.node /\ journal'[j].scope = old.scope
                  /\ journal'[j].passed = old.passed /\ journal'[j].proven = old.proven
                  /\ old.rests \ {current} \subseteq journal'[j].rests
    <2>1. j \in 1..Len(Others)
      BY <1>1
    <2> DEFINE old == journal[CameFrom(j)]
    <2>2. /\ CameFrom(j) \in DOMAIN journal /\ CameFrom(j) \notin Newest(current)
          /\ journal'[j].node = old.node /\ journal'[j].scope = old.scope
          /\ journal'[j].passed = old.passed /\ journal'[j].proven = old.proven
          /\ journal'[j].rests = IF old.scope = env \/ current \in ModelScoped
                                 THEN old.rests \ {current} ELSE old.rests
      BY <2>1, RecordedJournal
    <2> HIDE DEF old
    <2> QED
      BY <2>2 DEF old
  <1>3. \A i \in DOMAIN journal :
          i \in Newest(current) \/ \E j \in 1..(last - 1) : CameFrom(j) = i
    <2>1. last - 1 = Len(Others)
      BY <1>1
    <2> QED
      BY <2>1, RecordedJournal
  <1>4. \A j \in 1..last : j \in 1..(last - 1) \/ j = last
    BY <1>1
  <1>5. 1..(last - 1) \subseteq 1..last
    BY <1>1
  <1> HIDE DEF last
  <1>6. CASE n # current
    <2>1. ASSUME NEW j \in Newest(n)'
          PROVE  j \in 1..(last - 1) /\ CameFrom(j) \in Newest(n)
      <3>1. /\ j \in 1..last /\ journal'[j].node = n /\ journal'[j].scope = Scope(n)
        BY <1>1, <2>1 DEF Newest
      <3>2. j \in 1..(last - 1)
        BY <1>1, <1>4, <1>6, <3>1
      <3> QED
        BY <1>2, <3>1, <3>2 DEF Newest
    <2>2. ASSUME NEW i \in Newest(n)
          PROVE  \E j \in Newest(n)' : j \in 1..(last - 1) /\ CameFrom(j) = i
      <3>1. i \in DOMAIN journal /\ journal[i].node = n /\ journal[i].scope = Scope(n)
        BY <2>2 DEF Newest
      <3>2. PICK j \in 1..(last - 1) : CameFrom(j) = i
        BY <1>3, <1>6, <3>1 DEF Newest
      <3>3. j \in Newest(n)'
        BY <1>1, <1>2, <1>5, <3>1, <3>2 DEF Newest
      <3> QED
        BY <3>2, <3>3
    <2>3. Passes(n)' <=> Passes(n)
      BY <1>2, <2>1, <2>2 DEF Passes
    <2>4. ASSUME NEW k, k # current, RestsOn(n, k) PROVE RestsOn(n, k)'
      BY <1>2, <2>2, <2>4 DEF RestsOn
    <2>5. ASSUME n = Prover, env' = env, Proves PROVE Proves'
      BY <1>2, <2>2, <2>5 DEF Proves
    <2> QED
      BY <1>6, <2>3, <2>4, <2>5
  <1>7. CASE n = current
    <2>1. last \in Newest(n)'
      BY <1>1, <1>7 DEF Newest
    <2>2. ASSUME NEW j \in Newest(n)' PROVE j = last
      <3>1. /\ j \in 1..last /\ journal'[j].node = n /\ journal'[j].scope = Scope(n)
        BY <1>1, <2>2 DEF Newest
      <3>2. ASSUME j \in 1..(last - 1) PROVE FALSE
        BY <1>2, <1>7, <3>1, <3>2 DEF Newest
      <3> QED
        BY <1>4, <3>1, <3>2
    <2>3. Passes(n)' <=> outcome = "pass"
      BY <1>1, <2>1, <2>2 DEF Passes
    <2>4. outcome = "pass" => \A k \in Needs[n] : RestsOn(n, k)'
      BY <1>1, <1>7, <2>1 DEF RestsOn
    <2> QED
      BY <1>7, <2>3, <2>4
  <1> QED
    BY <1>6, <1>7

Same == UNCHANGED <<pc, request, env, current, used, exit>>

(* A step of nobody but the disk. *)
LEMMA StillWalking ==
  ASSUME WalkInv, Same, DOMAIN journal' = DOMAIN journal,
         \A j \in DOMAIN journal :
           /\ journal'[j].node = journal[j].node /\ journal'[j].scope = journal[j].scope
           /\ journal'[j].passed = journal[j].passed /\ journal'[j].rests = journal[j].rests
           /\ journal'[j].proven = journal[j].proven
           /\ journal'[j].intact => journal[j].intact
  PROVE  WalkInv'
  <1>1. \A n : Newest(n)' = Newest(n)
    BY DEF Newest, Scope, Same
  <1>2. /\ \A n : Passes(n)' <=> Passes(n)
        /\ \A n, k : RestsOn(n, k)' <=> RestsOn(n, k)
        /\ Proves' <=> Proves
        /\ ProofAtHand' => ProofAtHand
    BY <1>1 DEF Passes, RestsOn, Proves, ProofAtHand, Same, Newest
  <1>3. \A n : UsedWell(n)' <=> UsedWell(n)
    BY <1>2 DEF UsedWell, Same
  <1>4. FromStart' <=> FromStart
    BY DEF FromStart, Same
  <1>5. ASSUME FromStart, pc # "idle" PROVE Walking'
    BY <1>2, <1>3, <1>5 DEF WalkInv, Walking, Visited, Busy, Same
  <1>6. ASSUME FromStart, exit = "DELIVERED" PROVE Delivered'
    BY <1>2, <1>6 DEF WalkInv, Delivered, Same
  <1>7. ProofsAreNamed'
    BY DEF WalkInv, ProofsAreNamed
  <1>8. pc' = "failed" => current' # Prover
    BY DEF WalkInv, Same
  <1>9. pc' = pc /\ exit' = exit
    BY DEF Same
  <1> QED
    BY <1>4, <1>5, <1>6, <1>7, <1>8, <1>9 DEF WalkInv

(* A node passes and the walk goes on: what it needs was used. *)
LEMMA SucceedWalks ==
  ASSUME TypeInv, Walking, NEW bound, NEW counts, Succeed(bound, counts),
         request.until # current,
         Proves', NEW here \in Nodes, here = current, ~Dead(here), Passes(here)',
         \A k \in Needs[here] : (k \in used \/ k = Plan) /\ RestsOn(here, k)',
         here # Prover => \A n \in Nodes \ {here} :
                            /\ Passes(n)' <=> Passes(n)
                            /\ \A k : k # here /\ RestsOn(n, k) => RestsOn(n, k)'
  PROVE  /\ pc' # "idle" => Walking'
         /\ pc' # "failed"
         /\ exit' = "DELIVERED" => Delivered'
  <1> DEFINE next == OnSuccess[here]
  <1>1. used \subseteq Nodes /\ Prover \in Nodes /\ next # Prover
    BY Names, NeedsLieBefore DEF TypeInv, WalkTyped
  <1>2. used' = used \cup {here} /\ Prover \in used'
    BY DEF Succeed, Stop, Walking
  <1>3. ASSUME NEW n \in used, n # here
        PROVE  n \in Nodes /\ here # Prover /\ UsedWell(n) /\ Passes(n)'
    <2>1. n \in Nodes /\ here # Prover /\ UsedWell(n)
      BY <1>1, <1>3 DEF Walking
    <2> QED
      BY <1>3, <2>1 DEF UsedWell
  <1>4. Passes(here)' /\ \A k \in Needs[here] : (k \in used' \/ k = Plan) /\ RestsOn(here, k)'
    BY <1>2
  <1>5. CASE next \in Nodes /\ GoTo(next, bound, counts)
    <2>1. pc' = "at" /\ current' = next /\ exit' = exit
      BY <1>5 DEF GoTo
    <2>2. ~Dead(next)
      BY <1>5, DeadEnds
    <2>3. next \in Early \/ Plan \in used' \/ Triage \in used'
      <3>1. CASE here \in Early \ {Plan, Triage}
        BY <1>5, <3>1, EdgesLead, EarlyNodes
      <3> QED
        BY <1>2, <3>1 DEF Walking
    <2>4. ASSUME NEW k \in Nodes PROVE next \in Way(Entry, {k}) \/ Visited(k)'
      <3>1. CASE k = here
        BY <1>2, <3>1 DEF Visited
      <3>2. CASE k # here /\ here \in Way(Entry, {k})
        BY <1>5, <3>2, VisitedOrMissed
      <3>3. CASE k # here /\ here \notin Way(Entry, {k})
        <4>1. here # Prover
          BY <3>3, Names, WaysAreClosed
        <4>2. Visited(k)
          BY <3>3 DEF Walking
        <4> QED
          BY <1>2, <3>3, <4>1, <4>2 DEF Visited
      <3> QED
        BY <3>1, <3>2, <3>3
    <2>5. ASSUME NEW n \in used' PROVE UsedWell(n)'
      <3>1. CASE n = here
        <4>1. next \in Beyond(here)
          BY <1>5, WaysAreClosed DEF Beyond
        <4> QED
          BY <1>4, <1>5, <2>1, <3>1, <4>1 DEF UsedWell
      <3>2. CASE n # here
        <4>1. n \in Nodes /\ here # Prover /\ UsedWell(n) /\ Passes(n)'
          BY <1>2, <1>3, <2>5, <3>2
        <4>2. /\ next \in Beyond(n)
              /\ \A k \in Needs[n] :
                   \/ k # here /\ (k \in used \/ k = Plan) /\ RestsOn(n, k)
                   \/ k \in Beyond(n) /\ next \in Way(k, {n})
          BY <1>5, <3>2, <4>1, StaysOnItsWay
        <4>3. ASSUME NEW k \in Needs[n]
              PROVE  \/ (k \in used' \/ k = Plan) /\ RestsOn(n, k)'
                     \/ k \in Beyond(n) /\ next \in Way(k, {n})
          <5>1. CASE k # here /\ (k \in used \/ k = Plan) /\ RestsOn(n, k)
            BY <1>2, <3>2, <4>1, <5>1
          <5> QED
            BY <4>2, <5>1
        <4>4. OnSuccess[n] \in Nodes
          BY <4>1 DEF UsedWell
        <4> HIDE DEF next
        <4> QED
          BY <2>1, <4>1, <4>2, <4>3, <4>4 DEF UsedWell
      <3> QED
        BY <3>1, <3>2
    <2>6. exit # "DELIVERED"
      BY DEF Walking
    <2>7. ~Busy'
      BY <2>1 DEF Busy
    <2> HIDE DEF next
    <2> QED
      BY <1>1, <1>2, <2>1, <2>2, <2>3, <2>4, <2>5, <2>6, <2>7 DEF Walking
  <1>6. CASE next \notin Nodes /\ Leave(next)
    <2>1. pc' = "idle"
      BY <1>6 DEF Leave
    <2>2. ASSUME NEW n \in used'
          PROVE  Passes(n)' /\ \A k \in Needs[n] : (k \in used' \/ k = Plan) /\ RestsOn(n, k)'
      <3>1. CASE n = here
        BY <1>4, <3>1
      <3>2. CASE n # here
        <4>1. n \in Nodes /\ here # Prover /\ UsedWell(n) /\ Passes(n)'
          BY <1>2, <1>3, <2>2, <3>2
        <4>2. ASSUME NEW k \in Needs[n] PROVE k # here /\ (k \in used \/ k = Plan) /\ RestsOn(n, k)
          <5>1. OnSuccess[n] \in Nodes /\ here \in Beyond(n)
            BY <4>1 DEF UsedWell
          <5>2. ASSUME k \in Beyond(n), here \in Way(k, {n}) PROVE FALSE
            BY <1>6, <3>2, <4>1, <5>1, <5>2, NeedsAreFollowed
          <5>3. ASSUME k = here PROVE FALSE
            <6>1. here \in Way(here, {n})
              BY <4>1, WaysAreClosed
            <6> QED
              BY <5>1, <5>2, <5>3, <6>1
          <5> QED
            BY <4>1, <5>2, <5>3 DEF UsedWell
        <4> QED
          BY <1>2, <3>2, <4>1, <4>2
      <3> QED
        BY <3>1, <3>2
    <2>3. Plan \in used' \/ Triage \in used'
      BY <1>2, <1>6, EarlyNodes DEF Walking
    <2>4. Delivered'
      BY <1>2, <2>2, <2>3 DEF Delivered
    <2> QED
      BY <2>1, <2>4
  <1> QED
    BY <1>5, <1>6 DEF Succeed

Onward == /\ pc' # "idle" => Walking'
          /\ pc' # "failed"
          /\ exit' = "DELIVERED" => Delivered'

LEMMA StopEnds ==
  ASSUME NEW why, why # "DELIVERED", Stop(why)
  PROVE  Onward
  BY DEF Stop, Leave, Onward

(* A need that passed, but for the plan, was used in this walk. *)
LEMMA NeedsWereUsed ==
  ASSUME TypeInv, Walking, \A k \in Needs[current] : Passes(k)
  PROVE  /\ Needs[current] \ {Plan} \subseteq used
         /\ ~Dead(current)
  <1>1. PICK here \in Nodes : here = current
    BY DEF TypeInv, WalkTyped
  <1>2. ASSUME NEW k \in Needs[here], k # Plan PROVE k \in used
    BY <1>1, <1>2, NeedsLieBefore DEF Walking, Visited
  <1>3. ~Dead(here)
    BY <1>1, DeadEnds DEF Walking
  <1> QED
    BY <1>1, <1>2, <1>3

LEMMA UsablePasses ==
  ASSUME NEW n, Usable(n) # {} PROVE Passes(n)
  BY DEF Usable, Passes

LEMMA VerifiedIsUsable ==
  ASSUME NEW n PROVE Verified(n) \subseteq Usable(n)
  BY DEF Verified

LEMMA ReuseWalks ==
  ASSUME TypeInv, JournalInv, Walking, Reuse
  PROVE  Onward
  <1>1. CASE Stop("UNTIL_NODE_REACHED")
    BY <1>1, StopEnds
  <1>2. CASE request.until # current
    <2> DEFINE here == current
    <2>1. here \in Nodes /\ {} \in SUBSET Nodes
      BY DEF TypeInv, WalkTyped
    <2>2. Verified(here) # {} /\ Current[here][{}] /\ Succeed(env, Counted) /\ journal' = journal
      BY DEF Reuse, Reusable
    <2>3. /\ \A k \in Needs[here] : Verified(k) # {}
          /\ \A k \in Inputs(here) : \A i \in Verified(k), j \in Verified(here) : i < j
      BY <2>1, <2>2, CurrentByRule
    <2>4. env' = env
      BY <1>2, <2>2 DEF Succeed, Stop, GoTo
    <2>5. /\ \A n : Passes(n)' <=> Passes(n)
          /\ \A n, k : RestsOn(n, k)' <=> RestsOn(n, k)
          /\ Proves' <=> Proves
      BY <2>2, <2>4 DEF Passes, RestsOn, Proves, Newest, Scope
    <2>6. Passes(here)
      BY <2>2, VerifiedIsUsable, UsablePasses
    <2>7. Needs[here] \ {Plan} \subseteq used /\ ~Dead(here)
      <3>1. \A k \in Needs[here] : Passes(k)
        BY <2>3, VerifiedIsUsable, UsablePasses
      <3> QED
        BY <3>1, NeedsWereUsed
    <2>8. ASSUME NEW k \in Needs[here] PROVE RestsOn(here, k)
      <3>1. PICK i \in Verified(k), j \in Verified(here) : i < j
        BY <2>2, <2>3 DEF Inputs
      <3>2. k \in journal[j].rests
        BY <2>1, <3>1, OlderInputIsRestedOn
      <3>3. j \in Newest(here) /\ journal[j].passed
        BY <3>1 DEF Verified, Usable
      <3> QED
        BY <3>2, <3>3 DEF RestsOn
    <2>9. Proves
      <3>1. CASE here = Prover
        <4>1. PICK j \in Verified(here) : TRUE
          BY <2>2
        <4>2. /\ j \in Newest(Prover) /\ journal[j].passed /\ journal[j].intact
              /\ env \in {Base, journal[j].proven}
          BY <3>1, <4>1 DEF Verified, Usable
        <4>3. env # Base
          BY <3>1, <4>2 DEF Walking, ProofAtHand
        <4> QED
          BY <4>2, <4>3 DEF Proves
      <3>2. CASE here # Prover
        BY <3>2 DEF Walking
      <3> QED
        BY <3>1, <3>2
    <2>10. PICK n \in Nodes : n = here
      BY <2>1
    <2> HIDE DEF here
    <2>11. /\ n = current /\ ~Dead(n) /\ Passes(n)' /\ Proves'
           /\ \A k \in Needs[n] : (k \in used \/ k = Plan) /\ RestsOn(n, k)'
      BY <2>5, <2>6, <2>7, <2>8, <2>9, <2>10 DEF here
    <2>12. \A m \in Nodes \ {n} :
             /\ Passes(m)' <=> Passes(m)
             /\ \A k : k # n /\ RestsOn(m, k) => RestsOn(m, k)'
      BY <2>5
    <2> QED
      BY <1>2, <2>2, <2>11, <2>12, SucceedWalks DEF Onward
  <1> QED
    BY <1>1, <1>2 DEF Reuse, Succeed

(* A node other than the proof passes, by itself or on a rerun. *)
LEMMA PassWalks ==
  ASSUME TypeInv, JournalInv, Walking, Busy, current # Prover,
         NEW counts, Succeed(env, counts), NEW proven \in Environments,
         journal' = Recorded("pass", proven)
  PROVE  Onward
  <1>1. CASE Stop("UNTIL_NODE_REACHED")
    BY <1>1, StopEnds
  <1>2. CASE request.until # current
    <2>1. env' = env /\ OnePerScope
      BY <1>2 DEF Succeed, Stop, GoTo, JournalInv
    <2>2. PICK here \in Nodes : here = current
      BY DEF TypeInv, WalkTyped
    <2>3. \A n : Scope(n)' = Scope(n)
      BY <2>1 DEF Scope
    <2>4. Passes(here)' /\ \A k \in Needs[here] : RestsOn(here, k)'
      BY <2>1, <2>2, <2>3, RecordEffect
    <2>5. \A n \in Nodes \ {here} :
            /\ Passes(n)' <=> Passes(n)
            /\ \A k : k # here /\ RestsOn(n, k) => RestsOn(n, k)'
      BY <2>1, <2>2, <2>3, RecordEffect
    <2>6. Proves'
      <3>1. Prover \in Nodes /\ Proves
        BY <2>2, Names DEF Walking
      <3> QED
        BY <2>1, <2>3, <3>1, RecordEffect
    <2>7. Needs[here] \ {Plan} \subseteq used /\ ~Dead(here)
      BY <2>2 DEF Walking, Busy
    <2> QED
      BY <1>2, <2>2, <2>4, <2>5, <2>6, <2>7, SucceedWalks DEF Onward
  <1> QED
    BY <1>1, <1>2 DEF Succeed

(* The environment is proven: the walk is bound to what was just proven.   *)
LEMMA ProofWalks ==
  ASSUME TypeInv, JournalInv, Walking, Busy, current = Prover,
         NEW proven \in Environments, journal' = Recorded("pass", proven),
         NEW counts, Succeed(Bound(journal'), counts)
  PROVE  Onward
  <1>1. CASE Stop("UNTIL_NODE_REACHED")
    BY <1>1, StopEnds
  <1>2. CASE request.until # current
    <2> DEFINE last == Len(Others) + 1
    <2>1. OnePerScope /\ OnePerScope' /\ BaseOfModels'
      BY RecordKeepsJournal DEF JournalInv
    <2>2. /\ last \in DOMAIN journal'
          /\ journal'[last].node = Prover /\ journal'[last].passed
          /\ journal'[last].proven = proven /\ journal'[last].intact
      <3> DEFINE n == Len(Others)
      <3>1. /\ n \in Nat /\ DOMAIN journal' = 1..(n + 1)
            /\ journal'[n + 1].node = current /\ journal'[n + 1].passed = TRUE
            /\ journal'[n + 1].proven = proven /\ journal'[n + 1].intact
        BY <2>1, RecordedJournal
      <3> HIDE DEF n
      <3> QED
        BY <3>1 DEF n
    <2> HIDE DEF last
    <2>3. Prover \in ModelScoped
      BY WorkflowAssumption
    <2>4. \A j \in DOMAIN journal' : journal'[j].node = Prover => j = last
      BY <2>1, <2>2, <2>3 DEF OnePerScope, BaseOfModels
    <2>5. Bound(journal') = proven
      <3> DEFINE proofs == {j \in DOMAIN journal' :
                              /\ journal'[j].node = Prover
                              /\ journal'[j].passed /\ journal'[j].intact}
      <3>1. proofs = {last}
        BY <2>2, <2>4
      <3>2. Bound(journal') = IF proofs = {} THEN Base
                              ELSE journal'[CHOOSE j \in proofs : TRUE].proven
        BY DEF Bound
      <3> HIDE DEF proofs
      <3> QED
        BY <2>2, <3>1, <3>2
    <2>6. env' = proven
      BY <1>2, <2>5 DEF Succeed, Stop, GoTo
    <2>7. last \in Newest(Prover)'
      BY <2>1, <2>2, <2>3 DEF Newest, Scope, BaseOfModels
    <2>8. Proves' /\ Passes(Prover)'
      BY <2>2, <2>6, <2>7 DEF Proves, Passes
    <2>9. Prover \in Nodes /\ Needs[Prover] = {} /\ ~Dead(Prover)
      BY Names, DeadEnds
    <2> QED
      BY <1>2, <2>8, <2>9, SucceedWalks DEF Onward
  <1> QED
    BY <1>1, <1>2 DEF Succeed

(* A node fails: it is as if it had not been used, and what was made from  *)
(* it waits for it.                                                        *)
LEMMA FailureWalks ==
  ASSUME TypeInv, JournalInv, Walking, Busy, current # Prover,
         used' = used \ {current}, journal' = Recorded("fail", Base),
         UNCHANGED <<env, current, exit>>
  PROVE  Walking'
  <1>1. Base \in Environments /\ OnePerScope
    BY DEF Environments, JournalInv
  <1>2. \A n : Scope(n)' = Scope(n)
    BY DEF Scope
  <1>3. PICK here \in Nodes : here = current /\ here = current'
    BY DEF TypeInv, WalkTyped
  <1>4. ~Passes(here)'
    BY <1>1, <1>2, <1>3, RecordEffect
  <1>5. \A n \in Nodes \ {here} :
          /\ Passes(n)' <=> Passes(n)
          /\ \A k : k # here /\ RestsOn(n, k) => RestsOn(n, k)'
    BY <1>1, <1>2, <1>3, RecordEffect
  <1>6. Prover \in used' /\ Proves'
    <2>1. Prover \in used /\ Proves
      BY DEF Walking
    <2> QED
      BY <1>1, <1>2, <2>1, Names, RecordEffect
  <1>7. here # Prover /\ ~Dead(here) /\ exit' # "DELIVERED"
    BY <1>3 DEF Walking, Busy
  <1>8. here \in Early \/ Plan \in used' \/ Triage \in used'
    BY <1>3, <1>7, EarlyNodes DEF Walking
  <1>9. ASSUME NEW k \in Nodes PROVE here \in Way(Entry, {k}) \/ Visited(k)'
    BY <1>3, <1>4, <1>5 DEF Walking, Visited
  <1>10. Needs[here] \ {Plan} \subseteq used'
    BY <1>3, NeedsLieBefore DEF Walking
  <1>11. ASSUME NEW n \in used' PROVE UsedWell(n)'
    <2>1. n \in used /\ n # here /\ n \in Nodes
      BY <1>3, <1>11 DEF TypeInv, WalkTyped
    <2>2. UsedWell(n)
      BY <2>1 DEF Walking
    <2>3. Passes(n)' /\ OnSuccess[n] \in Nodes /\ here \in Beyond(n)
      BY <1>3, <1>5, <2>1, <2>2 DEF UsedWell
    <2>4. ASSUME NEW k \in Needs[n]
          PROVE  \/ (k \in used' \/ k = Plan) /\ RestsOn(n, k)'
                 \/ k \in Beyond(n) /\ here \in Way(k, {n})
      <3>1. CASE k = here
        BY <2>1, <2>3, <3>1, WaysAreClosed
      <3>2. CASE k # here
        <4>1. \/ (k \in used \/ k = Plan) /\ RestsOn(n, k)
              \/ k \in Beyond(n) /\ here \in Way(k, {n})
          BY <1>3, <2>2 DEF UsedWell
        <4> QED
          BY <1>3, <1>5, <2>1, <3>2, <4>1
      <3> QED
        BY <3>1, <3>2
    <2> QED
      BY <1>3, <2>3, <2>4 DEF UsedWell
  <1> QED
    BY <1>3, <1>4, <1>6, <1>7, <1>8, <1>9, <1>10, <1>11 DEF Walking

(* Back along the edge of failure *)
LEMMA ReworkWalks ==
  ASSUME TypeInv, Walking, pc = "failed", current # Prover, Rework
  PROVE  Onward
  <1>1. CASE OnFailure[current] \notin Nodes /\ Stop(OnFailure[current])
    <2>1. OnFailure[current] # "DELIVERED"
      BY <1>1, WorkflowAssumption DEF TypeInv, WalkTyped
    <2> QED
      BY <1>1, <2>1, StopEnds
  <1>2. CASE /\ OnFailure[current] \in Nodes /\ GoTo(OnFailure[current], env, visits)
             /\ UNCHANGED used
    <2> DEFINE next == OnFailure[current]
    <2>1. /\ pc' = "at" /\ current' = next /\ exit' = exit /\ env' = env
          /\ used' = used /\ journal' = journal
      BY <1>2 DEF GoTo, Rework
    <2>2. /\ \A n : Passes(n)' <=> Passes(n)
          /\ \A n, k : RestsOn(n, k)' <=> RestsOn(n, k)
          /\ Proves' <=> Proves
      BY <2>1 DEF Passes, RestsOn, Proves, Newest, Scope
    <2>3. PICK here \in Nodes : here = current
      BY DEF TypeInv, WalkTyped
    <2>4. /\ used \subseteq Nodes /\ next \in Nodes /\ next # Prover
          /\ ~Passes(here) /\ ~Dead(here)
      BY <1>2, <2>3, NeedsLieBefore DEF TypeInv, WalkTyped, Walking
    <2>5. Prover \in used /\ Proves /\ exit # "DELIVERED"
      BY DEF Walking
    <2>6. Dead(next) => ~Passes(Triage)
      BY <2>3, <2>4, DeadEnds
    <2>7. next \in Early \/ Dead(next) \/ Plan \in used \/ Triage \in used
      <3>1. CASE here \in Early \ {Plan, Triage}
        BY <2>3, <2>4, <3>1, EdgesLead, EarlyNodes
      <3>2. CASE here \in {Plan, Triage}
        BY <2>3, <2>4, <3>2, EarlyNodes
      <3> QED
        BY <2>3, <2>4, <3>1, <3>2 DEF Walking
    <2>8. ASSUME NEW k \in Nodes PROVE next \in Way(Entry, {k}) \/ Visited(k)
      BY <2>3, <2>4, VisitedOrMissed DEF Walking, Visited
    <2>9. ASSUME NEW n \in used
          PROVE  /\ Passes(n) /\ OnSuccess[n] \in Nodes /\ next \in Beyond(n)
                 /\ \A k \in Needs[n] : \/ (k \in used \/ k = Plan) /\ RestsOn(n, k)
                                        \/ k \in Beyond(n) /\ next \in Way(k, {n})
      <3>1. UsedWell(n) /\ n \in Nodes
        BY <2>4, <2>9 DEF Walking
      <3>2. n # here
        BY <2>4, <3>1 DEF UsedWell
      <3>3. Passes(n) /\ OnSuccess[n] \in Nodes
        BY <3>1 DEF UsedWell
      <3> QED
        BY <2>3, <2>4, <3>1, <3>2, <3>3, StaysOnItsWay
    <2> HIDE DEF next
    <2>10. \A n \in used : UsedWell(n)'
      BY <2>1, <2>2, <2>9 DEF UsedWell
    <2>11. \A k \in Nodes : next \in Way(Entry, {k}) \/ Visited(k)'
      BY <2>1, <2>2, <2>8 DEF Visited
    <2>12. ~Busy'
      BY <2>1 DEF Busy
    <2>13. Walking'
      BY <2>1, <2>2, <2>4, <2>5, <2>6, <2>7, <2>10, <2>11, <2>12 DEF Walking
    <2> QED
      BY <2>1, <2>5, <2>13 DEF Onward
  <1> QED
    BY <1>1, <1>2 DEF Rework

LEMMA BeginWalks ==
  ASSUME TypeInv, Walking, Begin
  PROVE  Onward
  <1>1. /\ UNCHANGED <<journal, env, current, used, exit>> /\ pc' = "running"
    BY DEF Begin
  <1>2. /\ \A n : Passes(n)' <=> Passes(n)
        /\ \A n, k : RestsOn(n, k)' <=> RestsOn(n, k)
        /\ Proves' <=> Proves
        /\ ProofAtHand' <=> ProofAtHand
    <2>1. \A n : Newest(n)' = Newest(n)
      BY <1>1 DEF Newest, Scope
    <2>2. \A n : Passes(n)' <=> Passes(n)
      BY <1>1, <2>1 DEF Passes
    <2>3. \A n, k : RestsOn(n, k)' <=> RestsOn(n, k)
      BY <1>1, <2>1 DEF RestsOn
    <2>4. Proves' <=> Proves
      BY <1>1, <2>1 DEF Proves
    <2>5. ProofAtHand' <=> ProofAtHand
      BY <1>1, <2>1 DEF ProofAtHand
    <2> QED
      BY <2>2, <2>3, <2>4, <2>5
  <1>3. \A n : UsedWell(n)' <=> UsedWell(n)
    BY <1>1, <1>2 DEF UsedWell
  <1>4. Needs[current] \ {Plan} \subseteq used /\ ~Dead(current)
    <2>1. \A k \in Needs[current] : Usable(k) # {}
      BY VerifiedIsUsable DEF Begin, Resolved, Found
    <2> QED
      BY <2>1, UsablePasses, NeedsWereUsed
  <1>5. exit # "DELIVERED"
    BY DEF Walking
  <1>6. \A n \in used' : UsedWell(n)'
    BY <1>1, <1>3 DEF Walking
  <1>7. Walking'
    BY <1>1, <1>2, <1>4, <1>5, <1>6 DEF Walking, Visited
  <1> QED
    BY <1>1, <1>5, <1>7 DEF Onward

LEMMA StartWalks ==
  ASSUME TypeInv, ProofsAreNamed, NEW req \in Requests, Start(req),
         req.from \in {Nowhere, Entry}
  PROVE  Onward
  <1>1. /\ current' = Prover /\ Prover \in Nodes /\ Prover \in Early /\ ~Dead(Prover)
        /\ \A k \in Nodes : Prover \in Way(Entry, {k})
    BY Names, EarlyNodes, DeadEnds, WaysAreClosed DEF Start
  <1>2. /\ pc' = "at" /\ used' = {} /\ exit' = "none" /\ env' = Bound(journal)
        /\ journal' = journal
    BY DEF Start
  <1>3. ASSUME ProofAtHand PROVE Bound(journal) # Base
    <2> DEFINE proofs == {i \in DOMAIN journal :
                            journal[i].node = Prover /\ journal[i].passed /\ journal[i].intact}
    <2>1. proofs # {}
      BY <1>3 DEF ProofAtHand, Newest
    <2>2. (CHOOSE i \in proofs : TRUE) \in proofs
      BY <2>1
    <2>3. \A i \in proofs : journal[i].proven \in Fingerprints
      BY DEF ProofsAreNamed
    <2>4. Bound(journal) = IF proofs = {} THEN Base
                           ELSE journal[CHOOSE i \in proofs : TRUE].proven
      BY DEF Bound
    <2> HIDE DEF proofs
    <2> QED
      BY <2>1, <2>2, <2>3, <2>4, ValuesAssumption
  <1>4. Prover \in ModelScoped
    BY WorkflowAssumption
  <1>5. ProofAtHand' => ProofAtHand
    BY <1>2, <1>4 DEF ProofAtHand, Newest, Scope
  <1>6. ~Busy' /\ pc' # "failed"
    BY <1>2 DEF Busy
  <1> QED
    BY <1>1, <1>2, <1>3, <1>5, <1>6 DEF Walking, Onward

LEMMA RecordedProofsAreNamed ==
  ASSUME TypeInv, OnePerScope, ProofsAreNamed, Busy, NEW outcome, NEW proven \in Environments,
         current = Prover => proven \in Fingerprints,
         journal' = Recorded(outcome, proven)
  PROVE  ProofsAreNamed'
  <1> DEFINE last == Len(Others) + 1
  <1>1. /\ DOMAIN journal' = 1..last /\ last \in Nat
        /\ journal'[last].node = current /\ journal'[last].proven = proven
    <2> DEFINE n == Len(Others)
    <2>1. /\ n \in Nat /\ DOMAIN journal' = 1..(n + 1)
          /\ journal'[n + 1].node = current /\ journal'[n + 1].proven = proven
      BY RecordedJournal
    <2> HIDE DEF n
    <2> QED
      BY <2>1 DEF n
  <1>2. ASSUME NEW j \in 1..last, j # last, journal'[j].node = Prover, journal'[j].passed
        PROVE  journal'[j].proven \in Fingerprints
    <2>1. j \in 1..Len(Others)
      BY <1>1, <1>2
    <2>2. /\ CameFrom(j) \in DOMAIN journal
          /\ journal'[j].node = journal[CameFrom(j)].node
          /\ journal'[j].passed = journal[CameFrom(j)].passed
          /\ journal'[j].proven = journal[CameFrom(j)].proven
      BY <2>1, RecordedJournal
    <2> QED
      BY <1>2, <2>2 DEF ProofsAreNamed
  <1> HIDE DEF last
  <1> QED
    BY <1>1, <1>2 DEF ProofsAreNamed

LEMMA SucceedKeepsRequest ==
  ASSUME WalkInv, pc # "idle", NEW bound, NEW counts, Succeed(bound, counts),
         ProofsAreNamed', FromStart => Onward
  PROVE  WalkInv'
  <1>1. CASE Stop("UNTIL_NODE_REACHED")
    BY <1>1 DEF Stop, Leave, WalkInv
  <1>2. CASE request' = request /\ pc' # "failed"
    BY <1>2 DEF WalkInv, Onward, FromStart
  <1>3. CASE Leave(OnSuccess[current]) /\ UNCHANGED request
    BY <1>2, <1>3 DEF Leave
  <1> QED
    BY <1>1, <1>2, <1>3 DEF Succeed, GoTo

LEMMA FailureKeepsRequest ==
  ASSUME WalkInv, pc # "idle", UNCHANGED <<request, exit, current>>, current # Prover,
         ProofsAreNamed', FromStart => Walking /\ Walking'
  PROVE  WalkInv'
  BY DEF WalkInv, FromStart, Walking

(* One of the nodes reports. *)
LEMMA ReportKeepsWalk ==
  ASSUME TypeInv, JournalInv, WalkInv,
         \/ \E proven \in Proven : Pass(proven) \/ FailAndStop(proven)
         \/ Fail
         \/ \E outcome \in {"pass", "fail"} : Rerun(outcome)
  PROVE  WalkInv'
  <1>1. Base \in Environments /\ OnePerScope
    BY DEF Environments, JournalInv
  <1>2. ASSUME NEW proven \in Proven
        PROVE  proven \in Environments /\ (current = Prover => proven \in Fingerprints)
    BY <1>2 DEF Proven, Environments
  <1>3. pc = "failed" => current # Prover
    BY DEF WalkInv
  <1>4. FromStart /\ pc # "idle" => Walking
    BY DEF WalkInv
  <1>5. ASSUME NEW proven \in Proven, Pass(proven) PROVE WalkInv'
    <2>1. Busy /\ pc # "idle" /\ journal' = Recorded("pass", proven)
      BY <1>5 DEF Pass, Busy
    <2>2. Succeed(IF current = Prover THEN Bound(journal') ELSE env, visits)
      BY <1>5 DEF Pass
    <2>3. ProofsAreNamed'
      BY <1>1, <1>2, <2>1, RecordedProofsAreNamed DEF WalkInv
    <2>4. ASSUME FromStart PROVE Onward
      <3>1. Walking
        BY <1>4, <2>1, <2>4
      <3>2. CASE current = Prover
        BY <1>2, <2>1, <2>2, <3>1, <3>2, ProofWalks
      <3>3. CASE current # Prover
        BY <1>2, <2>1, <2>2, <3>1, <3>3, PassWalks
      <3> QED
        BY <3>2, <3>3
    <2> QED
      BY <2>1, <2>2, <2>3, <2>4, SucceedKeepsRequest
  <1>6. ASSUME NEW proven \in Proven, FailAndStop(proven) PROVE WalkInv'
    <2>1. Busy /\ journal' = Recorded("fail", proven)
      BY <1>6 DEF FailAndStop, Busy
    <2>2. ProofsAreNamed'
      BY <1>1, <1>2, <2>1, RecordedProofsAreNamed DEF WalkInv
    <2>3. pc' = "idle" /\ exit' # "DELIVERED"
      BY <1>6 DEF FailAndStop, Stop, Leave
    <2> QED
      BY <2>2, <2>3 DEF WalkInv
  <1>7. CASE Fail
    <2>1. /\ Busy /\ pc # "idle" /\ journal' = Recorded("fail", Base) /\ current # Prover
          /\ used' = used \ {current} /\ UNCHANGED <<env, current, exit, request>>
      BY <1>7 DEF Fail, Busy
    <2>2. ProofsAreNamed'
      BY <1>1, <2>1, RecordedProofsAreNamed DEF WalkInv
    <2>3. ASSUME FromStart PROVE Walking /\ Walking'
      <3>1. Walking
        BY <1>4, <2>1, <2>3
      <3> QED
        BY <2>1, <3>1, FailureWalks
    <2> QED
      BY <2>1, <2>2, <2>3, FailureKeepsRequest
  <1>8. ASSUME Rerun("pass") PROVE WalkInv'
    <2>1. Busy /\ pc # "idle" /\ journal' = Recorded("pass", Base) /\ current # Prover
      BY <1>3, <1>8 DEF Rerun, Busy
    <2>2. Succeed(env, visits)
      BY <1>8 DEF Rerun
    <2>3. ProofsAreNamed'
      BY <1>1, <2>1, RecordedProofsAreNamed DEF WalkInv
    <2>4. ASSUME FromStart PROVE Onward
      BY <1>1, <1>4, <2>1, <2>2, <2>4, PassWalks
    <2> QED
      BY <2>1, <2>2, <2>3, <2>4, SucceedKeepsRequest
  <1>9. ASSUME Rerun("fail") PROVE WalkInv'
    <2>1. /\ Busy /\ pc # "idle" /\ journal' = Recorded("fail", Base) /\ current # Prover
          /\ pc = "failed" /\ UNCHANGED <<env, current, exit, request, used>>
      BY <1>3, <1>9 DEF Rerun, Busy
    <2>2. ProofsAreNamed'
      BY <1>1, <2>1, RecordedProofsAreNamed DEF WalkInv
    <2>3. ASSUME FromStart PROVE Walking /\ Walking'
      <3>1. Walking
        BY <1>4, <2>1, <2>3
      <3>2. current \notin used
        BY <2>1, <3>1 DEF Walking, UsedWell
      <3>3. used' = used \ {current}
        BY <2>1, <3>2
      <3> QED
        BY <2>1, <3>1, <3>3, FailureWalks
    <2> QED
      BY <2>1, <2>2, <2>3, FailureKeepsRequest
  <1> QED
    BY <1>5, <1>6, <1>7, <1>8, <1>9

LEMMA NextKeepsWalk ==
  ASSUME TypeInv, JournalInv, WalkInv, [Next]_vars
  PROVE  WalkInv'
  <1>1. pc = "failed" => current # Prover
    BY DEF WalkInv
  <1>2. FromStart /\ pc # "idle" => Walking
    BY DEF WalkInv
  <1>3. journal' = journal => ProofsAreNamed'
    BY DEF WalkInv, ProofsAreNamed
  <1>4. ASSUME NEW req \in Requests, Start(req) PROVE WalkInv'
    <2>1. /\ journal' = journal /\ request' = req /\ pc' = "at" /\ exit' = "none"
      BY <1>4 DEF Start
    <2>2. FromStart' => Walking'
      BY <1>4, <2>1, StartWalks DEF FromStart, Onward, WalkInv
    <2> QED
      BY <1>3, <2>1, <2>2 DEF WalkInv
  <1>5. CASE CycleStop \/ NoSkill \/ Unresolved \/ Kill
    <2>1. pc' = "idle" /\ exit' # "DELIVERED" /\ journal' = journal
      BY <1>5 DEF CycleStop, NoSkill, Unresolved, Kill, Stop, Leave
    <2> QED
      BY <1>3, <2>1 DEF WalkInv
  <1>6. CASE Reuse
    <2>1. pc # "idle" /\ journal' = journal /\ Succeed(env, Counted)
      BY <1>6 DEF Reuse, Visit
    <2>2. FromStart => Onward
      BY <1>2, <1>6, <2>1, ReuseWalks
    <2> QED
      BY <1>3, <2>1, <2>2, SucceedKeepsRequest
  <1>7. CASE Begin
    <2>1. /\ pc # "idle" /\ journal' = journal /\ UNCHANGED <<request, exit>>
          /\ pc' = "running"
      BY <1>7 DEF Begin, Visit
    <2>2. FromStart => Walking /\ Onward
      BY <1>2, <1>7, <2>1, BeginWalks
    <2> QED
      BY <1>3, <2>1, <2>2 DEF WalkInv, Onward, FromStart, Walking
  <1>8. CASE Rework
    <2>1. pc = "failed" /\ pc # "idle" /\ journal' = journal /\ current # Prover
      BY <1>1, <1>8 DEF Rework
    <2>2. FromStart => Walking /\ Onward
      BY <1>2, <1>8, <2>1, ReworkWalks
    <2>3. CASE GoTo(OnFailure[current], env, visits)
      BY <1>3, <2>1, <2>2, <2>3 DEF GoTo, WalkInv, Onward, FromStart, Walking
    <2>4. CASE OnFailure[current] \notin Nodes /\ Stop(OnFailure[current])
      <3>1. OnFailure[current] # "DELIVERED"
        BY <2>4, WorkflowAssumption DEF TypeInv, WalkTyped
      <3> QED
        BY <1>3, <2>1, <2>4, <3>1 DEF Stop, Leave, WalkInv
    <2> QED
      BY <1>8, <2>3, <2>4 DEF Rework
  <1>9. ASSUME NEW i \in DOMAIN journal, Damage(i) PROVE WalkInv'
    <2>1. Same
      BY <1>9 DEF Damage, walk, Same
    <2> QED
      BY <1>9, <2>1, DamagedFacts, StillWalking DEF TypeInv
  <1>10. CASE UNCHANGED <<journal, pc, walk>>
    BY <1>10, StillWalking DEF Same, walk
  <1> QED
    BY <1>4, <1>5, <1>6, <1>7, <1>8, <1>9, <1>10, ReportKeepsWalk
    DEF Next, Step, Revise, vars

(* What a walk over the whole workflow delivers is of one piece, but for a *)
(* plan from before that a repaired walk falls back on, in any workflow    *)
(* that hangs together as the adaptation workflow does: across kills,      *)
(* damage, new methods, failures anywhere, recoveries and reuse            *)
(* (graph_runner.py, state/journal.py).                                    *)
THEOREM DeliveriesAreOfOnePiece == Spec => []DeliveredOfOnePiece
  <1>1. Init => TypeInv /\ JournalInv /\ WalkInv
    <2>1. Init => TypeInv
      BY WorkflowAssumption, ValuesAssumption
      DEF Init, TypeInv, WalkTyped, Busy, Environments, Exits
    <2>2. Init => JournalInv
      BY DEF Init, JournalInv, OnePerScope, BaseOfModels, RestsTillReplaced
    <2>3. Init => WalkInv
      BY DEF Init, WalkInv, ProofsAreNamed
    <2> QED
      BY <2>1, <2>2, <2>3
  <1>2. TypeInv /\ JournalInv /\ WalkInv /\ [Next]_vars => (TypeInv /\ JournalInv /\ WalkInv)'
    BY NextTyped, NextKeepsJournal, NextKeepsWalk
  <1>3. ASSUME TypeInv, JournalInv, WalkInv PROVE DeliveredOfOnePiece
    <2> SUFFICES ASSUME exit = "DELIVERED", FromStart
                 PROVE  /\ Prover \in used
                        /\ Plan \in used \/ Triage \in used
                        /\ \A n \in used :
                             /\ Needs[n] \ {Plan} \subseteq used
                             /\ \E i \in Newest(n) :
                                  /\ journal[i].passed
                                  /\ Needs[n] \subseteq journal[i].rests
                                  /\ n = Prover => journal[i].proven = env
      BY DEF DeliveredOfOnePiece, FromStart
    <2>1. Delivered
      BY <1>3 DEF WalkInv
    <2>2. \A n : \A i, j \in Newest(n) : i = j
      BY <1>3 DEF JournalInv, OnePerScope, Newest
    <2>3. ASSUME NEW n \in used
          PROVE  /\ Needs[n] \ {Plan} \subseteq used
                 /\ \E i \in Newest(n) :
                      /\ journal[i].passed
                      /\ Needs[n] \subseteq journal[i].rests
                      /\ n = Prover => journal[i].proven = env
      <3>1. PICK i \in Newest(n) : journal[i].passed
        BY <2>1, <2>3 DEF Delivered, Passes
      <3>2. Needs[n] \ {Plan} \subseteq used /\ \A k \in Needs[n] : RestsOn(n, k)
        BY <2>1, <2>3 DEF Delivered
      <3>3. Needs[n] \subseteq journal[i].rests
        BY <2>2, <3>1, <3>2 DEF RestsOn
      <3>4. n = Prover => journal[i].proven = env
        BY <2>1, <2>2, <3>1 DEF Delivered, Proves
      <3> QED
        BY <3>1, <3>2, <3>3, <3>4
    <2> QED
      BY <2>1, <2>3 DEF Delivered
  <1> QED
    BY <1>1, <1>2, <1>3, PTL DEF Spec

=============================================================================
