-------------------------- MODULE DeploymentBudget --------------------------
(***************************************************************************)
(* The plan of a deployment (MAT-005) and the memory budget of the service *)
(* that runs (MEM-001): what a card should hold, and what it does.         *)
(*                                                                         *)
(* Memory is in units of which a card has Hbm, context in units of the     *)
(* shortest length the plan tries, 1024 tokens.                            *)
(***************************************************************************)
EXTENDS Integers, FiniteSets

CONSTANTS
  Hbm,          \* what a card has by the catalog
  Weights,      \* bound: the sizes of a checkpoint
  Heads,        \* bound: the numbers of attention heads
  Limits,       \* bound: the contexts a checkpoint allows
  PerToken,     \* what a unit of context needs on each card
  Cards,        \* the cards of the pod
  Usages        \* bound: what a card may hold

ASSUME BudgetConstants ==
  /\ {Hbm, PerToken} \subseteq Nat \ {0} /\ Usages \subseteq 0..Hbm
  /\ Weights \cup Heads \cup Limits \subseteq Nat \ {0}

VARIABLES
  plan,      \* deployment_plan.json and its verdict
  used,      \* what is used of each card
  logged,    \* what the log of the service accounts for on each of its cards
  snapshot,  \* xpu_smi.csv, once it is taken
  budget     \* memory_budget.json and its verdict

budgetVars == <<plan, used, logged, snapshot, budget>>

BudgetInit ==
  /\ plan = [tp |-> 0, length |-> 0, limit |-> 0, weights |-> 0, accepted |-> FALSE]
  /\ used \in [Cards -> Usages] /\ logged \in Usages
  /\ snapshot = {}
  /\ budget = [ranks |-> {}, snapshot |-> {}, logged |-> 0, other |-> 0, state |-> "none"]

-----------------------------------------------------------------------------
(* The plan. *)

(* 0.9 of a card is used, of which the weights leave the remainder; the    *)
(* KV cache of one sequence may take half of it.                           *)
Remainder(tp, weights) == 9 * Hbm * tp - 10 * weights       \* times 10 * tp
Fits(length, tp, weights) == 2 * PerToken * length * 10 * tp <= Remainder(tp, weights)

(* The smallest size at which the weights leave 45 per cent of a card and  *)
(* the heads divide; 8 when there is none.                                 *)
TensorParallel(weights, heads) ==
  LET candidates == {n \in {1, 2, 4, 8} : 100 * weights <= 55 * Hbm * n /\ heads % n = 0}
  IN IF candidates = {} THEN 8 ELSE CHOOSE n \in candidates : \A m \in candidates : n <= m

(* The limit is halved until it fits or is as short as the plan tries. *)
Capped(limit, tp, weights) ==
  LET halved == [k \in 0..limit |-> limit \div 2 ^ k]
      enough == {k \in 0..limit : halved[k] <= 1 \/ Fits(halved[k], tp, weights)}
  IN halved[CHOOSE k \in enough : \A j \in enough : k <= j]

(* validate_deployment_plan, of what the arithmetic decides: the heads     *)
(* divide, the context is allowed, and a share of the weights is no more   *)
(* than a card.                                                            *)
PlanAccepted(tp, length, weights, heads, limit) ==
  heads % tp = 0 /\ length <= limit /\ weights <= Hbm * tp

Plan(weights, heads, limit) ==
  LET tp == TensorParallel(weights, heads)
      length == Capped(limit, tp, weights)
  IN /\ plan' = [tp |-> tp, length |-> length, limit |-> limit, weights |-> weights,
                 accepted |-> PlanAccepted(tp, length, weights, heads, limit)]
     /\ UNCHANGED <<used, logged, snapshot, budget>>

-----------------------------------------------------------------------------
(* The budget. *)

(* A service is loaded, grows, or goes. *)
Load(usage, log) ==
  /\ used' = usage /\ logged' = log
  /\ UNCHANGED <<plan, snapshot, budget>>

TakeSnapshot ==
  /\ snapshot = {}
  /\ snapshot' = {used}
  /\ UNCHANGED <<plan, used, logged, budget>>

(* Thresholds of the contract, in the same units. *)
Idle == 1
MinFree == 1
MinUnattributed == 1
MaxSpread == 2
Slack == 1

Active(cards) == {c \in Cards : cards[c] > Idle}

MaxOf(S) == CHOOSE n \in S : \A m \in S : m <= n
MinOf(S) == CHOOSE n \in S : \A m \in S : n <= m

(* Defect: of the free memory of the ranks the largest is kept. *)
BugBudgetAccepted(ranks, cards, log, other) ==
  /\ \A c \in ranks : cards[c] - log - other \in -Slack..Slack
  /\ MinOf({cards[c] - log : c \in ranks}) >= MinUnattributed
  /\ MaxOf({Hbm - cards[c] : c \in ranks}) >= MinFree
  /\ MaxOf({cards[c] : c \in ranks}) - MinOf({cards[c] : c \in ranks}) <= MaxSpread

(* The report holds the worst rank of each measure, and the validator      *)
(* judges those.  other: what the analyzer found not accounted for.        *)
BudgetAccepted(ranks, cards, log, other) ==
  /\ \A c \in ranks : cards[c] - log - other \in -Slack..Slack
  /\ MinOf({cards[c] - log : c \in ranks}) >= MinUnattributed
  /\ MinOf({Hbm - cards[c] : c \in ranks}) >= MinFree
  /\ MaxOf({cards[c] : c \in ranks}) - MinOf({cards[c] : c \in ranks}) <= MaxSpread

(* The log is read after the snapshot.  The cards in use are the ranks,    *)
(* one of them if the caller says so; that their number is not the one the *)
(* log declares is only a warning.  Without a card in use there is no      *)
(* report.  enough: the KV pool holds the tokens of the contract.          *)
Reconcile(chosen, other, enough) ==
  \E cards \in snapshot :
    LET ranks == IF chosen = {} THEN Active(cards) ELSE chosen \cap Active(cards)
        accepted == enough /\ BudgetAccepted(ranks, cards, logged, other)
    IN /\ ranks # {}
       /\ budget' = [ranks |-> ranks, snapshot |-> {cards}, logged |-> logged, other |-> other,
                     state |-> IF accepted THEN "BUDGET_ACCEPTABLE" ELSE "BUDGET_REJECTED"]
       /\ snapshot' = {}
       /\ UNCHANGED <<plan, used, logged>>

(* The evidence cannot be read: no report. *)
GiveUp ==
  /\ snapshot # {} /\ snapshot' = {}
  /\ UNCHANGED <<plan, used, logged, budget>>

BudgetNext ==
  \/ \E weights \in Weights, heads \in Heads, limit \in Limits : Plan(weights, heads, limit)
  \/ \E usage \in [Cards -> Usages], log \in Usages : Load(usage, log)
  \/ TakeSnapshot
  \/ \E chosen \in {{}} \cup {{c} : c \in Cards}, other \in 0..Hbm, enough \in BOOLEAN :
       Reconcile(chosen, other, enough)
  \/ GiveUp

BudgetSpec == BudgetInit /\ [][BudgetNext]_budgetVars

-----------------------------------------------------------------------------
(* "a gate on any threshold holds for every rank that the deployment       *)
(* actually occupies" (reconcile_deployment): each rank of an accepted     *)
(* budget passes on its own, and an accepted plan that allows more than    *)
(* the shortest context leaves room for a sequence of that length          *)
(* (cap_model_len_to_budget).                                              *)
EveryRankFits ==
  /\ budget.state = "BUDGET_ACCEPTABLE" =>
       \A cards \in budget.snapshot, c \in budget.ranks :
         /\ Hbm - cards[c] >= MinFree
         /\ cards[c] - budget.logged >= MinUnattributed
         /\ \A d \in budget.ranks : cards[c] - cards[d] <= MaxSpread
  /\ plan.accepted /\ plan.length > 1 =>
       10 * plan.weights + 20 * PerToken * plan.length * plan.tp <= 9 * Hbm * plan.tp
=============================================================================
