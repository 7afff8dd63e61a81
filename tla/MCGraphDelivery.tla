-------------------------- MODULE MCGraphDelivery --------------------------
(* Instances of GraphDelivery for TLC. *)
EXTENDS GraphDelivery, TLC

(* Two proofs of one environment and one of another. *)
Digests == [p \in Proofs |-> IF p = "p3" THEN "b" ELSE "a"]

WalkSymmetry == Permutations(Walks)

(* Bound: nothing is started after a delivery. *)
FirstDelivery == run.delivery # "delivered"

Evidence == {"p1", "gap", "service", "o1"}
=============================================================================
