----------------------------- MODULE MCSimLoop -----------------------------
(* Instances of SimLoop for TLC. *)
EXTENDS SimLoopProperties

CONSTANTS s1, s2

OnePlan == [p \in {1} |-> s1]
TwoPlans == [p \in {1, 2} |-> IF p = 1 THEN s2 ELSE s1]
=============================================================================
