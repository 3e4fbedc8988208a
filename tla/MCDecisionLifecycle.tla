------------------------- MODULE MCDecisionLifecycle --------------------------
(* DecisionLifecycle on small instances. *)
EXTENDS DecisionLifecycle, TLC

(* The consolidation processes are interchangeable (safety runs only). *)
Interchangeable == Permutations(Jobs)
=============================================================================
