------------------------------ MODULE MCPlanCas ------------------------------
(* Model-checking instance of PlanCas. *)
EXTENDS PlanCas, TLC
MCSymmetry == Permutations(Actors) \cup Permutations(Slots)
=============================================================================
