-------------------------- MODULE MCCostBasisCache --------------------------
(* Small instances of CostBasisCache for TLC. *)
EXTENDS CostBasisCache, TLC

RequestSymmetry == Permutations(Request) \cup Permutations(Process)
=============================================================================
