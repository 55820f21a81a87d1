-------------------------- MODULE MCPriceScheduling --------------------------
(* Instances of PriceScheduling.                                              *)
EXTENDS PriceScheduling, TLC

Symmetry == Permutations(Sessions) \cup Permutations(Users) \cup Permutations(TaskIds)
=============================================================================
