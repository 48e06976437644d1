---------------------------- MODULE MCRunManager ----------------------------
(* Instances of RunManager for TLC. *)
EXTENDS RunManager, TLC

Symmetry == Permutations(Threads) \cup Permutations(RunIds) \cup Permutations(Keys)
=============================================================================
