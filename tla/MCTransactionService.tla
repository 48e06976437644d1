----------------------- MODULE MCTransactionService -----------------------
(* Instances of TransactionService for TLC. *)
EXTENDS TransactionService, TLC

Symmetry == Permutations(Threads) \cup Permutations(Accounts) \cup Permutations(Customers)
            \cup Permutations(Keys) \cup Permutations(Refs)
===========================================================================
