-------------------------- MODULE MCActionExecutor --------------------------
(* Instances of ActionExecutor for TLC. *)
EXTENDS ActionExecutor, TLC

CONSTANT requester   \* the SRE who investigates

MCRunUser == [r \in Runs |-> requester]

Symmetry == Permutations(Threads) \cup Permutations(Intents) \cup Permutations(Keys)
=============================================================================
