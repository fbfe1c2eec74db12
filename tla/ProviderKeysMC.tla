---------------------------- MODULE ProviderKeysMC ----------------------------
(***************************************************************************)
(* Instances of ProviderKeys for TLC.                                      *)
(***************************************************************************)
EXTENDS ProviderKeys, TLC

CONSTANTS t1, t2

(* A user's turn that sticks to its key, and an agent's that does not.      *)
UserAndAgent == {[mayRetry |-> TRUE, sticky |-> TRUE], [mayRetry |-> FALSE, sticky |-> FALSE]}

(* The handlers are interchangeable.                                       *)
Handlers == Permutations(Turns)
=============================================================================
