------------------------- MODULE DurableExecutionMC -------------------------
(* Small instances of DurableExecution for TLC. *)
EXTENDS DurableExecution, TLC

CONSTANTS b1, b2, w1, w2, e1, e2

\* Workers run the same code and execution rows are interchangeable.
WorkersOnly == Permutations({w1, w2})
Rows == Permutations({e1, e2})
=============================================================================
