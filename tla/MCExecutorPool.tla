-------------------------- MODULE MCExecutorPool --------------------------
(* Small instances of ExecutorPool for TLC. *)
EXTENDS ExecutorPool, TLC

\* The requests are interchangeable: every guard treats them alike.
RequestSymmetry == Permutations(Requests)
=============================================================================
