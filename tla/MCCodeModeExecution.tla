------------------------ MODULE MCCodeModeExecution ------------------------
(* Small instances of CodeModeExecution for TLC. *)
EXTENDS CodeModeExecution, TLC

\* The calls are interchangeable: every guard treats them alike.
CallSymmetry == Permutations(Calls)
=============================================================================
