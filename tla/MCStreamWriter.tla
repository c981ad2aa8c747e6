-------------------------- MODULE MCStreamWriter --------------------------
(* Small instances of StreamWriter for TLC. *)
EXTENDS StreamWriter, TLC

\* The writers are interchangeable.
WriterSymmetry == Permutations(Writers)
=============================================================================
