------------------------- MODULE MCExecutionOutput -------------------------
(* Lines for TLC: empty, and with each kind of character at the cut.       *)
EXTENDS ExecutionOutput

MCLines == {<<>>, <<"plain", "quote">>, <<"wide", "plain">>}
=============================================================================
