------------------------- MODULE MCProblemCollection -------------------------
(* Constant values of the TLC run of ProblemCollection. *)
EXTENDS ProblemCollection

CONSTANTS t1, t2

\* Rows of another source: one below the first number, one behind the last.
MCForeign == <<0, 15>>
=============================================================================
