---------------------------- MODULE MCTodayProblem ----------------------------
(* Constant values of the TLC run of TodayProblem. *)
EXTENDS TodayProblem

CONSTANTS t1, t2, a1, b1, b2, b3

\* a1 is the only problem of the first group.
MCLevel == [p \in Problems |-> IF p = a1 THEN 1 ELSE 18]

\* b1 and b3 share a type; "unknown" is no type that is handled.
MCTypeList == [p \in Problems |->
    CASE p = b1 -> {"kmp"}
      [] p = b2 -> {"tree", "unknown"}
      [] p = a1 -> {"dfs"}
      [] p = b3 -> {"kmp", "unknown"}]

MCHandler == [name \in {"kmp", "dfs", "tree"} |->
    IF name = "dfs" THEN {"search", "graph"} ELSE {name}]

\* The day behind the plan, which is in the plan after midnight.
MCAsked == {Horizon + 1}
=============================================================================
