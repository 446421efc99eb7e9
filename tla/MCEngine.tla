------------------------------- MODULE MCEngine -------------------------------
(* Constant values of the TLC runs of Engine. *)
EXTENDS EngineProperties, TLC

CONSTANTS f1, f2, p1, p2

OneFlow == {f1}

TwoFlows == {f1, f2}

\* The three steps of the problem batch: collect, process, load.
ThreeSteps == [f \in Flows |-> <<"collect", "process", "load">>]

\* The two steps of the user batch.
TwoSteps == [f \in Flows |-> <<"solved_user", "acmicpc_user">>]

ThreeNames == {"collect", "process", "load"}

TwoNames == {"solved_user", "acmicpc_user"}

\* The user batch beside the one-step batch of today's problems.
TwoBatches == [f \in Flows |->
                 IF f = f1 THEN <<"solved_user", "acmicpc_user">> ELSE <<"today">>]

BatchNames == {"solved_user", "acmicpc_user", "today"}

TwoProcs == {p1, p2}

ProcSymmetry == Permutations(TwoProcs)
=============================================================================
