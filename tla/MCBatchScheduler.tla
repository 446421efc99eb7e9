-------------------------- MODULE MCBatchScheduler --------------------------
(* Constant values of the TLC runs of BatchScheduler. *)
EXTENDS BatchScheduler, TLC

CONSTANTS c1, c2, c3, c4

ThreeCalls == {c1, c2, c3}

FourCalls == {c1, c2, c3, c4}

CallSymmetry == Permutations(Calls)

\* Two definitions of the same plan, one of another, and one with a cron
\* expression CronJob refuses.
MCDefName == 1 :> "PROBLEM_BOJ" @@ 2 :> "TODAY_PROBLEM_BOJ" @@
             3 :> "PROBLEM_BOJ" @@ 4 :> "PROBLEM_BOJ_USER"

TwoDefNames == 1 :> "PROBLEM_BOJ" @@ 2 :> "TODAY_PROBLEM_BOJ"

MCNames == {"PROBLEM_BOJ", "TODAY_PROBLEM_BOJ", "PROBLEM_BOJ_USER"}
=============================================================================
