----------------------------- MODULE ProblemPlan -----------------------------
(***************************************************************************)
(* ProblemBojPlan.plan: which problems a firing of the problem batch       *)
(* collects.  It walks the numbers upwards and keeps those that are        *)
(* neither in PROBLEM_V2 nor on one of its lists, until it has enough.     *)
(* A number stands for a sourceId; one that is not a number stands for one *)
(* below MinNo, the filter drops both.                                     *)
(***************************************************************************)
EXTENDS Integers, Sequences, FiniteSets

CONSTANTS
    MinNo, EndNo,   \* current runs from MinNo (1000) up to EndNo - 1 (34007)
    TargetCount,   \* 50
    Excluded       \* nonTargetsSet

ASSUME PlanAssumption ==
    /\ MinNo \in Nat /\ EndNo \in Nat /\ TargetCount \in Nat
    /\ Excluded \subseteq Nat

Numbers == MinNo .. EndNo - 1

\* The numbers of a finite set, upwards.
Ascending ==
    [numbers \in SUBSET Nat |->
        [k \in 1 .. Cardinality(numbers) |->
            CHOOSE n \in numbers : Cardinality({m \in numbers : m < n}) = k - 1]]

\* The places that filter keeps.
Kept(sourceIds) == {i \in DOMAIN sourceIds : sourceIds[i] >= MinNo}

\* What sort puts before place i: the smaller numbers, and the equal ones that
\* came before.
SortedBefore(sourceIds, i) ==
    {j \in Kept(sourceIds) : \/ sourceIds[j] < sourceIds[i]
                             \/ sourceIds[j] = sourceIds[i] /\ j < i}

\* Mutant of ProblemNumbers: the numbers in the order they are read.
UnsortedNumbers ==
    [sourceIds \in Seq(Nat) |->
        [k \in 1 .. Cardinality(Kept(sourceIds)) |->
            sourceIds[Ascending[Kept(sourceIds)][k]]]]

ProblemNumbers ==
    [sourceIds \in Seq(Nat) |->
        [k \in 1 .. Cardinality(Kept(sourceIds)) |->
            sourceIds[CHOOSE i \in Kept(sourceIds) :
                          Cardinality(SortedBefore(sourceIds, i)) = k - 1]]]

\* problemIndex when the inner loop stops: the first number that is not below
\* current.  It only passes numbers below current, which stay behind it for the
\* greater ones, so where it was before does not matter.
ProblemIndex(numbers, current) ==
    CHOOSE k \in 1 .. Len(numbers) + 1 :
        /\ k =< Len(numbers) => numbers[k] >= current
        /\ \A i \in 1 .. k - 1 : numbers[i] < current

\* The test of the outer loop, which looks at one number only.
IsMissing(numbers, current) ==
    LET index == ProblemIndex(numbers, current)
    IN  /\ index > Len(numbers) \/ numbers[index] # current
        /\ current \notin Excluded

\* Mutant of Missing: current =< 34008.
OneTooFar ==
    [numbers \in Seq(Nat) |->
        IF numbers = <<>> THEN (MinNo .. EndNo) \ Excluded
        ELSE {current \in MinNo .. EndNo : IsMissing(numbers, current)}]

\* What passes the test.  An empty table has a loop of its own.
Missing ==
    [numbers \in Seq(Nat) |->
        IF numbers = <<>> THEN Numbers \ Excluded
        ELSE {current \in Numbers : IsMissing(numbers, current)}]

\* The loops end when they have enough.
Enough ==
    [missing \in Seq(Nat) |->
        IF Len(missing) < TargetCount THEN missing ELSE SubSeq(missing, 1, TargetCount)]

MissingProblems ==
    [sourceIds \in Seq(Nat) |-> Enough[Ascending[Missing[ProblemNumbers[sourceIds]]]]]
=============================================================================
