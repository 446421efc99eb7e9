------------------------------- MODULE JobTree -------------------------------
(***************************************************************************)
(* The loops of OrchestratorService: generateJob nests the steps of a      *)
(* definition into the job tree that FlowProducer.add takes, toFlatJobNode *)
(* lists the jobs of the tree to wait for.  FlowQueue takes from here that *)
(* a flow is a chain with step 1 at its leaf.                              *)
(***************************************************************************)
EXTENDS Integers, SequencesExt

VARIABLES
    stepList,    \* the names of the steps of the definition, sorted by order
    stack,       \* the stack of the loop that is running
    jobOption,   \* the tree built so far; <<>> stands for null
    jobNodes,    \* the jobs listed so far
    pc

treeVars == <<stepList, stack, jobOption, jobNodes, pc>>

\* children: undefined and [] are not told apart by any reader of it.
Node(name, children) == [name |-> name, children |-> children]

TreeInit ==
    /\ stepList = <<>> /\ stack = <<>> /\ jobOption = <<>> /\ jobNodes = <<>>
    /\ pc = "lookup"

Generate(list) ==
    /\ stepList' = list
    /\ stack' = Reverse(list)
    /\ pc' = "generate"
    /\ UNCHANGED <<jobOption, jobNodes>>

\* Mutant of Nest: the steps are taken from the wrong end.
NestReversed ==
    /\ pc = "generate"
    /\ stack # <<>>
    /\ stack' = Tail(stack)
    /\ jobOption' = <<Node(Head(stack), jobOption)>>
    /\ UNCHANGED <<stepList, jobNodes, pc>>

\* One turn of generateJob's loop: the tree so far becomes the only child.
Nest ==
    /\ pc = "generate"
    /\ stack # <<>>
    /\ stack' = Front(stack)
    /\ jobOption' = <<Node(Last(stack), jobOption)>>
    /\ UNCHANGED <<stepList, jobNodes, pc>>

\* flowProducer.add takes the tree and returns one of the same shape; it cannot
\* take the null of an empty definition.
AddTree ==
    /\ pc = "generate"
    /\ stack = <<>>
    /\ IF jobOption = <<>> THEN pc' = "threw" /\ UNCHANGED stack
                           ELSE pc' = "flatten" /\ stack' = jobOption
    /\ UNCHANGED <<stepList, jobOption, jobNodes>>

\* Mutant of Visit: the children are forgotten.
VisitRoot ==
    /\ pc = "flatten"
    /\ stack # <<>>
    /\ jobNodes' = Append(jobNodes, Last(stack))
    /\ stack' = Front(stack)
    /\ UNCHANGED <<stepList, jobOption, pc>>

\* One turn of toFlatJobNode's loop.
Visit ==
    /\ pc = "flatten"
    /\ stack # <<>>
    /\ jobNodes' = Append(jobNodes, Last(stack))
    /\ stack' = Front(stack) \o Last(stack).children
    /\ UNCHANGED <<stepList, jobOption, pc>>

Return ==
    /\ pc = "flatten"
    /\ stack = <<>>
    /\ pc' = "done"
    /\ UNCHANGED <<stepList, stack, jobOption, jobNodes>>

TreeStep == Nest \/ AddTree \/ Visit \/ Return

\* Every job has exactly the step before it as its child, and the first step
\* has none: BullMQ starts with step 1 and each step waits for its predecessor.
TreeIsChainOfSteps ==
    pc = "done" =>
        \A i \in DOMAIN jobNodes :
            /\ jobNodes[i].name = stepList[Len(stepList) - i + 1]
            /\ jobNodes[i].children =
                  IF i = Len(stepList) THEN <<>> ELSE <<jobNodes[i + 1]>>

\* orchestrate waits for every job of the flow, the last step of the definition
\* first: that is the one whose error it reports when several waits reject.
WaitsForEveryStep ==
    pc = "done" => [i \in DOMAIN jobNodes |-> jobNodes[i].name] = Reverse(stepList)
=============================================================================
