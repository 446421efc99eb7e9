---------------------------- MODULE CatalogProofs ----------------------------
(***************************************************************************)
(* Theorems about JobCatalog and the loops of JobTree, for definitions of  *)
(* any length and any number of orchestrate calls.                         *)
(***************************************************************************)
EXTENDS JobCatalog, SequenceTheorems, TLAPS

-------------------------------------------------------------------------------
(* What a lookup may find *)

\* list is an order of the steps that are in the table.
Current(list) == definition # None /\ list \in Sorted(definition)

\* The answer of ORDER BY has the length of the definition.
LEMMA SortedIsSeq ==
    ASSUME NEW n \in Nat, NEW steps \in [1 .. n -> Step], NEW list \in Sorted(steps)
    PROVE  list \in Seq(StepNames)
<1>1. PICK at \in Bijection(DOMAIN steps, DOMAIN steps) :
         list = [i \in DOMAIN steps |-> steps[at[i]].name]
  BY DEF Sorted
<1>2. at \in [1 .. n -> 1 .. n]
  BY <1>1 DEF Bijection, Injection, Surjection
<1>3. list \in [1 .. n -> StepNames]
  BY <1>1, <1>2 DEF Step
<1> QED
  BY <1>3

\* The shapes the lookup proofs need; what the loops hold is in TreeInv.
LookupType == [pc : {"ready", "hit", "find", "set"} \cup Resting,
               found : Seq(StepNames) \cup {None}, absent : BOOLEAN]

CatalogTypeOK ==
    /\ definition # None => \E n \in Nat : definition \in [1 .. n -> Step]
    /\ lookup \in [Callers -> LookupType]

\* The cache and the calls under way hold nothing but orders of the definition,
\* and a call that began after the create is not on its way to miss it.
FoundIsCurrent ==
    /\ cache # None => Current(cache)
    /\ \A c \in Callers :
          /\ lookup[c].pc \in {"hit", "set"} => Current(lookup[c].found)
          /\ lookup[c].pc = "find" /\ ~lookup[c].absent => definition # None

CatalogInv == CatalogTypeOK /\ FoundIsCurrent /\ NotFoundMeansAbsent

\* An order of the definition is a list of step names, and not None.
LEMMA CurrentIsSeq ==
    ASSUME CatalogTypeOK, NEW list, Current(list)
    PROVE  list \in Seq(StepNames) /\ list # None
<1>1. list \in Seq(StepNames)
  BY SortedIsSeq DEF CatalogTypeOK, Current
<1> QED
  BY <1>1, CatalogAssumption

\* A definition is never changed: there is no update, and no delete is carried out.
LEMMA DefinitionStays ==
    ASSUME [Next]_vars, definition # None
    PROVE  UNCHANGED definition
  BY DEF Next, vars, CreateJobDefinition, DeleteJobDefinition, Get, Hit, Find, Set, Expire, Loops

\* What a call does with the answer to its lookup.
LEMMA AnswerStep ==
    ASSUME CatalogTypeOK, NEW c \in Callers, NEW answer, Answer(c, answer)
    PROVE  /\ lookup'[c].pc = IF answer = None THEN "notFound" ELSE "found"
           /\ lookup'[c].absent = lookup[c].absent
           /\ \A d \in Callers : d # c => lookup'[d] = lookup[d]
           /\ lookup' \in [Callers -> LookupType]
<1>1. lookup[c] \in LookupType
  BY DEF CatalogTypeOK
<1>2. [lookup[c] EXCEPT !.pc = IF answer = None THEN "notFound" ELSE "found", !.found = None]
         \in LookupType
  BY <1>1 DEF LookupType, Resting
<1>3. lookup' = [lookup EXCEPT ![c] =
                   [@ EXCEPT !.pc = IF answer = None THEN "notFound" ELSE "found",
                             !.found = None]]
  BY <1>1 DEF Answer, CatalogTypeOK, LookupType
<1> QED
  BY <1>1, <1>2, <1>3 DEF CatalogTypeOK, LookupType

\* What a rejection leaves of a call.
LEMMA RejectStep ==
    ASSUME CatalogTypeOK, NEW c \in Callers, Reject(c)
    PROVE  /\ lookup'[c].pc = "rejected" /\ lookup' \in [Callers -> LookupType]
           /\ \A d \in Callers : d # c => lookup'[d] = lookup[d]
           /\ UNCHANGED treeVars
<1>1. lookup[c] \in LookupType
  BY DEF CatalogTypeOK
<1>2. [lookup[c] EXCEPT !.pc = "rejected", !.found = None] \in LookupType
  BY <1>1 DEF LookupType, Resting
<1>3. lookup' = [lookup EXCEPT ![c] = [@ EXCEPT !.pc = "rejected", !.found = None]]
  BY <1>1 DEF Reject, CatalogTypeOK, LookupType
<1> QED
  BY <1>1, <1>2, <1>3 DEF Reject, CatalogTypeOK, LookupType

\* Every step keeps what the cache and the calls know true of the table.
LEMMA NextCatalogInv == CatalogInv /\ [Next]_vars => CatalogInv'
<1> SUFFICES ASSUME CatalogInv, [Next]_vars PROVE CatalogInv'
  OBVIOUS
<1>1. CatalogTypeOK /\ FoundIsCurrent /\ NotFoundMeansAbsent
  BY DEF CatalogInv
<1>2. ASSUME NEW list, Current(list) PROVE Current(list)'
  BY <1>2, DefinitionStays DEF Current, Sorted, Step
<1>3. definition # None => definition' # None
  BY DefinitionStays
<1>4. ASSUME UNCHANGED <<definition, cache, lookup>>
      PROVE  CatalogInv'
  BY <1>1, <1>4 DEF CatalogInv, CatalogTypeOK, FoundIsCurrent, NotFoundMeansAbsent, Current,
                    Sorted, Step, LookupType
<1>5. ASSUME NEW n \in Nat, NEW steps \in [1 .. n -> Step], CreateJobDefinition(steps)
      PROVE  CatalogInv'
  <2>1. UNCHANGED <<cache, lookup>> /\ (definition' = steps \/ UNCHANGED definition)
    BY <1>5 DEF CreateJobDefinition
  <2>2. CatalogTypeOK'
    BY <1>1, <1>5, <2>1 DEF CatalogTypeOK, LookupType, Step
  <2> QED
    BY <1>1, <1>2, <1>3, <2>1, <2>2 DEF CatalogInv, FoundIsCurrent, NotFoundMeansAbsent
<1>6. ASSUME NEW c \in Callers,
             UNCHANGED definition, cache' # None => Current(cache'),
             lookup' \in [Callers -> LookupType],
             \A d \in Callers : d # c => lookup'[d] = lookup[d],
             lookup'[c].pc \in {"hit", "set"} => Current(lookup'[c].found),
             lookup'[c].pc = "find" /\ ~lookup'[c].absent => definition # None,
             lookup'[c].pc = "notFound" => lookup'[c].absent
      PROVE  CatalogInv'
  <2>1. CatalogTypeOK'
    BY <1>1, <1>6 DEF CatalogTypeOK, LookupType, Step
  <2>2. \A list : Current(list) => (definition' # None /\ list \in Sorted(definition)')
    BY <1>2 DEF Current
  <2>3. FoundIsCurrent'
    BY <1>1, <1>3, <1>6, <2>2 DEF FoundIsCurrent, Current
  <2> QED
    BY <1>1, <1>6, <2>1, <2>3 DEF CatalogInv, NotFoundMeansAbsent
<1>13. ASSUME NEW c \in Callers, Reject(c),
              UNCHANGED definition, cache' # None => Current(cache')
       PROVE  CatalogInv'
  <2>1. /\ lookup'[c].pc = "rejected" /\ lookup' \in [Callers -> LookupType]
        /\ \A d \in Callers : d # c => lookup'[d] = lookup[d]
    BY <1>1, <1>13, RejectStep
  <2> QED
    BY <1>6, <1>13, <2>1
<1>7. ASSUME NEW c \in Callers, Get(c), ~Reject(c)
      PROVE  CatalogInv'
  <2>1. cache = None \/ Current(cache)
    BY <1>1 DEF FoundIsCurrent
  <2>2. cache \in Seq(StepNames) \cup {None}
    BY <1>1, <2>1, CurrentIsSeq
  <2> DEFINE call == [pc |-> IF cache = None THEN "find" ELSE "hit", found |-> cache,
                      absent |-> definition = None]
  <2>3. call \in LookupType
    <3>1. (definition = None) \in BOOLEAN
      OBVIOUS
    <3>2. (IF cache = None THEN "find" ELSE "hit") \in {"ready", "hit", "find", "set"}
      OBVIOUS
    <3> QED
      BY <2>2, <3>1, <3>2, Zenon DEF LookupType
  <2>4. lookup' = [lookup EXCEPT ![c] = call] /\ UNCHANGED <<definition, cache>>
    BY <1>7 DEF Get
  <2>5. lookup'[c] = call /\ lookup' \in [Callers -> LookupType]
        /\ \A d \in Callers : d # c => lookup'[d] = lookup[d]
    <3> HIDE DEF call
    <3> QED
      BY <1>1, <2>3, <2>4 DEF CatalogTypeOK
  <2>6. /\ lookup'[c].pc \in {"hit", "set"} => Current(lookup'[c].found)
        /\ lookup'[c].pc = "find" /\ ~lookup'[c].absent => definition # None
        /\ lookup'[c].pc # "notFound"
    <3>1. /\ call.found = cache /\ call.absent = (definition = None)
          /\ call.pc = IF cache = None THEN "find" ELSE "hit"
      OBVIOUS
    <3>2. call.absent <=> definition = None
      BY <3>1, Zenon
    <3>3. call.pc \in {"hit", "set"} => cache # None
      BY <3>1
    <3> HIDE DEF call
    <3> QED
      BY <2>1, <2>5, <3>1, <3>2, <3>3
  <2> QED
    BY <1>1, <1>6, <2>4, <2>5, <2>6 DEF FoundIsCurrent
<1>8. ASSUME NEW c \in Callers, Hit(c)
      PROVE  CatalogInv'
  <2>1. Current(lookup[c].found) /\ UNCHANGED <<definition, cache>>
    BY <1>1, <1>8 DEF Hit, FoundIsCurrent
  <2>2. lookup[c].found # None
    BY <1>1, <2>1, CurrentIsSeq
  <2>3. /\ lookup'[c].pc = "found" /\ lookup' \in [Callers -> LookupType]
        /\ \A d \in Callers : d # c => lookup'[d] = lookup[d]
    BY <1>1, <1>8, <2>2, AnswerStep DEF Hit
  <2> QED
    BY <1>1, <1>6, <2>1, <2>3 DEF FoundIsCurrent
<1>9. ASSUME NEW c \in Callers, Find(c), ~Reject(c)
      PROVE  CatalogInv'
  <2>1. lookup[c].pc = "find" /\ lookup[c] \in LookupType /\ UNCHANGED <<definition, cache>>
    BY <1>1, <1>9 DEF Find, CatalogTypeOK
  <2>2. CASE definition = None /\ Answer(c, None)
    <3>1. /\ lookup'[c].pc = "notFound" /\ lookup' \in [Callers -> LookupType]
          /\ lookup'[c].absent = lookup[c].absent
          /\ \A d \in Callers : d # c => lookup'[d] = lookup[d]
      BY <1>1, <2>2, AnswerStep
    <3>2. lookup[c].absent
      BY <1>1, <2>1, <2>2 DEF FoundIsCurrent
    <3> QED
      BY <1>1, <1>6, <2>1, <3>1, <3>2 DEF FoundIsCurrent
  <2>3. CASE ~(definition = None /\ Answer(c, None))
    <3>1. PICK list \in Sorted(definition) :
             definition # None /\ lookup' = [lookup EXCEPT ![c].pc = "set", ![c].found = list]
      BY <1>9, <2>3 DEF Find
    <3>2. Current(list) /\ list \in Seq(StepNames)
      BY <1>1, <3>1, CurrentIsSeq DEF Current
    <3>3. [lookup[c] EXCEPT !.pc = "set", !.found = list] \in LookupType
      BY <2>1, <3>2 DEF LookupType
    <3>4. lookup' = [lookup EXCEPT ![c] = [@ EXCEPT !.pc = "set", !.found = list]]
      BY <1>1, <2>1, <3>1 DEF CatalogTypeOK, LookupType
    <3>5. /\ lookup'[c].pc = "set" /\ lookup'[c].found = list
          /\ lookup' \in [Callers -> LookupType]
          /\ \A d \in Callers : d # c => lookup'[d] = lookup[d]
      BY <1>1, <2>1, <3>3, <3>4 DEF CatalogTypeOK, LookupType
    <3> QED
      BY <1>1, <1>6, <2>1, <3>2, <3>5 DEF FoundIsCurrent
  <2> QED
    BY <2>2, <2>3
<1>10. ASSUME NEW c \in Callers, Set(c), ~Reject(c)
       PROVE  CatalogInv'
  <2>1. Current(lookup[c].found) /\ UNCHANGED definition /\ cache' = lookup[c].found
    BY <1>1, <1>10 DEF Set, FoundIsCurrent
  <2>2. lookup[c].found # None
    BY <1>1, <2>1, CurrentIsSeq
  <2>3. /\ lookup'[c].pc = "found" /\ lookup' \in [Callers -> LookupType]
        /\ \A d \in Callers : d # c => lookup'[d] = lookup[d]
    BY <1>1, <1>10, <2>2, AnswerStep DEF Set
  <2> QED
    BY <1>6, <2>1, <2>3
<1>11. CASE Expire
  <2>1. cache' = None /\ UNCHANGED <<definition, lookup>>
    BY <1>11 DEF Expire
  <2> QED
    BY <1>1, <2>1 DEF CatalogInv, CatalogTypeOK, FoundIsCurrent, NotFoundMeansAbsent, Current,
                      Sorted, Step, LookupType
<1>12. CASE DeleteJobDefinition \/ Loops \/ UNCHANGED vars
  BY <1>4, <1>12 DEF DeleteJobDefinition, Loops, vars
<1>14. ASSUME NEW c \in Callers, Get(c) \/ Find(c) \/ Set(c), Reject(c)
       PROVE  CatalogInv'
  <2>1. lookup[c].pc = "set" => Current(lookup[c].found)
    BY <1>1 DEF FoundIsCurrent
  <2>2. UNCHANGED definition /\ (cache' = cache \/ (lookup[c].pc = "set" /\ cache' = lookup[c].found))
    BY <1>14 DEF Get, Find, Set
  <2>3. cache' # None => Current(cache')
    BY <1>1, <2>1, <2>2 DEF FoundIsCurrent
  <2> QED
    BY <1>13, <1>14, <2>2, <2>3
<1> QED
  BY <1>5, <1>7, <1>8, <1>9, <1>10, <1>11, <1>12, <1>14 DEF Next

\* The catalogue starts empty and so does its cache.
LEMMA CatalogInvHolds == Spec => []CatalogInv
<1>1. Init => CatalogInv
  <2> SUFFICES ASSUME Init PROVE CatalogInv
    OBVIOUS
  <2>1. lookup \in [Callers -> LookupType]
    BY DEF Init, LookupType
  <2> QED
    BY <2>1 DEF Init, CatalogInv, CatalogTypeOK, FoundIsCurrent, NotFoundMeansAbsent
<1> QED
  BY <1>1, NextCatalogInv, PTL DEF Spec

\* A call that begins after the create finds the definition, whatever expires
\* or is looked up meanwhile.
THEOREM NoneIsMissed == Spec => []NotFoundMeansAbsent
<1>1. CatalogInv => NotFoundMeansAbsent
  BY DEF CatalogInv
<1> QED
  BY <1>1, CatalogInvHolds, PTL

\* Every flow starts with the steps that are in the table at that time: no cache
\* entry is ever outdated.
THEOREM FlowsRunTheTable == Spec => RunsTheDefinition
<1> DEFINE Runs == pc = "lookup" /\ pc' # "lookup" =>
                      definition # None /\ stepList' \in Sorted(definition)
<1>1. CatalogInv /\ [Next]_vars => [Runs]_vars
  <2> SUFFICES ASSUME CatalogInv, [Next]_vars, pc = "lookup", pc' # "lookup"
               PROVE  definition # None /\ stepList' \in Sorted(definition)
    OBVIOUS
  <2>1. PICK c \in Callers : Hit(c) \/ Find(c) \/ Set(c)
    BY DEF Next, vars, treeVars, CreateJobDefinition, DeleteJobDefinition, Get, Reject, Expire,
           Loops, TreeStep, Nest, AddTree, Visit, Return
  <2>2. ~Find(c) /\ ~Reject(c)
    BY DEF Find, Reject, Answer, treeVars
  <2>3. Current(lookup[c].found) /\ Answer(c, lookup[c].found)
    BY <2>1, <2>2 DEF Hit, Set, CatalogInv, FoundIsCurrent
  <2>4. stepList' = lookup[c].found
    BY <2>3 DEF Answer, Generate, treeVars
  <2> QED
    BY <2>3, <2>4 DEF Current
<1> QED
  BY <1>1, CatalogInvHolds, PTL DEF Spec, RunsTheDefinition

-------------------------------------------------------------------------------
(* The loops *)

\* tree[m] is the tree of the first m steps: each job has the one before it as
\* its only child.
Chain(tree, m) ==
    /\ tree[0] = <<>>
    /\ \A i \in 1 .. m : tree[i] = <<Node(stepList[i], tree[i - 1])>>

\* generateJob: the last m steps popped are in the tree, the others wait.
Generating ==
    \E tree : \E m \in 0 .. Len(stepList) :
        /\ Chain(tree, m) /\ jobOption = tree[m]
        /\ stack \in Seq(StepNames) /\ Len(stack) = Len(stepList) - m
        /\ \A i \in 1 .. Len(stack) : stack[i] = stepList[Len(stepList) - i + 1]
        /\ jobNodes = <<>>

\* toFlatJobNode: the jobs listed are the last ones, from the root down, and the
\* tree of the steps in front of them is on the stack.
Flattening ==
    \E tree :
        /\ Chain(tree, Len(stepList))
        /\ jobNodes \in Seq({tree[i][1] : i \in 1 .. Len(stepList)})
        /\ Len(jobNodes) =< Len(stepList)
        /\ stack = tree[Len(stepList) - Len(jobNodes)]
        /\ \A i \in 1 .. Len(jobNodes) : jobNodes[i] = tree[Len(stepList) - i + 1][1]

TreeInv ==
    /\ stepList \in Seq(StepNames)
    /\ pc \in {"lookup", "generate", "flatten", "threw", "done"}
    /\ pc = "lookup" => jobOption = <<>> /\ jobNodes = <<>>
    /\ pc = "generate" => Generating
    /\ pc = "flatten" => Flattening
    /\ pc = "done" => Flattening /\ stack = <<>>

\* The tree of at least one step is one job.
LEMMA ChainFacts ==
    ASSUME NEW tree, NEW m \in Nat, Chain(tree, m), NEW i \in 0 .. m
    PROVE  /\ i = 0 => tree[i] = <<>>
           /\ i # 0 => /\ i - 1 \in 0 .. m
                       /\ tree[i] = <<Node(stepList[i], tree[i - 1])>>
                       /\ tree[i] # <<>> /\ Len(tree[i]) = 1
                       /\ tree[i][1] = Node(stepList[i], tree[i - 1])
<1>1. CASE i = 0
  BY <1>1 DEF Chain
<1>2. CASE i # 0
  <2>1. i \in 1 .. m /\ i - 1 \in 0 .. m
    BY <1>2
  <2>2. tree[i] = <<Node(stepList[i], tree[i - 1])>>
    BY <2>1 DEF Chain
  <2> QED
    BY <1>2, <2>1, <2>2
<1> QED
  BY <1>1, <1>2

\* The loop of generateJob begins with the steps in reverse.
LEMMA GenerateStep ==
    ASSUME NEW list \in Seq(StepNames), Generate(list), jobOption = <<>>, jobNodes = <<>>
    PROVE  TreeInv'
<1> DEFINE tree == [i \in {0} |-> <<>>]
<1>1. /\ stepList' = list /\ stack' = Reverse(list) /\ pc' = "generate"
      /\ jobOption' = <<>> /\ jobNodes' = <<>>
  BY DEF Generate
<1>2. Len(list) \in Nat /\ \A i \in 1 .. Len(list) : list[i] \in StepNames
  OBVIOUS
<1>3. /\ Reverse(list) \in [1 .. Len(list) -> StepNames]
      /\ \A i \in 1 .. Len(list) : Reverse(list)[i] = list[Len(list) - i + 1]
  BY <1>2 DEF Reverse
<1>4. Reverse(list) \in Seq(StepNames) /\ Len(Reverse(list)) = Len(list)
  BY <1>2, <1>3
<1>5. Chain(tree, 0)' /\ tree[0] = <<>>
  BY DEF Chain
<1> HIDE DEF tree
<1>6. 0 \in 0 .. Len(list) /\ Len(list) = Len(list) - 0
  BY <1>2
<1>7. Generating'
  BY <1>1, <1>3, <1>4, <1>5, <1>6 DEF Generating
<1> QED
  BY <1>1, <1>7 DEF TreeInv

\* A turn of generateJob's loop puts the tree of m steps under step m + 1.
LEMMA NestStep == ASSUME TreeInv, Nest PROVE TreeInv'
<1>1. /\ pc = "generate" /\ stack # <<>> /\ stack' = Front(stack)
      /\ jobOption' = <<Node(Last(stack), jobOption)>>
      /\ UNCHANGED <<stepList, jobNodes, pc>> /\ stepList \in Seq(StepNames)
  BY DEF Nest, TreeInv
<1>0. PICK tree : \E m \in 0 .. Len(stepList) :
         /\ Chain(tree, m) /\ jobOption = tree[m]
         /\ stack \in Seq(StepNames) /\ Len(stack) = Len(stepList) - m
         /\ \A i \in 1 .. Len(stack) : stack[i] = stepList[Len(stepList) - i + 1]
         /\ jobNodes = <<>>
  <2>1. Generating
    BY <1>1 DEF TreeInv
  <2> QED
    BY <2>1 DEF Generating
<1>2. PICK m \in 0 .. Len(stepList) :
         /\ Chain(tree, m) /\ jobOption = tree[m]
         /\ stack \in Seq(StepNames) /\ Len(stack) = Len(stepList) - m
         /\ \A i \in 1 .. Len(stack) : stack[i] = stepList[Len(stepList) - i + 1]
         /\ jobNodes = <<>>
  BY <1>0
<1>3. Len(stepList) \in Nat /\ m \in Nat /\ Len(stack) \in Nat /\ Len(stack) >= 1
  BY <1>1, <1>2
<1>4. m + 1 \in 0 .. Len(stepList) /\ Len(stack) - 1 = Len(stepList) - (m + 1)
  BY <1>2, <1>3
<1>5. Last(stack) = stepList[m + 1]
  <2>1. Len(stack) \in 1 .. Len(stack) /\ Len(stepList) - Len(stack) + 1 = m + 1
    BY <1>2, <1>3
  <2> QED
    BY <1>2, <2>1 DEF Last
<1>6. /\ Front(stack) \in Seq(StepNames) /\ Len(Front(stack)) = Len(stack) - 1
      /\ \A i \in 1 .. Len(stack) - 1 : Front(stack)[i] = stack[i]
  BY <1>2, <1>3 DEF Front
<1>7. PICK grown : grown[m + 1] = jobOption' /\ \A i \in 0 .. m : grown[i] = tree[i]
  <2> DEFINE g == [i \in 0 .. m + 1 |-> IF i = m + 1 THEN jobOption' ELSE tree[i]]
  <2>1. g[m + 1] = jobOption' /\ \A i \in 0 .. m : g[i] = tree[i]
    BY <1>3
  <2> HIDE DEF g
  <2> QED
    BY <2>1
<1>8. Chain(grown, m + 1)
  <2>1. grown[0] = <<>>
    BY <1>2, <1>3, <1>7 DEF Chain
  <2>2. ASSUME NEW i \in 1 .. m + 1
        PROVE  grown[i] = <<Node(stepList[i], grown[i - 1])>>
    <3>1. CASE i = m + 1
      <4>1. i - 1 = m /\ m \in 0 .. m
        BY <1>3, <3>1
      <4> QED
        BY <1>1, <1>2, <1>5, <1>7, <3>1, <4>1
    <3>2. CASE i # m + 1
      <4>1. i \in 1 .. m /\ i \in 0 .. m /\ i - 1 \in 0 .. m
        BY <1>3, <3>2
      <4> QED
        BY <1>2, <1>7, <4>1 DEF Chain
    <3> QED
      BY <3>1, <3>2
  <2> QED
    BY <2>1, <2>2 DEF Chain
<1>9. Generating'
  <2>1. Chain(grown, m + 1)' /\ jobOption' = grown[m + 1] /\ jobNodes' = <<>>
    BY <1>1, <1>2, <1>7, <1>8 DEF Chain
  <2>2. /\ stack' \in Seq(StepNames) /\ Len(stack') = Len(stepList') - (m + 1)
        /\ \A i \in 1 .. Len(stack') : stack'[i] = stepList'[Len(stepList') - i + 1]
    BY <1>1, <1>2, <1>3, <1>4, <1>6
  <2>3. m + 1 \in 0 .. Len(stepList')
    BY <1>1, <1>4
  <2> QED
    BY <2>1, <2>2, <2>3 DEF Generating
<1> QED
  BY <1>1, <1>9 DEF TreeInv

\* flowProducer.add is given the tree of all steps.
LEMMA AddTreeStep == ASSUME TreeInv, AddTree PROVE TreeInv'
<1>1. /\ pc = "generate" /\ stack = <<>> /\ UNCHANGED <<stepList, jobOption, jobNodes>>
      /\ stepList \in Seq(StepNames)
      /\ \/ pc' = "threw"
         \/ pc' = "flatten" /\ stack' = jobOption
  BY DEF AddTree, TreeInv
<1>0. PICK tree : \E m \in 0 .. Len(stepList) :
         /\ Chain(tree, m) /\ jobOption = tree[m] /\ Len(stack) = Len(stepList) - m
         /\ jobNodes = <<>>
  <2>1. Generating
    BY <1>1 DEF TreeInv
  <2> QED
    BY <2>1 DEF Generating
<1>2. PICK m \in 0 .. Len(stepList) :
         /\ Chain(tree, m) /\ jobOption = tree[m] /\ Len(stack) = Len(stepList) - m
         /\ jobNodes = <<>>
  BY <1>0
<1>3. Len(stepList) \in Nat /\ m = Len(stepList)
  BY <1>1, <1>2
<1>4. CASE pc' = "threw"
  BY <1>1, <1>4 DEF TreeInv
<1>5. CASE pc' = "flatten" /\ stack' = jobOption
  <2>1. Chain(tree, Len(stepList))'
    BY <1>1, <1>2, <1>3 DEF Chain
  <2>2. /\ jobNodes' = <<>> /\ Len(jobNodes') = 0 /\ stack' = tree[Len(stepList') - Len(jobNodes')]
        /\ Len(jobNodes') =< Len(stepList')
    BY <1>1, <1>2, <1>3, <1>5
  <2>3. Flattening'
    BY <2>1, <2>2 DEF Flattening
  <2> QED
    BY <1>1, <1>5, <2>3 DEF TreeInv
<1> QED
  BY <1>1, <1>4, <1>5

\* A turn of toFlatJobNode's loop lists the root of what is on the stack and
\* leaves its only child there.
LEMMA VisitStep == ASSUME TreeInv, Visit PROVE TreeInv'
<1>1. /\ pc = "flatten" /\ stack # <<>> /\ jobNodes' = Append(jobNodes, Last(stack))
      /\ stack' = Front(stack) \o Last(stack).children
      /\ UNCHANGED <<stepList, jobOption, pc>> /\ stepList \in Seq(StepNames)
  BY DEF Visit, TreeInv
<1> DEFINE n == Len(stepList)
           r == n - Len(jobNodes)
<1>2. PICK tree :
         /\ Chain(tree, n)
         /\ jobNodes \in Seq({tree[i][1] : i \in 1 .. n})
         /\ Len(jobNodes) =< n /\ stack = tree[r]
         /\ \A i \in 1 .. Len(jobNodes) : jobNodes[i] = tree[n - i + 1][1]
  BY <1>1 DEF TreeInv, Flattening
<1>3. n \in Nat /\ Len(jobNodes) \in Nat /\ r \in 0 .. n
  BY <1>1, <1>2
<1> DEFINE T == {tree[i][1] : i \in 1 .. n}
           job == tree[r][1]
<1> HIDE DEF n
<1>4. /\ r # 0 /\ r \in 1 .. n /\ r - 1 \in 0 .. n
      /\ stack = <<job>> /\ Len(stack) = 1 /\ job.children = tree[r - 1]
  <2>1. r # 0
    BY <1>1, <1>2, <1>3, ChainFacts
  <2>2. /\ tree[r] = <<Node(stepList[r], tree[r - 1])>> /\ Len(tree[r]) = 1
        /\ job = Node(stepList[r], tree[r - 1]) /\ r - 1 \in 0 .. n
    BY <1>2, <1>3, <2>1, ChainFacts
  <2> QED
    BY <1>2, <1>3, <2>1, <2>2 DEF Node
<1>5. Last(stack) = job
  BY <1>4 DEF Last
<1>6. Front(stack) = <<>>
  BY <1>4 DEF Front
<1>7. stack' = tree[r - 1]
  <2>1. tree[r - 1] = <<>> \/ \E x : tree[r - 1] = <<x>>
    BY <1>2, <1>3, <1>4, ChainFacts
  <2>2. <<>> \o tree[r - 1] = tree[r - 1]
    <3>1. ASSUME NEW x PROVE <<>> \o <<x>> = <<x>>
      <4>1. <<x>> \in Seq({x})
        OBVIOUS
      <4> QED
        BY <4>1, ConcatEmptySeq
    <3> QED
      BY <2>1, <3>1
  <2> QED
    BY <1>1, <1>4, <1>5, <1>6, <2>2
<1>8. job \in T /\ jobNodes \in Seq(T)
  BY <1>2, <1>4
<1> HIDE DEF T, job
<1>9. /\ jobNodes' \in Seq(T) /\ Len(jobNodes') = Len(jobNodes) + 1
      /\ \A i \in 1 .. Len(jobNodes) : jobNodes'[i] = jobNodes[i]
      /\ jobNodes'[Len(jobNodes) + 1] = job
  BY <1>1, <1>5, <1>8, AppendProperties
<1>10. Flattening'
  <2>1. Chain(tree, n)' /\ n' = n
    BY <1>1, <1>2 DEF Chain, n
  <2>2. Len(jobNodes') =< n /\ n - Len(jobNodes') = r - 1
    BY <1>3, <1>4, <1>9
  <2>3. ASSUME NEW i \in 1 .. Len(jobNodes')
        PROVE  jobNodes'[i] = tree[n - i + 1][1]
    <3>1. i \in 1 .. Len(jobNodes) \/ i = Len(jobNodes) + 1
      BY <1>3, <1>9
    <3>2. CASE i = Len(jobNodes) + 1
      <4>1. n - i + 1 = r
        BY <1>3, <3>2
      <4> QED
        BY <1>9, <3>2, <4>1 DEF job
    <3> QED
      BY <1>2, <1>9, <3>1, <3>2
  <2> HIDE DEF r
  <2> QED
    BY <1>7, <1>9, <2>1, <2>2, <2>3 DEF Flattening, n, T
<1> QED
  BY <1>1, <1>10 DEF TreeInv

\* The loops of the flow that is followed begin when its lookup is answered.
LookupComesFirst ==
    lookup[Flow].pc \in {"hit", "find", "set"} => pc = "lookup"

\* The lookup of a flow is over when its loops begin, and is not repeated.
LEMMA NextLookupComesFirst ==
    CatalogInv /\ LookupComesFirst /\ [Next]_vars => LookupComesFirst'
<1> SUFFICES ASSUME CatalogInv, LookupComesFirst, [Next]_vars PROVE LookupComesFirst'
  OBVIOUS
<1>1. Flow \in Callers /\ CatalogTypeOK
  BY CatalogAssumption DEF CatalogInv
<1>2. ASSUME NEW c \in Callers, NEW answer, Answer(c, answer)
      PROVE  LookupComesFirst'
  <2>1. CASE c = Flow
    BY <1>1, <1>2, <2>1, AnswerStep DEF LookupComesFirst
  <2>2. CASE c # Flow
    <3>1. lookup'[Flow] = lookup[Flow]
      BY <1>1, <1>2, <2>2, AnswerStep
    <3>2. UNCHANGED pc
      BY <1>2, <2>2 DEF Answer, treeVars
    <3> QED
      BY <3>1, <3>2 DEF LookupComesFirst
  <2> QED
    BY <2>1, <2>2
<1>7. ASSUME NEW c \in Callers, Reject(c)
      PROVE  LookupComesFirst'
  BY <1>1, <1>7, RejectStep DEF LookupComesFirst, treeVars
<1>3. ASSUME NEW c \in Callers, Get(c), ~Reject(c)
      PROVE  LookupComesFirst'
  BY <1>1, <1>3 DEF Get, LookupComesFirst, treeVars, CatalogTypeOK
<1>4. ASSUME NEW c \in Callers, Find(c), ~Answer(c, None), ~Reject(c)
      PROVE  LookupComesFirst'
  BY <1>1, <1>4 DEF Find, LookupComesFirst, treeVars, CatalogTypeOK, LookupType
<1>5. CASE Loops
  BY <1>5 DEF Loops, TreeStep, Nest, AddTree, Visit, Return, LookupComesFirst
<1>6. CASE UNCHANGED <<treeVars, lookup>>
  BY <1>6 DEF treeVars, LookupComesFirst
<1> QED
  BY <1>2, <1>3, <1>4, <1>5, <1>6, <1>7
  DEF Next, vars, CreateJobDefinition, DeleteJobDefinition, Hit, Find, Set, Expire

\* The loops and the lookups around them keep the invariant of the tree.
LEMMA NextTreeInv ==
    CatalogInv /\ LookupComesFirst /\ TreeInv /\ [Next]_vars => TreeInv'
<1> SUFFICES ASSUME CatalogInv, LookupComesFirst, TreeInv, [Next]_vars PROVE TreeInv'
  OBVIOUS
<1>1. ASSUME UNCHANGED treeVars PROVE TreeInv'
  BY <1>1 DEF TreeInv, treeVars, Generating, Flattening, Chain
<1>2. ASSUME NEW c \in Callers, Get(c) \/ Hit(c) \/ Find(c) \/ Set(c), ~UNCHANGED treeVars
      PROVE  TreeInv'
  <2>1. PICK list : Current(list) /\ Generate(list) /\ c = Flow /\ lookup[c].pc \in {"hit", "set"}
    BY <1>2 DEF Get, Hit, Find, Set, Reject, Answer, CatalogInv, FoundIsCurrent
  <2>2. list \in Seq(StepNames)
    BY <2>1, CurrentIsSeq DEF CatalogInv
  <2>3. jobOption = <<>> /\ jobNodes = <<>>
    BY <2>1 DEF LookupComesFirst, TreeInv
  <2> QED
    BY <2>1, <2>2, <2>3, GenerateStep
<1>3. CASE Loops
  <2>1. CASE Return
    <3>1. TreeInv /\ pc' = "done" /\ pc = "flatten" /\ stack = <<>>
      BY <2>1 DEF Return
    <3>2. UNCHANGED <<stepList, stack, jobOption, jobNodes>>
      BY <2>1 DEF Return
    <3> QED
      BY <3>1, <3>2 DEF TreeInv, Flattening, Chain
  <2> QED
    BY <1>3, <2>1, NestStep, AddTreeStep, VisitStep DEF Loops, TreeStep
<1> QED
  BY <1>1, <1>2, <1>3 DEF Next, vars, CreateJobDefinition, DeleteJobDefinition, Expire

\* Every tree and list the loops build is a chain of the steps of the table.
LEMMA TreeInvHolds == Spec => []TreeInv
<1>1. Init => LookupComesFirst /\ TreeInv
  <2> SUFFICES ASSUME Init PROVE LookupComesFirst /\ TreeInv
    OBVIOUS
  <2>1. lookup[Flow].pc = "ready"
    BY CatalogAssumption DEF Init
  <2> QED
    BY <2>1 DEF Init, TreeInit, TreeInv, LookupComesFirst
<1> QED
  BY <1>1, CatalogInvHolds, NextLookupComesFirst, NextTreeInv, PTL DEF Spec

\* When the loops are over, all jobs are listed, the last step first.
LEMMA AllListed ==
    ASSUME TreeInv, pc = "done"
    PROVE  /\ Len(stepList) \in Nat /\ Len(jobNodes) = Len(stepList)
           /\ DOMAIN jobNodes = 1 .. Len(stepList)
           /\ \E tree : /\ Chain(tree, Len(stepList))
                        /\ \A i \in 1 .. Len(stepList) :
                              jobNodes[i] = tree[Len(stepList) - i + 1][1]
<1> DEFINE n == Len(stepList)
<1>1. Flattening /\ stack = <<>> /\ stepList \in Seq(StepNames)
  BY DEF TreeInv
<1>2. PICK tree :
         /\ Chain(tree, n)
         /\ jobNodes \in Seq({tree[i][1] : i \in 1 .. n})
         /\ Len(jobNodes) =< n /\ stack = tree[n - Len(jobNodes)]
         /\ \A i \in 1 .. Len(jobNodes) : jobNodes[i] = tree[n - i + 1][1]
  BY <1>1 DEF Flattening
<1>3. n \in Nat /\ Len(jobNodes) \in Nat /\ DOMAIN jobNodes = 1 .. Len(jobNodes)
  BY <1>1, <1>2
<1>4. Len(jobNodes) = n
  <2> HIDE DEF n
  <2>1. n - Len(jobNodes) \in 0 .. n
    BY <1>2, <1>3
  <2>2. n - Len(jobNodes) = 0
    <3> DEFINE left == n - Len(jobNodes)
    <3>1. Chain(tree, n) /\ n \in Nat /\ left \in 0 .. n /\ tree[left] = <<>>
      BY <1>1, <1>2, <1>3, <2>1
    <3> HIDE DEF left
    <3>2. left = 0
      BY <3>1, ChainFacts
    <3> QED
      BY <3>2 DEF left
  <2>3. n \in Nat /\ Len(jobNodes) \in Nat
    BY <1>3
  <2> QED
    BY <2>2, <2>3
<1> QED
  BY <1>2, <1>3, <1>4

\* generateJob and toFlatJobNode: whatever the length of the definition, each job
\* has the step before it as its only child, down to the first step.
THEOREM TreesAreChains == Spec => []TreeIsChainOfSteps
<1>1. ASSUME TreeInv PROVE TreeIsChainOfSteps
  <2> DEFINE n == Len(stepList)
  <2> SUFFICES ASSUME pc = "done", NEW i \in DOMAIN jobNodes
               PROVE  /\ jobNodes[i].name = stepList[n - i + 1]
                      /\ jobNodes[i].children =
                            IF i = n THEN <<>> ELSE <<jobNodes[i + 1]>>
    BY DEF TreeIsChainOfSteps
  <2>1. PICK tree :
           /\ Chain(tree, n) /\ n \in Nat /\ i \in 1 .. n
           /\ \A k \in 1 .. n : jobNodes[k] = tree[n - k + 1][1]
    BY <1>1, AllListed
  <2> HIDE DEF n
  <2>2. n - i + 1 \in 0 .. n /\ n - i + 1 # 0 /\ (n - i + 1) - 1 = n - i /\ n - i \in 0 .. n
    BY <2>1
  <2>3. jobNodes[i] = Node(stepList[n - i + 1], tree[n - i])
    BY <2>1, <2>2, ChainFacts
  <2>4. tree[n - i] = IF i = n THEN <<>> ELSE <<jobNodes[i + 1]>>
    <3>1. CASE i = n
      <4>1. n - i = 0
        BY <2>1, <3>1
      <4> QED
        BY <2>1, <2>2, <3>1, <4>1, ChainFacts
    <3>2. CASE i # n
      <4>1. n - i # 0 /\ i + 1 \in 1 .. n /\ n - (i + 1) + 1 = n - i
        BY <2>1, <3>2
      <4>2. /\ tree[n - i] = <<Node(stepList[n - i], tree[n - i - 1])>>
            /\ tree[n - i][1] = Node(stepList[n - i], tree[n - i - 1])
        BY <2>1, <2>2, <4>1, ChainFacts
      <4>3. jobNodes[i + 1] = tree[n - i][1]
        BY <2>1, <4>1
      <4> QED
        BY <3>2, <4>2, <4>3
    <3> QED
      BY <3>1, <3>2
  <2> QED
    BY <2>3, <2>4 DEF Node
<1> QED
  BY <1>1, TreeInvHolds, PTL

\* orchestrate waits for every step of the definition, the last one first.
THEOREM AllStepsAreAwaited == Spec => []WaitsForEveryStep
<1>1. ASSUME TreeInv PROVE WaitsForEveryStep
  <2> SUFFICES ASSUME pc = "done"
               PROVE  [i \in DOMAIN jobNodes |-> jobNodes[i].name] = Reverse(stepList)
    BY DEF WaitsForEveryStep
  <2>1. Len(stepList) \in Nat /\ DOMAIN jobNodes = 1 .. Len(stepList)
    BY <1>1, AllListed
  <2>2. ASSUME NEW i \in 1 .. Len(stepList)
        PROVE  jobNodes[i].name = stepList[(Len(stepList) - i) + 1]
    <3>1. PICK tree :
             /\ Chain(tree, Len(stepList))
             /\ jobNodes[i] = tree[Len(stepList) - i + 1][1]
      BY <1>1, AllListed
    <3>2. Len(stepList) - i + 1 \in 0 .. Len(stepList) /\ Len(stepList) - i + 1 # 0
      BY <2>1
    <3>3. jobNodes[i] = Node(stepList[Len(stepList) - i + 1], tree[Len(stepList) - i + 1 - 1])
      BY <2>1, <3>1, <3>2, ChainFacts
    <3> QED
      BY <3>3 DEF Node
  <2> QED
    BY <2>1, <2>2 DEF Reverse
<1> QED
  BY <1>1, TreeInvHolds, PTL
===============================================================================
