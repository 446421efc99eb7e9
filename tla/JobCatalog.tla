------------------------------ MODULE JobCatalog ------------------------------
(***************************************************************************)
(* The job catalogue and its reader: requests create and delete the        *)
(* definition of one name, orchestrate calls look it up through a cache,   *)
(* and one of the calls goes on to the loops of JobTree.                   *)
(***************************************************************************)
EXTENDS JobTree

CONSTANTS
    StepNames, Orders,  \* what a step of a request may say
    MaxSteps,           \* bound on the steps of a definition
    Callers,            \* orchestrate calls
    Flow,               \* the one whose flow is followed
    None                \* no definition

ASSUME CatalogAssumption ==
    /\ MaxSteps \in Nat /\ Orders \subseteq Nat /\ Flow \in Callers
    /\ None \notin Seq(StepNames) \cup Seq([name : StepNames, order : Orders])

VARIABLES
    definition, \* the row of JOB_DEFINITION with its steps as they were created
    cache,      \* the entry of the definition: its steps in order
    lookup,     \* lookup[c]: the call of getJobDefinition by c
    refused     \* the operations that were answered with an error so far

vars == <<treeVars, definition, cache, lookup, refused>>

Resting == {"found", "notFound", "rejected"}

Init ==
    /\ TreeInit
    /\ definition = None /\ cache = None
    /\ lookup = [c \in Callers |-> [pc |-> "ready", found |-> None, absent |-> FALSE]]
    /\ refused = {}

\* order is not unique in a definition, nor is name.
Step == [name : StepNames, order : Orders]

\* What ORDER BY order may answer: steps of the same order come in any order.
Sorted(steps) ==
    {[i \in DOMAIN steps |-> steps[at[i]].name] :
        at \in {f \in Bijection(DOMAIN steps, DOMAIN steps) :
                  \A i, j \in DOMAIN steps :
                      i < j => steps[f[i]].order =< steps[f[j]].order}}

-------------------------------------------------------------------------------
(* The catalogue *)

\* Mutant of CreateJobDefinition: a name that is taken is replaced.
CreateOrReplace(steps) ==
    /\ definition' = steps
    /\ UNCHANGED <<treeVars, cache, lookup, refused>>

\* The row and its steps are one nested create; the name is unique.  stepList may
\* be empty, its members are not validated.
CreateJobDefinition(steps) ==
    /\ IF definition = None
       THEN definition' = steps /\ UNCHANGED refused
       ELSE refused' = refused \cup {"create"} /\ UNCHANGED definition
    /\ UNCHANGED <<treeVars, cache, lookup>>

\* The number of the path reaches Prisma as a string: no delete is carried out.
DeleteJobDefinition ==
    /\ refused' = refused \cup {"delete"}
    /\ UNCHANGED <<treeVars, definition, cache, lookup>>

-------------------------------------------------------------------------------
(* getJobDefinition *)

Answer(c, answer) ==
    /\ lookup' = [lookup EXCEPT ![c].pc = IF answer = None THEN "notFound" ELSE "found",
                                ![c].found = None]
    /\ IF c = Flow /\ answer # None THEN Generate(answer) ELSE UNCHANGED treeVars

\* An await rejects, and with it the call; nothing is started.
Reject(c) ==
    /\ lookup' = [lookup EXCEPT ![c].pc = "rejected", ![c].found = None]
    /\ UNCHANGED treeVars

\* The call begins and asks the cache.
Get(c) ==
    /\ lookup[c].pc \in {"ready"} \cup Resting
    /\ c = Flow => pc = "lookup"
    /\ \/ /\ lookup' = [lookup EXCEPT ![c] =
                          [pc |-> IF cache = None THEN "find" ELSE "hit",
                           found |-> cache, absent |-> definition = None]]
          /\ UNCHANGED treeVars
       \/ Reject(c)
    /\ UNCHANGED <<definition, cache, refused>>

\* Mutant of Hit: has, and then get.
HitAgain(c) ==
    /\ lookup[c].pc = "hit"
    /\ Answer(c, cache)
    /\ UNCHANGED <<definition, cache, refused>>

Hit(c) ==
    /\ lookup[c].pc = "hit"
    /\ Answer(c, lookup[c].found)
    /\ UNCHANGED <<definition, cache, refused>>

Find(c) ==
    /\ lookup[c].pc = "find"
    /\ \/ definition = None /\ Answer(c, None)
       \/ /\ definition # None
          /\ \E list \in Sorted(definition) :
               lookup' = [lookup EXCEPT ![c].pc = "set", ![c].found = list]
          /\ UNCHANGED treeVars
       \/ Reject(c)
    /\ UNCHANGED <<definition, cache, refused>>

\* A set that rejects may have been carried out.
Set(c) ==
    /\ lookup[c].pc = "set"
    /\ \/ cache' = lookup[c].found /\ Answer(c, lookup[c].found)
       \/ cache' \in {cache, lookup[c].found} /\ Reject(c)
    /\ UNCHANGED <<definition, refused>>

\* The ttl of the entry is over.
Expire ==
    /\ cache # None
    /\ cache' = None
    /\ UNCHANGED <<treeVars, definition, lookup, refused>>

Loops == TreeStep /\ UNCHANGED <<definition, cache, lookup, refused>>

Next ==
    \/ \E n \in 0 .. MaxSteps : \E steps \in [1 .. n -> Step] : CreateJobDefinition(steps)
    \/ DeleteJobDefinition
    \/ \E c \in Callers : Get(c) \/ Hit(c) \/ Find(c) \/ Set(c)
    \/ Expire
    \/ Loops

Spec == Init /\ [][Next]_vars

-------------------------------------------------------------------------------
(* Properties *)

\* A flow starts with exactly the steps of the definition that is in the table
\* at that time, in the order of their numbers, whether they come from the table
\* or from a cache entry of whatever age: what is cached is never outdated.
RunsTheDefinition ==
    [][pc = "lookup" /\ pc' # "lookup" =>
         definition # None /\ stepList' \in Sorted(definition)]_vars

\* A call that begins after a definition was created finds it, whatever expires
\* meanwhile and whatever another lookup has found before.
NotFoundMeansAbsent ==
    \A c \in Callers : lookup[c].pc = "notFound" => lookup[c].absent
===============================================================================
