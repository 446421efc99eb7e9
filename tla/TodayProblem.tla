----------------------------- MODULE TodayProblem -----------------------------
(***************************************************************************)
(* The batch of today's problems: a firing plans the days to come that     *)
(* have no problems yet, and the flow of each planned day draws problems   *)
(* that are not served around it and stores them in TODAY_PROBLEM.  A plan *)
(* names a day by its distance from today, and its flow counts the         *)
(* distance from the day it runs on.                                       *)
(***************************************************************************)
EXTENDS Integers, FiniteSets

CONSTANTS
    Problems,   \* the rows of PROBLEM_V2 with enough answers
    Level,      \* their levels
    TypeList,   \* the types of each, by name
    Handler,    \* Handler[name]: the normalized types a name stands for
    Horizon,    \* 7, the last distance of a plan
    MaxDays,    \* todayProblemConfig.maxDays
    PairIndex,  \* 3, the group that gives two problems
    Firings,    \* firings and requests whose flows may be under way together
    Requests,   \* those that may come from a request
    Asked,      \* distances requests ask for, before today or beyond the plan too
    Workers,    \* processes, with one worker slot each
    LastDay,    \* bound on the days that pass
    MaxFaults   \* bound on the rejections and crashes of a behaviour

ASSUME TodayAssumption ==
    /\ Level \in [Problems -> Nat]
    /\ Requests \subseteq Firings /\ Asked \subseteq Int
    /\ Horizon \in Nat /\ MaxDays \in Nat /\ PairIndex \in Nat
    /\ Workers \in Nat /\ LastDay \in Nat /\ MaxFaults \in Nat

VARIABLES
    today,      \* the date, counted from the first day
    served,     \* served[d]: the problems of day d in TODAY_PROBLEM
    flows,      \* the flows under way
    stale,      \* history: flows that read before another one stored
    repeated,   \* history: problems that a stale flow drew again
    contested,  \* history: days that more than one draw may fill, as long as one may
    faults      \* rejections and crashes so far

vars == <<today, served, flows, stale, repeated, contested, faults>>

\* Mutant of DateSeries: one day too few.
DateSeriesTooShort == 0 .. Horizon - 1

\* The recursive part adds a day as long as day_index < 7.
DateSeries == 0 .. Horizon

\* What a flow may be for: a day of a plan, or whatever a request names.
Distances == DateSeries \cup Asked

Days == {d + i : d \in 0 .. LastDay, i \in Distances}

\* "waiting" for a worker, "draw" after the read of the previous problems,
\* "stored" until the SUCCESS row.
FlowType == [firing : Firings, distance : Distances, again : BOOLEAN,
             pc : {"waiting", "draw", "stored"}, previous : SUBSET Problems]

TypeOK ==
    /\ today \in 0 .. LastDay
    /\ served \in [Days -> SUBSET Problems]
    /\ flows \subseteq FlowType /\ stale \subseteq flows
    /\ repeated \subseteq Problems /\ contested \subseteq Days
    /\ faults \in Nat

Init ==
    /\ today = 0
    /\ served = [d \in Days |-> {}]
    /\ flows = {} /\ stale = {}
    /\ repeated = {} /\ contested = {}
    /\ faults = 0

Fault == faults < MaxFaults /\ faults' = faults + 1

Day(f) == today + f.distance

Pending == {f \in flows : f.pc # "stored"}

Midnight ==
    /\ today < LastDay
    /\ today' = today + 1
    /\ contested' = {Day(f) + 1 : f \in Pending}
    /\ UNCHANGED <<served, flows, stale, repeated, faults>>

-------------------------------------------------------------------------------
(* The plan *)

\* Mutant of EmptyDays: the days that have problems too.
AllDays == DateSeries

\* The left join with TODAY_PROBLEM.
EmptyDays == {i \in DateSeries : served[today + i] = {}}

\* Mutant of Waiting: the days are counted from one.
WaitingFromOne(t, i) == [firing |-> t, distance |-> i + 1, again |-> FALSE,
                         pc |-> "waiting", previous |-> {}]

Waiting(t, i) == [firing |-> t, distance |-> i, again |-> FALSE,
                  pc |-> "waiting", previous |-> {}]

\* A firing plans every empty day; a fault leaves flows of the plan unstarted.
Plan(t) ==
    /\ \A f \in flows : f.firing # t
    /\ \E started \in SUBSET EmptyDays :
         /\ \/ started = EmptyDays /\ UNCHANGED faults
            \/ Fault
         /\ flows' = flows \cup {Waiting(t, i) : i \in started}
         /\ contested' = contested \cup
              ({today + i : i \in started} \cap {Day(f) : f \in Pending})
    /\ UNCHANGED <<today, served, stale, repeated>>

\* GET orchestrator/test: the flow of any day, whatever the day has.
Request(t, i) ==
    /\ t \in Requests
    /\ \A f \in flows : f.firing # t
    /\ flows' = flows \cup {Waiting(t, i)}
    /\ contested' = IF served[today + i] = {} /\ today + i \notin {Day(f) : f \in Pending}
                    THEN contested ELSE contested \cup {today + i}
    /\ UNCHANGED <<today, served, stale, repeated, faults>>

-------------------------------------------------------------------------------
(* The draw *)

Types == [p \in Problems |->
    UNION {Handler[name] : name \in TypeList[p] \cap DOMAIN Handler}]

Group == [p \in Problems |-> Level[p] \div 3]

\* groupByLevel lists the groups that exist, in the order of their levels.
Groups(problems) == {Group[p] : p \in problems}

Index(g, problems) == Cardinality({h \in Groups(problems) : h < g})

\* normalize drops a problem without a type that Handler knows.
Normalized(problems, g) == {p \in problems : Group[p] = g /\ Types[p] # {}}

Partners(problems, g, p) ==
    {q \in Normalized(problems, g) \ {p} : Types[q] \cap Types[p] = {}}

\* What generateTodayProblem may draw of group g.  The weights and Math.random
\* decide among all of them as long as a group has no more than ten.
Draws(problems, g) ==
    IF Index(g, problems) = PairIndex
    THEN UNION {{{p, q} : q \in Partners(problems, g, p)} :
                p \in Normalized(problems, g)}
    ELSE {{p} : p \in Normalized(problems, g)}

\* A draw from nothing has an undefined uuid.
MayDrawNothing == [problems \in SUBSET Problems |->
    \E g \in Groups(problems) :
        \/ Normalized(problems, g) = {}
        \/ /\ Index(g, problems) = PairIndex
           /\ \E p \in Normalized(problems, g) : Partners(problems, g, p) = {}]

TodayProblems == [problems \in SUBSET Problems |->
    {drawn \in SUBSET problems :
        \A g \in Groups(problems) : {p \in drawn : Group[p] = g} \in Draws(problems, g)}]

-------------------------------------------------------------------------------
(* The flow of a planned day *)

Free == Cardinality({f \in flows : f.pc # "waiting"}) < Workers

Replace(f, g) ==
    /\ flows' = (flows \ {f}) \cup {g}
    /\ stale' = stale \ {f}

\* f will not draw any more: only the days of the others stay contested.
Leave(f) == contested' = contested \cap {Day(g) : g \in Pending \ {f}}

End(f) ==
    /\ flows' = flows \ {f} /\ stale' = stale \ {f}
    /\ Leave(f)

Reject(f) == End(f) /\ Fault

\* Mutant of PreviousProblems: gt for gte.
PreviousAfter(i) ==
    UNION {served[d] : d \in {e \in Days : e > today - MaxDays + i}}

\* No upper end: what is served later counts as well.
PreviousProblems(i) ==
    UNION {served[d] : d \in {e \in Days : e >= today - MaxDays + i}}

GetPreviousProblems(f) ==
    /\ f \in flows /\ f.pc = "waiting" /\ Free
    /\ \/ /\ Replace(f, [f EXCEPT !.pc = "draw",
                                  !.previous = PreviousProblems(f.distance)])
          /\ UNCHANGED <<contested, faults>>
       \/ Reject(f)
    /\ UNCHANGED <<today, served, repeated>>

\* createMany is one statement.
Store(f, drawn) ==
    /\ served' = [served EXCEPT ![Day(f)] = @ \cup drawn]
    /\ repeated' = IF f \in stale
                   THEN repeated \cup (drawn \cap UNION {served[d] : d \in Days})
                   ELSE repeated

Overtaken(f) == {g \in flows \ {f} : g.pc = "draw"}

InsertTodayProblems(f) ==
    LET targets == Problems \ f.previous
    IN  /\ f \in flows /\ f.pc = "draw"
        /\ \/ \E drawn \in TodayProblems[targets] :
                /\ Store(f, drawn)
                /\ \/ /\ flows' = (flows \ {f}) \cup {[f EXCEPT !.pc = "stored", !.previous = {}]}
                      /\ UNCHANGED faults
                   \/ flows' = flows \ {f} /\ Fault
                /\ stale' = (stale \cup Overtaken(f)) \ {f}
                /\ Leave(f)
           \/ /\ MayDrawNothing[targets] /\ End(f)
              /\ UNCHANGED <<served, repeated, faults>>
           \/ Reject(f) /\ UNCHANGED <<served, repeated>>
        /\ UNCHANGED today

EndStep(f) ==
    /\ f \in flows /\ f.pc = "stored"
    /\ End(f)
    /\ UNCHANGED <<today, served, repeated, faults>>

Step(f) == GetPreviousProblems(f) \/ InsertTodayProblems(f) \/ EndStep(f)

\* The process that runs f dies.  BullMQ delivers the step once more, with the
\* same distance; another crash fails it.
Crash(f) ==
    /\ f \in flows /\ (f.pc # "waiting" \/ Free) /\ Fault
    /\ \/ f.again /\ End(f)
       \/ /\ ~f.again
          /\ Replace(f, [f EXCEPT !.pc = "waiting", !.previous = {}, !.again = TRUE])
          /\ contested' = IF f.pc = "stored" THEN contested \cup {Day(f)} ELSE contested
    /\ UNCHANGED <<today, served, repeated>>

Next ==
    \/ Midnight
    \/ \E t \in Firings : Plan(t) \/ \E i \in Asked : Request(t, i)
    \/ \E f \in flows : Step(f) \/ Crash(f)

Spec == Init /\ [][Next]_vars

StepOf(t) == \E f \in flows : f.firing = t /\ Step(f)

\* The cron job keeps firing, the workers keep working and BullMQ takes waiting
\* jobs in turn.
FairSpec ==
    /\ Spec
    /\ \A t \in Firings : WF_vars(Plan(t)) /\ SF_vars(StepOf(t))

-------------------------------------------------------------------------------
(* Properties *)

\* However days are drawn in any order, late, or twice after a crash, no problem
\* is served on two days that are at most MaxDays apart, unless two flows drew
\* at the same time, from the same previous problems.
NoRepeats ==
    \A d, e \in Days :
        d < e /\ e - d =< MaxDays => served[d] \cap served[e] \subseteq repeated

\* A day that has problems gets more only if two flows were under way for it or
\* it was requested once more, midnight came between a plan and its flow, or a
\* flow was delivered again after it had stored its problems.
FilledOnce ==
    [][\A d \in Days :
         served[d] # {} /\ served'[d] # served[d] => d \in contested]_vars

Drawable(d) ==
    LET targets == Problems \ UNION {served[e] : e \in {x \in Days : x >= d - MaxDays}}
    IN  targets # {} /\ ~MayDrawNothing[targets]

\* No day of the days to come stays empty for ever while there are problems to
\* draw for it.
NoDayStaysEmpty ==
    \A d \in 0 .. LastDay + Horizon :
        []<>(d \in today .. today + Horizon /\ Drawable(d) => served[d] # {})
=============================================================================
