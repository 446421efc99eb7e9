-------------------------- MODULE ProblemCollection --------------------------
(***************************************************************************)
(* The problem batch: firings plan missing problems (ProblemPlan), each    *)
(* planned problem is a flow of the steps collect, process and load, and   *)
(* load writes PROBLEM_V2 and its children.  A request starts such a flow  *)
(* for any one problem.  The engine is abstract: the steps of a flow run   *)
(* in order, a step that throws ends its flow, and one whose process died  *)
(* is delivered once more.                                                 *)
(*                                                                         *)
(* @PrismaTransaction marks run of the load job, but PrismaService looks   *)
(* the mark up under another key, so its calls are separate transactions:  *)
(* the model has a step for each.                                          *)
(***************************************************************************)
EXTENDS ProblemPlan

CONSTANTS
    Firings,    \* firings whose flows may be under way together
    Requests,   \* those of them whose place a request may take
    Asked,      \* problems a request may be for (bound)
    Loaded,     \* problems that may have been loaded before (bound)
    Workers,    \* processes, with one worker slot each
    Foreign,    \* source ids of the rows other programs wrote, as a sequence
    Poison,     \* problems whose collection always fails
    MaxCopies,  \* bound on the copies of a child that are told apart
    MaxFaults   \* bound on the rejections and crashes of a behaviour

ASSUME CollectionAssumption ==
    /\ Workers \in Nat /\ MaxCopies \in Nat \ {0} /\ MaxFaults \in Nat
    /\ Foreign \in Seq(Nat) /\ Poison \subseteq Numbers
    /\ Requests \subseteq Firings /\ Asked \subseteq Numbers
    /\ Loaded \subseteq Numbers

VARIABLES
    firings,     \* firings[t].seen: the table firing t read
    plans,       \* plans[t]: the problems firing t planned last, or was asked for
    flows,       \* flows[f]: the step flow f waits for or is in, or how it ended
    rows,        \* BOJ problems in PROBLEM_V2
    children,    \* children[n]: copies of each kind of child of problem n
    hurt,        \* history: problems a load left without having finished it
    overlapped,  \* history: problems that two loads were rewriting together
    faults       \* rejections and crashes so far

vars == <<firings, plans, flows, rows, children, hurt, overlapped, faults>>

Flows == Firings \X (1 .. TargetCount)

\* "collect", "process" and "load" wait for a worker; the next four are the
\* awaits of load after its findUnique, "loaded" the SUCCESS row to come.
Inside == {"types", "samples", "subtasks", "upsert", "loaded"}

Ended == {"ended"}

\* whole: the input of the step is what the step before it returned, and not
\* the request (what getNextData finds after a crash, see Engine).
FlowType == [pc : {"collect", "process", "load"} \cup Inside \cup Ended,
             whole : BOOLEAN, again : BOOLEAN]

\* What a problem has none of is not told apart from what it has.
Kinds == {"types", "samples", "subtasks", "limits"}

TypeOK ==
    /\ firings \in [Firings -> [pc : {"idle", "planned"}, seen : SUBSET Numbers]]
    /\ plans \in [Firings -> Seq(Numbers)]
    /\ flows \in [Flows -> FlowType]
    /\ rows \subseteq Numbers
    /\ children \in [Numbers -> [Kinds -> 0 .. MaxCopies]]
    /\ hurt \subseteq Numbers /\ overlapped \subseteq Numbers
    /\ faults \in Nat

Waiting(step) == [pc |-> step, whole |-> TRUE, again |-> FALSE]

\* Any of them may have been loaded before.
Init ==
    /\ firings = [t \in Firings |-> [pc |-> "idle", seen |-> {}]]
    /\ plans = [t \in Firings |-> <<>>]
    /\ flows = [f \in Flows |-> Waiting("ended")]
    /\ rows \in SUBSET Loaded
    /\ children = [n \in Numbers |-> [kind \in Kinds |->
                       IF n \in rows THEN 1 ELSE 0]]
    /\ hurt = {} /\ overlapped = {}
    /\ faults = 0

Fault == faults < MaxFaults /\ faults' = faults + 1

-------------------------------------------------------------------------------
(* Firings *)

FlowsOf(t) == {f \in Flows : f[1] = t}

\* findMany of PROBLEM_V2, whatever the source; the order is of no account.
SourceIds(problems) == Foreign \o Ascending[problems]

\* Mutant of ReadProblems: the number behind the last problem is planned next.
ReadFromLast(t) ==
    /\ firings[t].pc = "idle" /\ \A f \in FlowsOf(t) : flows[f].pc \in Ended
    /\ firings' = [firings EXCEPT ![t] = [pc |-> "planned", seen |-> rows]]
    /\ plans' = [plans EXCEPT ![t] =
          MissingProblems[SourceIds({n \in Numbers : \E m \in rows : n =< m})]]
    /\ UNCHANGED <<flows, rows, children, hurt, overlapped, faults>>

\* plan: the one read of the table decides.  The cron job may fire whenever it
\* likes; a firing whose flows are under way is another member of Firings.
ReadProblems(t) ==
    /\ firings[t].pc = "idle" /\ \A f \in FlowsOf(t) : flows[f].pc \in Ended
    /\ firings' = [firings EXCEPT ![t] = [pc |-> "planned", seen |-> rows]]
    /\ plans' = [plans EXCEPT ![t] = MissingProblems[SourceIds(rows)]]
    /\ UNCHANGED <<flows, rows, children, hurt, overlapped, faults>>

\* The batch instances are made and their flows are started; none is if making
\* an instance failed, some are not if adding them fails or the process dies.
StartFlows(t) ==
    /\ firings[t].pc = "planned"
    /\ firings' = [firings EXCEPT ![t] = [pc |-> "idle", seen |-> {}]]
    /\ \E started \in SUBSET DOMAIN plans[t] :
         /\ flows' = [f \in Flows |->
                        IF f[1] # t THEN flows[f]
                        ELSE Waiting(IF f[2] \in started THEN "collect" ELSE "ended")]
         /\ \/ started = DOMAIN plans[t] /\ UNCHANGED faults
            \/ Fault
    /\ UNCHANGED <<plans, rows, children, hurt, overlapped>>

\* GET api/v1/orchestrator: one flow, for whatever problem the caller names, one
\* that is there, is excluded or cannot be collected too.
Request(t, n) ==
    /\ firings[t].pc = "idle" /\ \A f \in FlowsOf(t) : flows[f].pc \in Ended
    /\ plans' = [plans EXCEPT ![t] = <<n>>]
    /\ flows' = [f \in Flows |->
                   IF f[1] # t THEN flows[f]
                   ELSE Waiting(IF f[2] = 1 THEN "collect" ELSE "ended")]
    /\ UNCHANGED <<firings, rows, children, hurt, overlapped, faults>>

-------------------------------------------------------------------------------
(* Steps *)

Number(f) == plans[f[1]][f[2]]

Busy == {f \in Flows : flows[f].pc \in Inside}

Free == Cardinality(Busy) < Workers

Rewriting == {f \in Busy : flows[f].pc # "loaded"}

\* A step returned: the next one will be handed what it returned.
NextStep(f, step) == flows' = [flows EXCEPT ![f] = Waiting(step)]

\* A step threw, which ends the flow.
Throw(f) ==
    /\ flows' = [flows EXCEPT ![f] = Waiting("ended")]
    /\ hurt' = IF f \in Rewriting THEN hurt \cup {Number(f)} ELSE hurt

\* ProblemBojCollectJob.run: the crawler answers, cannot crawl this problem, or
\* fails this time.
Collect(f) ==
    /\ flows[f].pc = "collect" /\ Free
    /\ \/ Number(f) \notin Poison /\ NextStep(f, "process") /\ UNCHANGED <<hurt, faults>>
       \/ Number(f) \in Poison /\ Throw(f) /\ UNCHANGED faults
       \/ Throw(f) /\ Fault
    /\ UNCHANGED <<firings, plans, rows, children, overlapped>>

\* ProblemBojProcessJob.run: a request has no inputOutputList to map.
Process(f) ==
    /\ flows[f].pc = "process" /\ Free
    /\ \/ flows[f].whole /\ NextStep(f, "load") /\ UNCHANGED <<hurt, faults>>
       \/ ~flows[f].whole /\ Throw(f) /\ UNCHANGED faults
       \/ Throw(f) /\ Fault
    /\ UNCHANGED <<firings, plans, rows, children, overlapped>>

\* ProblemBojLoadJob.run, findUnique: the children of a known problem will be
\* deleted first.
FindProblem(f) ==
    /\ flows[f].pc = "load" /\ Free
    /\ \/ /\ flows' = [flows EXCEPT ![f].pc = IF Number(f) \in rows THEN "types" ELSE "upsert"]
          /\ overlapped' = overlapped \cup ({Number(g) : g \in Rewriting} \cap {Number(f)})
          /\ UNCHANGED <<hurt, faults>>
       \/ Throw(f) /\ Fault /\ UNCHANGED overlapped
    /\ UNCHANGED <<firings, plans, rows, children>>

Without(kind, n) == [children EXCEPT ![n][kind] = 0]

\* One deleteMany, or its rejection, with or without its write done.
DeleteMany(f, kind, next) ==
    /\ flows[f].pc = kind
    /\ \/ /\ children' = Without(kind, Number(f))
          /\ flows' = [flows EXCEPT ![f].pc = next]
          /\ UNCHANGED <<hurt, faults>>
       \/ /\ children' = Without(kind, Number(f)) \/ UNCHANGED children
          /\ Throw(f) /\ Fault
    /\ UNCHANGED <<firings, plans, rows, overlapped>>

\* Mutant of DeleteChildren: the samples are not deleted.
KeepSamples(f) ==
    \/ DeleteMany(f, "types", "subtasks")
    \/ DeleteMany(f, "subtasks", "upsert")

\* The language limits are not deleted.
DeleteChildren(f) ==
    \/ DeleteMany(f, "types", "samples")
    \/ DeleteMany(f, "samples", "subtasks")
    \/ DeleteMany(f, "subtasks", "upsert")

Capped(k) == IF k > MaxCopies THEN MaxCopies ELSE k

With(n, kinds) ==
    [children EXCEPT ![n] = [kind \in Kinds |->
        IF kind \in kinds THEN Capped(@[kind] + 1) ELSE @[kind]]]

\* Mutant of Create: an update has no samples.
CreateSamplesOnce(n) ==
    /\ rows' = rows \cup {n}
    /\ children' = With(n, IF n \in rows THEN Kinds \ {"samples"} ELSE Kinds)

\* The upsert with its nested writes is one transaction, for a new row as for
\* one that is there.
Create(n) ==
    /\ rows' = rows \cup {n}
    /\ children' = With(n, Kinds)

\* The upsert.  A request has no inputOutputList, so building the arguments
\* throws.  A type that is there already violates its unique key.
UpsertProblem(f) ==
    LET n == Number(f)
        possible == flows[f].whole /\ children[n].types = 0
    IN  /\ flows[f].pc = "upsert"
        /\ \/ /\ possible /\ Create(n)
              /\ flows' = [flows EXCEPT ![f].pc = "loaded"]
              /\ hurt' = hurt \ {n} /\ UNCHANGED faults
           \/ /\ ~possible /\ Throw(f) /\ UNCHANGED <<rows, children, faults>>
           \/ /\ (possible /\ Create(n)) \/ UNCHANGED <<rows, children>>
              /\ Throw(f) /\ Fault
        /\ UNCHANGED <<firings, plans, overlapped>>

\* The dispatcher writes the SUCCESS row of the last step.
Finish(f) ==
    /\ flows[f].pc = "loaded"
    /\ \/ NextStep(f, "ended") /\ UNCHANGED <<hurt, faults>>
       \/ Throw(f) /\ Fault
    /\ UNCHANGED <<firings, plans, rows, children, overlapped>>

Step(f) ==
    \/ Collect(f)
    \/ Process(f)
    \/ FindProblem(f)
    \/ DeleteChildren(f)
    \/ UpsertProblem(f)
    \/ Finish(f)

-------------------------------------------------------------------------------

Restarted(f) ==
    IF flows[f].pc \in Inside THEN "load" ELSE flows[f].pc

\* A process dies: the firings it was planning are forgotten, the step it was
\* running is delivered again, with or without the right input; a step that was
\* delivered again before has failed.
Crash ==
    /\ Fault
    /\ \E lost \in SUBSET Firings,
          running \in {{}} \cup {{f} : f \in {g \in Flows : flows[g].pc \notin Ended}} :
         /\ Cardinality(Busy \cup running) =< Workers
         /\ Workers = 1 => Busy \subseteq running /\ lost = Firings
         /\ \E whole \in BOOLEAN :
              flows' = [f \in Flows |->
                          IF f \notin running THEN flows[f]
                          ELSE IF flows[f].again THEN Waiting("ended")
                          ELSE [pc |-> Restarted(f), whole |-> whole, again |-> TRUE]]
         /\ firings' = [t \in Firings |->
                          IF t \in lost THEN [pc |-> "idle", seen |-> {}] ELSE firings[t]]
         /\ hurt' = hurt \cup {Number(f) : f \in Rewriting \cap running}
    /\ UNCHANGED <<plans, rows, children, overlapped>>

Next ==
    \/ \E t \in Firings : ReadProblems(t) \/ StartFlows(t)
    \/ \E t \in Requests, n \in Asked : Request(t, n)
    \/ \E f \in Flows : Step(f)
    \/ Crash

Spec == Init /\ [][Next]_vars

\* The cron job keeps firing, and the worker, which takes jobs in the order they
\* came, gets to the flows of every firing however many requests come between.
FairSpec ==
    /\ Spec
    /\ \A t \in Firings :
          SF_vars(ReadProblems(t) \/ StartFlows(t) \/ \E f \in FlowsOf(t) : Step(f))

-------------------------------------------------------------------------------
(* Properties *)

Known(t) == firings[t].seen \cup {Foreign[i] : i \in DOMAIN Foreign}

\* A plan lists, in order and once each, the smallest problems that are missing
\* and not excluded, as many as asked for (the index walk of plan).  As many as 50
\* are asked for; plan's own tests still expect one problem, whatever is missing.
PlansSmallestMissing ==
    \A t \in Firings :
        LET plan    == plans[t]
            planned == {plan[i] : i \in DOMAIN plan}
            missing == Numbers \ (Known(t) \cup Excluded)
        IN  firings[t].pc = "planned" =>
              /\ planned \subseteq missing
              /\ \A i, k \in DOMAIN plan : i < k => plan[i] < plan[k]
              /\ \A n \in missing \ planned :
                    Len(plan) = TargetCount /\ \A m \in planned : m < n

\* Whatever loads fail, die or are repeated, no problem ever has two copies of
\* its types, samples or subtasks, as long as no two loads rewrote it together:
\* one that saw no row deletes nothing, and then the upsert updates.
OneCopyOfEach ==
    \A n \in Numbers \ overlapped : \A kind \in Kinds \ {"limits"} :
        children[n][kind] =< 1

\* A problem that is there has all its children, unless a load is rewriting it
\* or the load that came last to its end failed or died inside.
WholeUnlessHurt ==
    \A n \in (Numbers \cap rows) \ hurt :
        \/ \A kind \in Kinds : children[n][kind] > 0
        \/ \E f \in Rewriting : Number(f) = n

Collectable ==
    Numbers \ (Poison \cup Excluded \cup {Foreign[i] : i \in DOMAIN Foreign})

\* As long as fewer problems than one plan has are impossible to collect, every
\* other one is collected sooner or later, whatever requests come between.
EveryProblemIsCollected ==
    Cardinality(Poison) < TargetCount => \A n \in Collectable : <>(n \in rows)
=============================================================================
