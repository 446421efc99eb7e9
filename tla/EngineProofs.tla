----------------------------- MODULE EngineProofs -----------------------------
(***************************************************************************)
(* Theorems about the engine, for any flows, processes, definitions and    *)
(* bounds.                                                                 *)
(***************************************************************************)
EXTENDS EngineProperties, TLAPS

-------------------------------------------------------------------------------
(* Job identifiers *)

\* A job is a flow and the number of one of its steps.
LEMMA JobIdFacts ==
    /\ \A f \in Flows : Len(StepList[f]) \in Nat /\ Steps(f) \subseteq Nat
    /\ \A f \in Flows : \A i \in Steps(f) : <<f, i>> \in JobIds
    /\ \A j \in JobIds : /\ j[1] \in Flows
                         /\ j[2] \in Steps(j[1])
                         /\ j = <<j[1], j[2]>>
                         /\ Name(j) \in StepNames
                         /\ RowKey(j) \in Flows \X StepNames
<1>1. \A f \in Flows : StepList[f] \in Seq(StepNames)
  BY FlowQueueAssumption
<1>2. \A f \in Flows : Len(StepList[f]) \in Nat /\ Steps(f) \subseteq Nat
  <2> TAKE f \in Flows
  <2>1. Len(StepList[f]) \in Nat
    BY <1>1
  <2> QED
    BY <2>1 DEF Steps
<1>3. \A f \in Flows : \A i \in Steps(f) : <<f, i>> \in JobIds
  BY DEF JobIds
<1>4. ASSUME NEW j \in JobIds
      PROVE  j[1] \in Flows /\ j[2] \in Steps(j[1]) /\ j = <<j[1], j[2]>>
  BY <1>4 DEF JobIds
<1>5. ASSUME NEW j \in JobIds
      PROVE  Name(j) \in StepNames
  <2>1. j[1] \in Flows /\ j[2] \in 1 .. Len(StepList[j[1]])
    BY <1>4 DEF Steps
  <2> QED
    BY <2>1, <1>1 DEF Name
<1> QED
  BY <1>2, <1>3, <1>4, <1>5 DEF RowKey
-------------------------------------------------------------------------------
(* Types *)

\* The initial state is well typed.
LEMMA InitTypeOK == Init => TypeOK
  BY DEF Init, TypeOK, QueueInit, QueueTypeOK, QueueStates, DispatcherInit,
         DispatcherTypeOK, NoRow, RowType, OrchInit, OrchTypeOK, WaitStates

\* The actions of an orchestrate call keep the types.
LEMMA CallTypeOK ==
    ASSUME TypeOK, NEW f \in Flows, Call(f)
    PROVE  TypeOK'
<1> USE DEF TypeOK, OrchTypeOK, InFlight, Outcomes, WaitStates
<1> DEFINE EngineTypeOK == crashes \in Nat /\ attempts \in [JobIds -> Nat]
<1>1. ASSUME UNCHANGED <<dispatcherVars, engineVars>>
      PROVE  DispatcherTypeOK' /\ EngineTypeOK'
  BY <1>1 DEF dispatcherVars, engineVars, DispatcherTypeOK
<1>2. ASSUME UNCHANGED queueVars
      PROVE  QueueTypeOK'
  BY <1>2 DEF queueVars, QueueTypeOK
<1>3. ASSUME AddFlow(f)
      PROVE  QueueTypeOK'
  BY <1>3 DEF AddFlow, QueueTypeOK, QueueStates
<1>4. CASE \E p \in Procs : Start(p, f)
  BY <1>1, <1>2, <1>4 DEF Start, Orchestrate
<1>5. CASE Lookup(f)
  BY <1>1, <1>2, <1>5 DEF Lookup, GetJobDefinition
<1>6. CASE Add(f)
  BY <1>1, <1>3, <1>6 DEF Add, JobsAdded
<1>7. CASE AddFails(f)
  BY <1>1, <1>2, <1>3, <1>7 DEF AddFails, AddThrew
<1>8. CASE Subscribe(f)
  BY <1>1, <1>2, <1>8 DEF Subscribe, WaitForJobs
<1>9. CASE Report(f)
  BY <1>1, <1>2, <1>9 DEF Report, Settle
<1> QED
  BY <1>4, <1>5, <1>6, <1>7, <1>8, <1>9 DEF Call

\* Writing a row keeps the rows well typed.
LEMMA UpsertTypeOK ==
    ASSUME DispatcherTypeOK, NEW p \in Procs, exec[p] \in CallType,
           NEW state \in {"RUNNING", "SUCCESS", "FAILED"}, UpsertRow(p, state)
    PROVE  rows' \in [Flows \X StepNames -> RowType]
<1>1. exec[p].job \in JobIds /\ exec[p].startedAt \in Nat
  BY DEF CallType
<1>2. RowKey(exec[p].job) \in Flows \X StepNames /\ exec[p].job[2] \in Nat
  BY <1>1, JobIdFacts
<1>3. rows[RowKey(exec[p].job)] \in RowType
  BY <1>2 DEF DispatcherTypeOK
<1>4. Upsert(rows[RowKey(exec[p].job)], state, exec[p].job[2], exec[p].startedAt) \in RowType
  BY <1>1, <1>2, <1>3 DEF Upsert, RowType
<1> QED
  BY <1>4 DEF UpsertRow, DispatcherTypeOK

\* The data a step is given is a result some step wrote, or the request.
LEMMA NextDataType ==
    ASSUME DispatcherTypeOK, NEW f \in Flows
    PROVE  NextData(f) \in Nat
<1> DEFINE started == {n \in StepNames : rows[<<f, n>>].state # "NONE"}
           last == {n \in started :
                      \A m \in started : rows[<<f, m>>].startedAt =< rows[<<f, n>>].startedAt}
<1>1. CASE last = {}
  BY <1>1 DEF NextData
<1>2. CASE last # {}
  <2>1. (CHOOSE n \in last : TRUE) \in StepNames
    BY <1>2
  <2>2. rows[<<f, CHOOSE n \in last : TRUE>>] \in RowType
    BY <2>1 DEF DispatcherTypeOK
  <2> HIDE DEF last
  <2> QED
    BY <1>2, <2>2 DEF NextData, RowType, last
<1> QED
  BY <1>1, <1>2

\* The steps of a worker keep the types.
LEMMA WorkerTypeOK ==
    ASSUME TypeOK, NEW p \in Procs, Worker(p)
    PROVE  TypeOK'
<1>1. ASSUME UNCHANGED orchVars
      PROVE  OrchTypeOK'
  BY <1>1 DEF TypeOK, orchVars, OrchTypeOK
<1>7. ASSUME UNCHANGED engineVars
      PROVE  crashes' \in Nat /\ attempts' \in [JobIds -> Nat]
  BY <1>7 DEF TypeOK, engineVars
<1>2. exec[p].pc # "idle" => exec[p] \in CallType
  BY DEF TypeOK, DispatcherTypeOK, Idle
<1>3. ASSUME NEW pc \in CallPCs, exec[p] \in CallType, Goto(p, pc)
      PROVE  exec' \in [Procs -> CallType \cup {Idle}]
  BY <1>3 DEF TypeOK, DispatcherTypeOK, Goto, CallType
<1>4. ASSUME NEW j \in JobIds, Take(p, j)
      PROVE  TypeOK'
  <2>1. j[1] \in Flows
    BY JobIdFacts
  <2>2. QueueTypeOK'
    BY <1>4 DEF Take, TakeJob, TypeOK, QueueTypeOK, QueueStates
  <2>3. ticks[j[1]] + 1 \in Nat
    BY <2>1 DEF TypeOK, DispatcherTypeOK
  <2>4. [pc |-> "read", job |-> j, input |-> 0, startedAt |-> ticks[j[1]] + 1] \in CallType
    BY <2>3 DEF CallType, CallPCs
  <2>5. DispatcherTypeOK'
    BY <1>4, <2>1, <2>3, <2>4 DEF Take, BeginDispatch, TypeOK, DispatcherTypeOK
  <2>6. crashes' \in Nat /\ attempts' \in [JobIds -> Nat]
    BY <1>4 DEF Take, TypeOK
  <2> QED
    BY <1>1, <1>4, <2>2, <2>5, <2>6 DEF Take, TypeOK
<1>5. ASSUME Dispatch(p)
      PROVE  TypeOK'
  <2>1. QueueTypeOK'
    BY <1>5 DEF Dispatch, TypeOK, queueVars, QueueTypeOK
  <2>2. DispatcherTypeOK'
    <3>1. CASE ReadNextData(p)
      <4>1. exec[p] \in CallType /\ exec[p].job \in JobIds
        BY <3>1, <1>2 DEF ReadNextData, CallType
      <4>2. NextData(exec[p].job[1]) \in Nat
        BY <4>1, NextDataType, JobIdFacts DEF TypeOK
      <4>3. [exec[p] EXCEPT !.pc = "start", !.input = NextData(exec[p].job[1])] \in CallType
        BY <4>1, <4>2 DEF CallType, CallPCs
      <4>4. CASE Goto(p, "fail")
        BY <1>3, <3>1, <4>1, <4>4 DEF ReadNextData, TypeOK, DispatcherTypeOK, CallPCs
      <4>5. CASE exec' = [exec EXCEPT ![p].pc = "start",
                                      ![p].input = NextData(exec[p].job[1])]
        <5>1. exec' = [exec EXCEPT ![p] = [exec[p] EXCEPT !.pc = "start",
                                             !.input = NextData(exec[p].job[1])]]
          BY <4>5
        <5> QED
          BY <5>1, <3>1, <4>3 DEF ReadNextData, TypeOK, DispatcherTypeOK
      <4> QED
        BY <3>1, <4>4, <4>5 DEF ReadNextData
    <3>2. CASE MarkRunning(p)
      <4>1. exec[p] \in CallType
        BY <3>2, <1>2 DEF MarkRunning
      <4>2. rows' \in [Flows \X StepNames -> RowType]
        BY <3>2, <4>1, UpsertTypeOK DEF MarkRunning, TryFails, TypeOK, DispatcherTypeOK
      <4>3. exec' \in [Procs -> CallType \cup {Idle}]
        BY <1>3, <3>2, <4>1 DEF MarkRunning, TryFails, CallPCs
      <4> QED
        BY <3>2, <4>2, <4>3 DEF MarkRunning, TypeOK, DispatcherTypeOK
    <3>3. CASE RunHandler(p)
      <4>1. exec[p] \in CallType
        BY <3>3, <1>2 DEF RunHandler
      <4> QED
        BY <1>3, <3>3, <4>1 DEF RunHandler, TypeOK, DispatcherTypeOK, CallPCs
    <3>4. CASE MarkSuccess(p)
      <4>1. exec[p] \in CallType
        BY <3>4, <1>2 DEF MarkSuccess
      <4>2. rows' \in [Flows \X StepNames -> RowType]
        BY <3>4, <4>1, UpsertTypeOK DEF MarkSuccess, TryFails, TypeOK, DispatcherTypeOK
      <4>3. exec' \in [Procs -> CallType \cup {Idle}]
        BY <1>3, <3>4, <4>1 DEF MarkSuccess, TryFails, CallPCs
      <4> QED
        BY <3>4, <4>2, <4>3 DEF MarkSuccess, TypeOK, DispatcherTypeOK
    <3>5. CASE MarkFailed(p)
      <4>1. exec[p] \in CallType
        BY <3>5, <1>2 DEF MarkFailed
      <4>2. rows' \in [Flows \X StepNames -> RowType]
        BY <3>5, <4>1, UpsertTypeOK DEF MarkFailed, TypeOK, DispatcherTypeOK
      <4>3. exec' \in [Procs -> CallType \cup {Idle}]
        BY <1>3, <3>5, <4>1 DEF MarkFailed, CallPCs
      <4> QED
        BY <3>5, <4>2, <4>3 DEF MarkFailed, TypeOK, DispatcherTypeOK
    <3> QED
      BY <1>5, <3>1, <3>2, <3>3, <3>4, <3>5 DEF Dispatch, DispatchStep
  <2> QED
    BY <1>1, <1>5, <1>7, <2>1, <2>2 DEF Dispatch, TypeOK
<1>6. ASSUME Ack(p)
      PROVE  TypeOK'
  <2>1. exec[p].job \in JobIds
    BY <1>6, <1>2 DEF Ack, CallType
  <2>2. QueueTypeOK'
    BY <1>6, <2>1 DEF Ack, MoveToCompleted, MoveToFailed, TypeOK, queueVars,
                      QueueTypeOK, QueueStates
  <2>3. DispatcherTypeOK'
    BY <1>6 DEF Ack, EndDispatch, TypeOK, DispatcherTypeOK
  <2> QED
    BY <1>1, <1>6, <1>7, <2>2, <2>3 DEF Ack, TypeOK
<1> QED
  BY <1>4, <1>5, <1>6 DEF Worker

\* What BullMQ does on its own, and a crash, keep the types.
LEMMA BullTypeOK ==
    ASSUME TypeOK, NEW j \in JobIds, Bull(j)
    PROVE  TypeOK'
<1> USE DEF TypeOK
<1>1. CASE Check(j) \/ Deliver(j)
  <2>1. UNCHANGED <<queueVars, dispatcherVars, engineVars>>
    BY <1>1 DEF Check, Deliver
  <2>2. OrchTypeOK'
    BY <1>1 DEF Check, CheckFinished, Deliver, DeliverEvent, OrchTypeOK, WaitStates
  <2> QED
    BY <2>1, <2>2 DEF queueVars, dispatcherVars, engineVars, QueueTypeOK, DispatcherTypeOK
<1>2. CASE FailChain(j) \/ Stall(j)
  <2>1. UNCHANGED <<dispatcherVars, orchVars, engineVars>>
    BY <1>2 DEF FailChain, Stall
  <2>2. QueueTypeOK'
    BY <1>2 DEF FailChain, FailParent, Stall, RecoverStalled, QueueTypeOK, QueueStates
  <2> QED
    BY <2>1, <2>2 DEF orchVars, dispatcherVars, engineVars, OrchTypeOK, DispatcherTypeOK
<1> QED
  BY <1>1, <1>2 DEF Bull

\* A crash keeps the types.
LEMMA CrashTypeOK ==
    ASSUME TypeOK, NEW p \in Procs, Crash(p)
    PROVE  TypeOK'
<1>1. QueueTypeOK' /\ crashes' \in Nat /\ attempts' \in [JobIds -> Nat]
  BY DEF Crash, TypeOK, queueVars, QueueTypeOK
<1>2. DispatcherTypeOK'
  BY DEF Crash, EndDispatch, TypeOK, DispatcherTypeOK
<1>3. OrchTypeOK'
  BY DEF Crash, LoseCalls, TypeOK, OrchTypeOK, InFlight, Outcomes, WaitStates
<1> QED
  BY <1>1, <1>2, <1>3 DEF TypeOK

\* Every step of the engine keeps the types.
LEMMA NextTypeOK == TypeOK /\ [Next]_vars => TypeOK'
<1> SUFFICES ASSUME TypeOK, [Next]_vars PROVE TypeOK'
  OBVIOUS
<1>1. CASE \E f \in Flows : Call(f)
  BY <1>1, CallTypeOK
<1>2. CASE \E p \in Procs : Worker(p) \/ Crash(p)
  BY <1>2, WorkerTypeOK, CrashTypeOK
<1>3. CASE \E j \in JobIds : Bull(j)
  BY <1>3, BullTypeOK
<1>4. CASE UNCHANGED vars
  BY <1>4 DEF vars, queueVars, dispatcherVars, orchVars, engineVars, TypeOK, QueueTypeOK,
              DispatcherTypeOK, OrchTypeOK
<1> QED
  BY <1>1, <1>2, <1>3, <1>4 DEF Next

\* The engine is type correct: every JOB_INSTANCE row, job and orchestrate call
\* is always in one of the states the code knows.
THEOREM TypeCorrect == Spec => []TypeOK
<1> QED
  BY InitTypeOK, NextTypeOK, PTL DEF Spec

-------------------------------------------------------------------------------
(* The order of the chain *)

\* No job of a flow is in the queue before orchestrate called add.
NotAddedYet ==
    \A f \in Flows : orch[f] \in {"idle", "lookup", "add"} =>
        \A i \in Steps(f) : queue[<<f, i>>] = "absent"

ChainInv == TypeOK /\ ChainInOrder /\ NotAddedYet

\* ChainInOrder, for one pair of jobs.
Ordered(f, k, i) ==
    /\ queue[<<f, i>>] \in {"wait", "active", "completed"} => queue[<<f, k>>] = "completed"
    /\ queue[<<f, i>>] = "failed" => queue[<<f, k>>] \in {"completed", "failed"}

\* ChainInOrder says that every pair of jobs of a flow is ordered.
LEMMA ChainIsOrdered ==
    ChainInOrder <=> \A f \in Flows : \A i \in Steps(f) : \A k \in 1 .. i - 1 : Ordered(f, k, i)
  BY DEF ChainInOrder, Ordered, Finished

\* Adding a flow none of whose jobs is in the queue keeps the order.
LEMMA ChainAdd ==
    ASSUME QueueTypeOK, ChainInOrder, NEW f \in Flows, AddFlow(f)
    PROVE  ChainInOrder'
<1> SUFFICES ASSUME NEW g \in Flows, NEW i \in Steps(g), NEW k \in 1 .. i - 1
             PROVE  Ordered(g, k, i)'
  BY DEF ChainInOrder, Ordered, Finished
<1>1. k \in Steps(g) /\ i \in Nat /\ k \in Nat /\ k < i
  BY JobIdFacts DEF Steps
<1>2. <<g, i>> \in JobIds /\ <<g, k>> \in JobIds
  BY <1>1, JobIdFacts
<1>3. Ordered(g, k, i)
  BY ChainIsOrdered
<1> QED
  BY <1>1, <1>2, <1>3 DEF AddFlow, Ordered

\* A job that is not completed has no later job that is waiting for a worker,
\* being run or completed; one that is not finished has no later one finished.
LEMMA ChainUse ==
    ASSUME ChainInOrder, NEW f \in Flows, NEW i \in Steps(f), NEW k \in Steps(f)
    PROVE  /\ queue[<<f, k>>] # "completed" /\ k < i
                => queue[<<f, i>>] \notin {"wait", "active", "completed"}
           /\ queue[<<f, k>>] \notin {"completed", "failed"} /\ k < i
                => queue[<<f, i>>] # "failed"
<1>1. i \in Nat /\ k \in Nat /\ k >= 1
  BY JobIdFacts DEF Steps
<1>2. k < i => k \in 1 .. i - 1
  BY <1>1
<1> QED
  BY <1>2 DEF ChainInOrder, Finished

\* The queue's own moves of one job keep the order.
LEMMA ChainMove ==
    ASSUME QueueTypeOK, ChainInOrder, NEW j \in JobIds,
           \/ \E p \in Procs : TakeJob(p, j)
           \/ queue[j] = "active" /\ MoveToCompleted(j)
           \/ queue[j] = "active" /\ MoveToFailed(j)
           \/ FailParent(j)
           \/ RecoverStalled(j)
    PROVE  ChainInOrder'
<1> DEFINE f == j[1]
           n == j[2]
<1>1. f \in Flows /\ n \in Steps(f) /\ n \in Nat /\ j = <<f, n>> /\ n >= 1
  BY JobIdFacts DEF Steps
<1> SUFFICES ASSUME NEW g \in Flows, NEW i \in Steps(g), NEW k \in 1 .. i - 1
             PROVE  Ordered(g, k, i)'
  BY DEF ChainInOrder, Ordered, Finished
<1>2. k \in Steps(g) /\ i \in Nat /\ k \in Nat /\ k < i
  BY JobIdFacts DEF Steps
<1>3. <<g, i>> \in JobIds /\ <<g, k>> \in JobIds
  BY <1>2, JobIdFacts
<1>4. Ordered(g, k, i)
  BY ChainIsOrdered
<1>5. \A m \in Steps(f) :
         /\ queue[j] # "completed" /\ n < m
              => queue[<<f, m>>] \notin {"wait", "active", "completed"}
         /\ queue[j] \notin {"completed", "failed"} /\ n < m
              => queue[<<f, m>>] # "failed"
  BY <1>1, ChainUse
<1>6. \A m \in Steps(f) : m < n => Ordered(f, m, n)
  <2> TAKE m \in Steps(f)
  <2>1. m < n => m \in 1 .. n - 1
    BY <1>1 DEF Steps
  <2> QED
    BY <1>1, <2>1, ChainIsOrdered
<1> HIDE DEF f, n
<1>7. CASE \E p \in Procs : TakeJob(p, j)
  BY <1>1, <1>2, <1>3, <1>4, <1>5, <1>6, <1>7 DEF TakeJob, Ordered, QueueTypeOK
<1>8. CASE queue[j] = "active" /\ MoveToCompleted(j)
  <2>1. queue' = [l \in JobIds |-> IF l = <<f, n>> THEN "completed"
                                   ELSE IF l = <<f, n + 1>> THEN "wait" ELSE queue[l]]
    BY <1>1, <1>8 DEF MoveToCompleted, f, n
  <2>2. queue'[<<g, i>>] = IF g = f /\ i = n THEN "completed"
                           ELSE IF g = f /\ i = n + 1 THEN "wait" ELSE queue[<<g, i>>]
    BY <2>1, <1>3
  <2>3. queue'[<<g, k>>] = IF g = f /\ k = n THEN "completed"
                           ELSE IF g = f /\ k = n + 1 THEN "wait" ELSE queue[<<g, k>>]
    BY <2>1, <1>3
  <2>4. queue[<<f, n>>] = "active"
    BY <1>1, <1>8
  <2>5. CASE g # f
    BY <2>2, <2>3, <2>5, <1>4 DEF Ordered
  <2>6. CASE g = f /\ i =< n
    BY <2>2, <2>3, <2>4, <2>6, <1>1, <1>2, <1>4, <1>6 DEF Ordered
  <2>7. CASE g = f /\ i > n
    <3>1. queue[<<f, i>>] \notin {"wait", "active", "completed", "failed"}
      BY <1>5, <2>4, <2>7, <1>1
    <3>2. CASE i = n + 1
      <4>1. k = n \/ (k < n /\ queue[<<f, k>>] = "completed")
        BY <1>1, <1>2, <1>6, <2>4, <2>7, <3>2 DEF Ordered
      <4> QED
        BY <2>2, <2>3, <2>7, <3>2, <4>1, <1>1, <1>2 DEF Ordered
    <3>3. CASE i # n + 1
      BY <2>2, <2>7, <3>1, <3>3, <1>1, <1>2 DEF Ordered
    <3> QED
      BY <3>2, <3>3
  <2> QED
    BY <2>5, <2>6, <2>7, <1>1, <1>2
<1>9. CASE queue[j] = "active" /\ MoveToFailed(j)
  BY <1>1, <1>2, <1>3, <1>4, <1>5, <1>6, <1>9 DEF MoveToFailed, Ordered, QueueTypeOK
<1>10. CASE FailParent(j)
  <2>1. n > 1 /\ queue[<<f, n>>] = "waiting-children" /\ queue[<<f, n - 1>>] = "failed"
    BY <1>1, <1>10 DEF FailParent, f, n
  <2>2. n - 1 \in Steps(f)
    BY <1>1, <2>1, JobIdFacts DEF Steps
  <2>3. \A m \in Steps(f) : m < n => queue[<<f, m>>] \in {"completed", "failed"}
    <3> TAKE m \in Steps(f)
    <3>1. CASE m = n - 1
      BY <2>1, <3>1
    <3>2. CASE m < n - 1
      <4>1. m \in 1 .. (n - 1) - 1
        BY <3>2, <1>1 DEF Steps
      <4>2. Ordered(f, m, n - 1)
        BY <4>1, <2>2, <1>1, ChainIsOrdered
      <4> QED
        BY <4>2, <2>1 DEF Ordered
    <3> QED
      BY <3>1, <3>2, <1>1, JobIdFacts
  <2> QED
    BY <1>1, <1>2, <1>3, <1>4, <1>5, <2>1, <2>3, <1>10 DEF FailParent, Ordered, QueueTypeOK
<1>11. CASE RecoverStalled(j)
  BY <1>1, <1>2, <1>3, <1>4, <1>5, <1>6, <1>11 DEF RecoverStalled, Ordered, QueueTypeOK
<1> QED
  BY <1>7, <1>8, <1>9, <1>10, <1>11

\* A wait that resolved is the wait for a completed job.
ResolvedMeansCompleted ==
    \A j \in JobIds : waits[j] = "resolved" => queue[j] = "completed"

FlowInv == ChainInv /\ ResolvedMeansCompleted

\* A job that completed stays completed under every move of the queue.
LEMMA CompletedIsStable ==
    ASSUME QueueTypeOK, ChainInOrder, NEW j \in JobIds,
           \/ \E p \in Procs : TakeJob(p, j)
           \/ queue[j] = "active" /\ MoveToCompleted(j)
           \/ queue[j] = "active" /\ MoveToFailed(j)
           \/ FailParent(j)
           \/ RecoverStalled(j),
           NEW l \in JobIds, queue[l] = "completed"
    PROVE  queue'[l] = "completed"
<1>1. /\ j[1] \in Flows /\ j[2] \in Steps(j[1]) /\ j[2] \in Nat /\ j = <<j[1], j[2]>>
      /\ l[1] \in Flows /\ l[2] \in Steps(l[1]) /\ l[2] \in Nat /\ l = <<l[1], l[2]>>
  BY JobIdFacts DEF Steps
<1>2. ASSUME queue[j] = "active" PROVE l # <<j[1], j[2] + 1>>
  <2> SUFFICES ASSUME l = <<j[1], j[2] + 1>> PROVE FALSE
    OBVIOUS
  <2>1. l[1] = j[1] /\ l[2] = j[2] + 1 /\ j[2] < l[2]
    BY <1>1
  <2> QED
    BY <1>1, <1>2, <2>1, ChainUse
<1>3. CASE queue[j] = "active" /\ MoveToCompleted(j)
  BY <1>2, <1>3 DEF MoveToCompleted
<1>4. CASE ~(queue[j] = "active" /\ MoveToCompleted(j))
  BY <1>4 DEF TakeJob, MoveToFailed, FailParent, RecoverStalled, QueueTypeOK
<1> QED
  BY <1>3, <1>4

\* Every step keeps the order of the chain and what the waits know of it.
LEMMA NextFlowInv == FlowInv /\ [Next]_vars => FlowInv'
<1> SUFFICES ASSUME FlowInv, [Next]_vars PROVE FlowInv'
  OBVIOUS
<1>1. TypeOK'
  BY NextTypeOK DEF FlowInv, ChainInv
<1>2. QueueTypeOK /\ OrchTypeOK /\ ChainInOrder /\ NotAddedYet /\ ResolvedMeansCompleted
  BY DEF FlowInv, ChainInv, TypeOK
<1>3. ASSUME UNCHANGED queue
      PROVE  ChainInOrder'
  BY <1>2, <1>3 DEF ChainInOrder, Finished
<1>4. ASSUME UNCHANGED <<queue, orchVars>>
      PROVE  FlowInv'
  BY <1>1, <1>2, <1>3, <1>4 DEF FlowInv, ChainInv, orchVars, NotAddedYet, ResolvedMeansCompleted
<1>5. ASSUME NEW f \in Flows, AddFlow(f), orch[f] = "add", orch'[f] \in {"subscribe", "THROWN"},
             \A g \in Flows : g # f => orch'[g] = orch[g], UNCHANGED waits
      PROVE  FlowInv'
  <2>1. ChainInOrder'
    BY <1>2, <1>5, ChainAdd
  <2>2. \A g \in Flows : \A i \in Steps(g) : g # f => queue'[<<g, i>>] = queue[<<g, i>>]
    BY <1>5, JobIdFacts DEF AddFlow
  <2>3. NotAddedYet'
    BY <1>2, <1>5, <2>2 DEF NotAddedYet
  <2>4. ASSUME NEW j \in JobIds, waits'[j] = "resolved"
        PROVE  queue'[j] = "completed"
    <3>1. queue[j] = "completed"
      BY <1>2, <1>5, <2>4 DEF ResolvedMeansCompleted
    <3>2. j[1] # f
      BY <1>2, <1>5, <3>1, JobIdFacts DEF NotAddedYet
    <3> QED
      BY <1>5, <3>1, <3>2 DEF AddFlow
  <2> QED
    BY <1>1, <2>1, <2>3, <2>4 DEF FlowInv, ChainInv, ResolvedMeansCompleted
<1>6. ASSUME NEW j \in JobIds, UNCHANGED <<orch, waits>>,
             \/ \E p \in Procs : TakeJob(p, j)
             \/ queue[j] = "active" /\ MoveToCompleted(j)
             \/ queue[j] = "active" /\ MoveToFailed(j)
             \/ FailParent(j)
             \/ RecoverStalled(j)
      PROVE  FlowInv'
  <2>1. ChainInOrder'
    BY <1>2, <1>6, ChainMove
  <2>2. ResolvedMeansCompleted'
    BY <1>2, <1>6, CompletedIsStable DEF ResolvedMeansCompleted
  <2>3. queue[j] # "absent"
    BY <1>6 DEF TakeJob, FailParent, RecoverStalled
  <2>4. \A l \in JobIds : queue[l] = "absent" =>
           queue'[l] = "absent" \/ (queue[j] = "active" /\ l = <<j[1], j[2] + 1>>)
    BY <1>6, <1>2, <2>3 DEF TakeJob, MoveToCompleted, MoveToFailed, FailParent,
                            RecoverStalled, QueueTypeOK
  <2>5. NotAddedYet'
    <3> SUFFICES ASSUME NEW f \in Flows, orch[f] \in {"idle", "lookup", "add"},
                        NEW i \in Steps(f)
                 PROVE  queue'[<<f, i>>] = "absent"
      BY <1>6 DEF NotAddedYet
    <3>1. queue[<<f, i>>] = "absent"
      BY <1>2 DEF NotAddedYet
    <3>2. j[1] # f
      BY <1>2, <2>3, JobIdFacts DEF NotAddedYet
    <3> QED
      BY <2>4, <3>1, <3>2, JobIdFacts
  <2> QED
    BY <1>1, <2>1, <2>2, <2>5 DEF FlowInv, ChainInv
<1>7. ASSUME NEW f \in Flows, Call(f)
      PROVE  FlowInv'
  <2>1. CASE UNCHANGED queueVars
    <3>1. ChainInOrder'
      BY <1>3, <2>1 DEF queueVars
    <3>2. \A g \in Flows : orch'[g] \in {"idle", "lookup", "add"}
                              => orch[g] \in {"idle", "lookup", "add"}
      BY <1>2, <1>7 DEF Call, Start, Orchestrate, Lookup, GetJobDefinition, Add, JobsAdded,
                        AddFails, AddThrew, Subscribe, WaitForJobs, Report, Settle, OrchTypeOK
    <3>3. \A j \in JobIds : waits'[j] = "resolved" => waits[j] = "resolved"
      BY <1>2, <1>7 DEF Call, Start, Orchestrate, Lookup, GetJobDefinition, Add, JobsAdded,
                        AddFails, AddThrew, Subscribe, WaitForJobs, Report, Settle, OrchTypeOK
    <3> QED
      BY <1>1, <1>2, <2>1, <3>1, <3>2, <3>3
      DEF FlowInv, ChainInv, queueVars, NotAddedYet, ResolvedMeansCompleted
  <2>2. CASE AddFlow(f) /\ (JobsAdded(f) \/ AddThrew(f))
    BY <1>2, <1>5, <2>2 DEF JobsAdded, AddThrew, OrchTypeOK
  <2> QED
    BY <1>7, <2>1, <2>2 DEF Call, Start, Lookup, Add, AddFails, Subscribe, Report
<1>8. ASSUME NEW p \in Procs, Worker(p)
      PROVE  FlowInv'
  <2>1. CASE UNCHANGED queueVars
    BY <1>4, <1>8, <2>1 DEF Worker, Take, Dispatch, Ack, queueVars
  <2>2. CASE \E j \in JobIds : Take(p, j)
    BY <1>6, <2>2 DEF Take, orchVars
  <2>3. CASE Ack(p) /\ ~ UNCHANGED queueVars
    <3>1. exec[p].job \in JobIds
      BY <2>3 DEF Ack, FlowInv, ChainInv, TypeOK, DispatcherTypeOK, CallType, Idle
    <3>2. \/ queue[exec[p].job] = "active" /\ MoveToCompleted(exec[p].job)
          \/ queue[exec[p].job] = "active" /\ MoveToFailed(exec[p].job)
      BY <2>3 DEF Ack, HoldsLock
    <3> QED
      BY <1>6, <2>3, <3>1, <3>2 DEF Ack, orchVars
  <2> QED
    BY <1>8, <2>1, <2>2, <2>3 DEF Worker, Dispatch
<1>9. ASSUME NEW p \in Procs, Crash(p)
      PROVE  FlowInv'
  <2>1. UNCHANGED queue
    BY <1>9 DEF Crash, queueVars
  <2>2. /\ \A f \in Flows : orch'[f] \in {"idle", "lookup", "add"}
                              => orch[f] \in {"idle", "lookup", "add"}
        /\ \A j \in JobIds : waits'[j] = "resolved" => waits[j] = "resolved"
    BY <1>9 DEF Crash, LoseCalls
  <2> QED
    BY <1>1, <1>2, <1>3, <2>1, <2>2
    DEF FlowInv, ChainInv, NotAddedYet, ResolvedMeansCompleted
<1>10. ASSUME NEW j \in JobIds, Bull(j)
       PROVE  FlowInv'
  <2>1. CASE Check(j) \/ Deliver(j)
    <3>1. UNCHANGED <<queue, orch>>
      BY <2>1 DEF Check, CheckFinished, Deliver, DeliverEvent, queueVars
    <3>2. \A l \in JobIds : waits'[l] = "resolved" =>
             waits[l] = "resolved" \/ queue[l] = "completed"
      BY <1>2, <2>1 DEF Check, CheckFinished, Deliver, DeliverEvent, OrchTypeOK
    <3> QED
      BY <1>1, <1>2, <1>3, <3>1, <3>2
      DEF FlowInv, ChainInv, NotAddedYet, ResolvedMeansCompleted
  <2>2. CASE FailChain(j) \/ Stall(j)
    BY <1>6, <2>2 DEF FailChain, Stall, orchVars
  <2> QED
    BY <1>10, <2>1, <2>2 DEF Bull
<1>11. CASE UNCHANGED vars
  BY <1>4, <1>11 DEF vars, queueVars
<1> QED
  BY <1>7, <1>8, <1>9, <1>10, <1>11 DEF Next

\* The initial state satisfies the invariant: nothing is in the queue.
LEMMA InitFlowInv == Init => FlowInv
<1> SUFFICES ASSUME Init PROVE FlowInv
  OBVIOUS
<1>1. TypeOK
  BY InitTypeOK
<1>2. \A f \in Flows : \A i \in Steps(f) : queue[<<f, i>>] = "absent"
  BY JobIdFacts DEF Init, QueueInit
<1>3. NotAddedYet /\ ResolvedMeansCompleted
  BY <1>2 DEF Init, OrchInit, NotAddedYet, ResolvedMeansCompleted
<1>4. ChainInOrder
  BY <1>2 DEF ChainInOrder
<1> QED
  BY <1>1, <1>3, <1>4 DEF FlowInv, ChainInv

\* The strengthened invariant holds in every reachable state.
LEMMA AlwaysFlowInv == Spec => []FlowInv
  BY InitFlowInv, NextFlowInv, PTL DEF Spec

\* The steps of a flow are released one by one, each after the one in front of
\* it completed, and nothing in front of a failed step is unfinished.
THEOREM StepsInOrder == Spec => []ChainInOrder
<1>1. FlowInv => ChainInOrder
  BY DEF FlowInv, ChainInv
<1> QED
  BY AlwaysFlowInv, <1>1, PTL

-------------------------------------------------------------------------------
(* The engine implements LinearFlow *)

\* What the abstract flows show depends on the finished jobs and on the reports.
LEMMA SameFlows ==
    ASSUME \A j \in JobIds : /\ queue'[j] = "completed" <=> queue[j] = "completed"
                             /\ queue'[j] = "failed" <=> queue[j] = "failed"
    PROVE  FlowDone' = FlowDone /\ FlowStopped' = FlowStopped
<1>1. \A f \in Flows : \A i \in Steps(f) :
         /\ queue'[<<f, i>>] = "completed" <=> queue[<<f, i>>] = "completed"
         /\ queue'[<<f, i>>] = "failed" <=> queue[<<f, i>>] = "failed"
  BY JobIdFacts
<1>2. \A f \in Flows : {i \in Steps(f) : queue'[<<f, i>>] = "completed"}
                          = {i \in Steps(f) : queue[<<f, i>>] = "completed"}
  BY <1>1
<1>3. \A f \in Flows : (\E i \in Steps(f) : queue'[<<f, i>>] = "failed")
                          <=> (\E i \in Steps(f) : queue[<<f, i>>] = "failed")
  BY <1>1
<1> QED
  BY <1>2, <1>3, Zenon DEF FlowDone, FlowStopped

\* The abstract reports are a function of the orchestrate calls.
LEMMA SameReport ==
    ASSUME UNCHANGED orch
    PROVE  FlowReport' = FlowReport
  BY DEF FlowReport

\* While a job is active, exactly the jobs in front of it are completed and no
\* job of its flow has failed.
LEMMA ActiveJob ==
    ASSUME ChainInOrder, NEW j \in JobIds, queue[j] = "active"
    PROVE  /\ j[1] \in Flows /\ j[2] \in Steps(j[1])
           /\ FlowDone[j[1]] = 1 .. j[2] - 1
           /\ FlowStopped[j[1]] = FALSE
<1> DEFINE f == j[1]
           n == j[2]
<1>1. f \in Flows /\ n \in Steps(f) /\ n \in Nat /\ n >= 1 /\ j = <<f, n>>
  BY JobIdFacts DEF Steps
<1>2. \A m \in Steps(f) : n < m =>
         queue[<<f, m>>] \notin {"wait", "active", "completed", "failed"}
  BY <1>1, ChainUse
<1>3. \A m \in 1 .. n - 1 : m \in Steps(f) /\ queue[<<f, m>>] = "completed"
  <2> TAKE m \in 1 .. n - 1
  <2>1. m \in Steps(f)
    BY <1>1, JobIdFacts DEF Steps
  <2> QED
    BY <1>1, <2>1 DEF ChainInOrder
<1> HIDE DEF f, n
<1>4. \A m \in Steps(f) : m \in 1 .. n - 1 \/ m = n \/ n < m
  BY <1>1, JobIdFacts DEF Steps
<1>5. {i \in Steps(f) : queue[<<f, i>>] = "completed"} = 1 .. n - 1
  BY <1>1, <1>2, <1>3, <1>4
<1>6. ~ \E i \in Steps(f) : queue[<<f, i>>] = "failed"
  BY <1>1, <1>2, <1>3, <1>4
<1>7. FlowDone[f] = 1 .. n - 1 /\ FlowStopped[f] = FALSE
  BY <1>1, <1>5, <1>6 DEF FlowDone, FlowStopped
<1> QED
  BY <1>1, <1>7 DEF f, n

\* The completion of an active job is the next step of the abstract flow.
LEMMA CompletionMaps ==
    ASSUME QueueTypeOK, ChainInOrder, NEW j \in JobIds, queue[j] = "active",
           MoveToCompleted(j), UNCHANGED orch
    PROVE  LF!CompleteStep(j[1])
<1> DEFINE f == j[1]
           n == j[2]
<1>1. /\ f \in Flows /\ n \in Steps(f) /\ n \in Nat /\ j = <<f, n>>
      /\ FlowDone[f] = 1 .. n - 1 /\ FlowStopped[f] = FALSE
  BY ActiveJob, JobIdFacts
<1>2. Steps(f) = LF!Steps(f)
  BY <1>1 DEF Steps, LF!Steps, FlowLength
<1>3. \A m \in Steps(f) : n < m =>
         queue[<<f, m>>] \notin {"wait", "active", "completed", "failed"}
  BY <1>1, ChainUse
<1>4. \A l \in JobIds : queue'[l] = IF l = j THEN "completed"
                           ELSE IF l = <<f, n + 1>> THEN "wait" ELSE queue[l]
  BY DEF MoveToCompleted
<1>5. \A l \in JobIds : l # j =>
         /\ queue'[l] = "completed" <=> queue[l] = "completed"
         /\ queue'[l] = "failed" <=> queue[l] = "failed"
  <2> SUFFICES ASSUME NEW l \in JobIds, l = <<f, n + 1>>
               PROVE  queue[l] \notin {"completed", "failed"}
    BY <1>4
  <2>1. l[1] = f /\ l[2] = n + 1 /\ n + 1 \in Steps(f) /\ n < n + 1
    BY <1>1, JobIdFacts
  <2> QED
    BY <1>3, <2>1
<1> HIDE DEF f, n
<1>6. \A g \in Flows : {i \in Steps(g) : queue'[<<g, i>>] = "completed"}
                 = IF g = f THEN {i \in Steps(g) : queue[<<g, i>>] = "completed"} \cup {n}
                   ELSE {i \in Steps(g) : queue[<<g, i>>] = "completed"}
  <2> TAKE g \in Flows
  <2>1. \A i \in Steps(g) : <<g, i>> \in JobIds /\ (<<g, i>> = j <=> (g = f /\ i = n))
    BY <1>1, JobIdFacts
  <2>2. \A i \in Steps(g) : queue'[<<g, i>>] = "completed"
                               <=> (queue[<<g, i>>] = "completed" \/ (g = f /\ i = n))
    BY <1>4, <1>5, <2>1
  <2> QED
    BY <1>1, <2>2
<1>7. \A g \in Flows : (\E i \in Steps(g) : queue'[<<g, i>>] = "failed")
                          <=> (\E i \in Steps(g) : queue[<<g, i>>] = "failed")
  BY <1>4, <1>5, JobIdFacts
<1>8. FlowStopped' = FlowStopped
  BY <1>7, Zenon DEF FlowStopped
<1>9. FlowDone[f] \cup {n} = 1 .. n
  BY <1>1 DEF Steps
<1>10. FlowDone' = [FlowDone EXCEPT ![f] = 1 .. n]
  <2>1. FlowDone' = [g \in Flows |-> IF g = f THEN FlowDone[f] \cup {n} ELSE FlowDone[g]]
    BY <1>1, <1>6 DEF FlowDone
  <2> QED
    BY <1>1, <1>9, <2>1 DEF FlowDone
<1>11. FlowReport' = FlowReport
  BY SameReport
<1> QED
  BY <1>1, <1>2, <1>8, <1>10, <1>11 DEF LF!CompleteStep, f, n

\* An active job that fails for good stops the abstract flow.
LEMMA FailureMaps ==
    ASSUME QueueTypeOK, ChainInOrder, NEW j \in JobIds, queue[j] = "active",
           queue' = [queue EXCEPT ![j] = "failed"], UNCHANGED orch
    PROVE  LF!FailStep(j[1])
<1> DEFINE f == j[1]
           n == j[2]
<1>1. /\ f \in Flows /\ n \in Steps(f) /\ n \in Nat /\ j = <<f, n>>
      /\ FlowDone[f] = 1 .. n - 1 /\ FlowStopped[f] = FALSE
  BY ActiveJob, JobIdFacts
<1>2. Steps(f) = LF!Steps(f)
  BY <1>1 DEF Steps, LF!Steps, FlowLength
<1>3. \A l \in JobIds : /\ queue'[l] = "completed" <=> queue[l] = "completed"
                        /\ queue'[l] = "failed" <=> (queue[l] = "failed" \/ l = j)
  BY DEF QueueTypeOK
<1> HIDE DEF f, n
<1>4. \A g \in Flows : \A i \in Steps(g) :
         /\ <<g, i>> \in JobIds
         /\ <<g, i>> = j <=> (g = f /\ i = n)
  BY <1>1, JobIdFacts
<1>5. \A g \in Flows : {i \in Steps(g) : queue'[<<g, i>>] = "completed"}
                          = {i \in Steps(g) : queue[<<g, i>>] = "completed"}
  BY <1>3, <1>4
<1>6. FlowDone' = FlowDone
  BY <1>5 DEF FlowDone
<1>7. \A g \in Flows : (\E i \in Steps(g) : queue'[<<g, i>>] = "failed")
                 <=> (g = f \/ \E i \in Steps(g) : queue[<<g, i>>] = "failed")
  BY <1>1, <1>3, <1>4
<1>8. FlowStopped' = [FlowStopped EXCEPT ![f] = TRUE]
  <2>1. \A g \in Flows : (\E i \in Steps(g) : queue'[<<g, i>>] = "failed")
             = (IF g = f THEN TRUE ELSE \E i \in Steps(g) : queue[<<g, i>>] = "failed")
    BY <1>7, Zenon
  <2> QED
    BY <1>1, <2>1, Zenon DEF FlowStopped
<1>9. FlowDone[f] # Steps(f)
  BY <1>1
<1>10. FlowReport' = FlowReport
  BY SameReport
<1> QED
  BY <1>1, <1>2, <1>6, <1>8, <1>9, <1>10 DEF LF!FailStep, f, n

\* The outcome of a call shows in the abstract report, the rest of orchestrate
\* does not.
LEMMA ReportMaps ==
    ASSUME OrchTypeOK, NEW f \in Flows,
           NEW outcome \in {"idle"} \cup InFlight \cup Outcomes,
           orch[f] \in {"idle"} \cup InFlight, orch' = [orch EXCEPT ![f] = outcome],
           FlowDone' = FlowDone, FlowStopped' = FlowStopped,
           outcome = "SUCCESS" => FlowDone[f] = Steps(f)
    PROVE  [LF!Next]_(LF!vars)
<1>1. FlowReport[f] = "NONE"
  BY DEF FlowReport, InFlight
<1>2. orch' = [g \in Flows |-> IF g = f THEN outcome ELSE orch[g]]
  BY DEF OrchTypeOK
<1>3. Steps(f) = LF!Steps(f)
  BY DEF Steps, LF!Steps, FlowLength
<1>4. CASE outcome \in {"FAILED", "THROWN"}
  <2>1. FlowReport' = [FlowReport EXCEPT ![f] = "FAILED"]
    BY <1>2, <1>4 DEF FlowReport
  <2> QED
    BY <1>1, <2>1 DEF LF!Next, LF!ReportFailed
<1>5. CASE outcome = "SUCCESS"
  <2>1. FlowReport' = [FlowReport EXCEPT ![f] = "SUCCESS"]
    BY <1>2, <1>5 DEF FlowReport
  <2> QED
    BY <1>1, <1>3, <1>5, <2>1 DEF LF!Next, LF!ReportSuccess
<1>6. CASE outcome \notin {"SUCCESS", "FAILED", "THROWN"}
  <2>1. FlowReport' = FlowReport
    BY <1>2, <1>6 DEF FlowReport, InFlight
  <2> QED
    BY <2>1 DEF LF!vars
<1> QED
  BY <1>4, <1>5, <1>6

\* What orchestrate does of a flow is a step of LinearFlow or none at all.
LEMMA CallMaps ==
    ASSUME FlowInv, NEW f \in Flows, Call(f)
    PROVE  [LF!Next]_(LF!vars)
<1>1. QueueTypeOK /\ OrchTypeOK /\ NotAddedYet /\ ResolvedMeansCompleted
  BY DEF FlowInv, ChainInv, TypeOK
<1>2. UNCHANGED queueVars \/ (AddFlow(f) /\ orch[f] = "add")
  BY DEF Call, Start, Lookup, Add, JobsAdded, AddFails, AddThrew, Subscribe, Report
<1>3. FlowDone' = FlowDone /\ FlowStopped' = FlowStopped
  <2>1. CASE UNCHANGED queueVars
    BY <2>1, SameFlows DEF queueVars
  <2>2. CASE AddFlow(f) /\ orch[f] = "add"
    <3>1. \A j \in JobIds : j[1] = f => queue[j] = "absent"
      BY <1>1, <2>2, JobIdFacts DEF NotAddedYet
    <3>2. \A j \in JobIds : /\ queue'[j] = "completed" <=> queue[j] = "completed"
                            /\ queue'[j] = "failed" <=> queue[j] = "failed"
      BY <2>2, <3>1 DEF AddFlow
    <3> QED
      BY <3>2, SameFlows
  <2> QED
    BY <1>2, <2>1, <2>2
<1>4. CASE Report(f)
  <2>1. PICK outcome \in {"SUCCESS", "FAILED"} :
           /\ orch' = [orch EXCEPT ![f] = outcome]
           /\ outcome = "SUCCESS" => \A i \in Steps(f) : waits[<<f, i>>] = "resolved"
    BY <1>4 DEF Report, Settle
  <2>2. orch[f] \in InFlight
    BY <1>4 DEF Report, Settle, InFlight
  <2>3. outcome = "SUCCESS" => FlowDone[f] = Steps(f)
    BY <1>1, <2>1, JobIdFacts DEF ResolvedMeansCompleted, FlowDone
  <2>4. outcome \in {"idle"} \cup InFlight \cup Outcomes
    BY DEF Outcomes
  <2> QED
    BY <1>1, <1>3, <2>1, <2>2, <2>3, <2>4, ReportMaps
<1>5. CASE ~Report(f)
  <2>1. PICK outcome \in InFlight \cup {"THROWN"} :
           orch' = [orch EXCEPT ![f] = outcome]
    BY <1>5 DEF Call, Start, Orchestrate, Lookup, GetJobDefinition, Add, JobsAdded,
                AddFails, AddThrew, Subscribe, WaitForJobs, InFlight
  <2>2. orch[f] \in {"idle"} \cup InFlight
    BY <1>5 DEF Call, Start, Orchestrate, Lookup, GetJobDefinition, Add, JobsAdded,
                AddFails, AddThrew, Subscribe, WaitForJobs, InFlight
  <2>3. outcome # "SUCCESS" /\ outcome \in {"idle"} \cup InFlight \cup Outcomes
    BY DEF Outcomes, InFlight
  <2> QED
    BY <1>1, <1>3, <2>1, <2>2, <2>3, ReportMaps
<1> QED
  BY <1>4, <1>5

\* A move of one job in the queue is a step of LinearFlow or none at all.
LEMMA MoveMaps ==
    ASSUME FlowInv, NEW j \in JobIds, UNCHANGED orch,
           \/ \E p \in Procs : TakeJob(p, j)
           \/ queue[j] = "active" /\ MoveToCompleted(j)
           \/ queue[j] = "active" /\ MoveToFailed(j)
           \/ FailParent(j)
           \/ RecoverStalled(j)
    PROVE  [LF!Next]_(LF!vars)
<1>1. QueueTypeOK /\ ChainInOrder
  BY DEF FlowInv, ChainInv, TypeOK
<1>2. j[1] \in Flows /\ j[2] \in Steps(j[1]) /\ j = <<j[1], j[2]>>
  BY JobIdFacts
<1>3. FlowReport' = FlowReport
  BY SameReport
<1>4. ASSUME NEW s \in {"wait", "active"}, queue' = [queue EXCEPT ![j] = s],
             queue[j] \notin {"completed", "failed"}
      PROVE  [LF!Next]_(LF!vars)
  <2>1. \A l \in JobIds : /\ queue'[l] = "completed" <=> queue[l] = "completed"
                          /\ queue'[l] = "failed" <=> queue[l] = "failed"
    BY <1>1, <1>4 DEF QueueTypeOK
  <2> QED
    BY <1>3, <2>1, SameFlows DEF LF!vars
<1>5. ASSUME queue[j] = "active", queue' = [queue EXCEPT ![j] = "failed"]
      PROVE  [LF!Next]_(LF!vars)
  BY <1>1, <1>2, <1>5, FailureMaps DEF LF!Next
<1>6. CASE \E p \in Procs : TakeJob(p, j)
  BY <1>4, <1>6 DEF TakeJob
<1>7. CASE queue[j] = "active" /\ MoveToCompleted(j)
  BY <1>1, <1>2, <1>7, CompletionMaps DEF LF!Next
<1>8. CASE queue[j] = "active" /\ MoveToFailed(j)
  BY <1>5, <1>8 DEF MoveToFailed
<1>9. CASE FailParent(j)
  <2>1. /\ queue[j] = "waiting-children" /\ j[2] - 1 \in Steps(j[1])
        /\ queue[<<j[1], j[2] - 1>>] = "failed" /\ queue' = [queue EXCEPT ![j] = "failed"]
    BY <1>2, <1>9, JobIdFacts DEF FailParent, Steps
  <2>2. \A g \in Flows : \A i \in Steps(g) :
           /\ queue'[<<g, i>>] = "completed" <=> queue[<<g, i>>] = "completed"
           /\ queue'[<<g, i>>] = "failed" <=>
                (queue[<<g, i>>] = "failed" \/ (g = j[1] /\ i = j[2]))
    BY <1>1, <1>2, <2>1, JobIdFacts DEF QueueTypeOK
  <2>3. \A g \in Flows : (\E i \in Steps(g) : queue'[<<g, i>>] = "failed")
                            <=> (\E i \in Steps(g) : queue[<<g, i>>] = "failed")
    BY <1>2, <2>1, <2>2
  <2>4. FlowStopped' = FlowStopped
    BY <2>3, Zenon DEF FlowStopped
  <2>5. \A g \in Flows : {i \in Steps(g) : queue'[<<g, i>>] = "completed"}
                            = {i \in Steps(g) : queue[<<g, i>>] = "completed"}
    BY <2>2
  <2>6. FlowDone' = FlowDone
    BY <2>5, Zenon DEF FlowDone
  <2> QED
    BY <1>3, <2>4, <2>6 DEF LF!vars
<1>10. CASE RecoverStalled(j)
  BY <1>4, <1>5, <1>10 DEF RecoverStalled
<1> QED
  BY <1>6, <1>7, <1>8, <1>9, <1>10

\* Every step of the engine is a step of LinearFlow or leaves it unchanged.
LEMMA NextMaps == FlowInv /\ [Next]_vars => [LF!Next]_(LF!vars)
<1> SUFFICES ASSUME FlowInv, [Next]_vars PROVE [LF!Next]_(LF!vars)
  OBVIOUS
<1>1. ASSUME UNCHANGED <<queue, orch>>
      PROVE  [LF!Next]_(LF!vars)
  BY <1>1, SameFlows, SameReport DEF LF!vars
<1>2. CASE \E f \in Flows : Call(f)
  BY <1>2, CallMaps
<1>3. ASSUME NEW p \in Procs, Worker(p)
      PROVE  [LF!Next]_(LF!vars)
  <2>1. CASE UNCHANGED queueVars
    BY <1>1, <1>3, <2>1 DEF Worker, Take, Dispatch, Ack, queueVars, orchVars
  <2>2. CASE \E j \in JobIds : Take(p, j)
    BY <2>2, MoveMaps DEF Take, orchVars
  <2>3. CASE Ack(p) /\ ~ UNCHANGED queueVars
    <3>1. exec[p].job \in JobIds
      BY <2>3 DEF Ack, FlowInv, ChainInv, TypeOK, DispatcherTypeOK, CallType, Idle
    <3>2. \/ queue[exec[p].job] = "active" /\ MoveToCompleted(exec[p].job)
          \/ queue[exec[p].job] = "active" /\ MoveToFailed(exec[p].job)
      BY <2>3 DEF Ack, HoldsLock
    <3> QED
      BY <2>3, <3>1, <3>2, MoveMaps DEF Ack, orchVars
  <2> QED
    BY <1>3, <2>1, <2>2, <2>3 DEF Worker, Dispatch
<1>4. ASSUME NEW p \in Procs, Crash(p)
      PROVE  [LF!Next]_(LF!vars)
  <2>1. FlowReport' = FlowReport
    BY <1>4 DEF Crash, LoseCalls, FlowReport, InFlight
  <2>2. FlowDone' = FlowDone /\ FlowStopped' = FlowStopped
    BY <1>4, SameFlows DEF Crash, queueVars
  <2> QED
    BY <2>1, <2>2 DEF LF!vars
<1>5. ASSUME NEW j \in JobIds, Bull(j)
      PROVE  [LF!Next]_(LF!vars)
  <2>1. CASE Check(j) \/ Deliver(j)
    BY <1>1, <2>1 DEF Check, CheckFinished, Deliver, DeliverEvent, queueVars
  <2>2. CASE FailChain(j) \/ Stall(j)
    BY <2>2, MoveMaps DEF FailChain, Stall, orchVars
  <2> QED
    BY <1>5, <2>1, <2>2 DEF Bull
<1>6. CASE UNCHANGED vars
  BY <1>1, <1>6 DEF vars, queueVars, orchVars
<1> QED
  BY <1>2, <1>3, <1>4, <1>5, <1>6 DEF Next

\* The engine starts as LinearFlow does: nothing done, stopped or reported.
LEMMA InitMaps == Init => LF!Init
<1> SUFFICES ASSUME Init PROVE LF!Init
  OBVIOUS
<1>1. \A f \in Flows : \A i \in Steps(f) : queue[<<f, i>>] = "absent"
  BY JobIdFacts DEF Init, QueueInit
<1>2. \A f \in Flows : {i \in Steps(f) : queue[<<f, i>>] = "completed"} = {}
  BY <1>1
<1>3. \A f \in Flows : (\E i \in Steps(f) : queue[<<f, i>>] = "failed") <=> FALSE
  BY <1>1
<1>4. FlowDone = [f \in Flows |-> {}]
  BY <1>2 DEF FlowDone
<1>5. FlowStopped = [f \in Flows |-> FALSE]
  BY <1>3, Zenon DEF FlowStopped
<1>6. FlowReport = [f \in Flows |-> "NONE"]
  BY DEF Init, OrchInit, FlowReport
<1> QED
  BY <1>4, <1>5, <1>6 DEF LF!Init

\* The engine carries every flow out as LinearFlow promises: step by step, never
\* past a failure, and SUCCESS means that every step was done.
THEOREM EngineImplementsLinearFlow == Spec => ImplementsLinearFlow
<1> QED
  BY AlwaysFlowInv, InitMaps, NextMaps, PTL DEF Spec, ImplementsLinearFlow, LF!Spec
===============================================================================
