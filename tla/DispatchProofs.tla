---------------------------- MODULE DispatchProofs ----------------------------
(***************************************************************************)
(* Theorems about the dispatch calls and the JOB_INSTANCE rows they write, *)
(* for any flows, processes and bounds.  The first four sections hold      *)
(* under every crash and every lost lock; the sections "locks held" are    *)
(* about workers that keep the lock of the job they run.                   *)
(***************************************************************************)
EXTENDS EngineProofs

-------------------------------------------------------------------------------
(* What a dispatch call does, and which rows it writes *)

\* A process that is not idle is in a dispatch call of some job.
LEMMA RunningCall ==
    ASSUME TypeOK, NEW p \in Procs, Running(p)
    PROVE  exec[p] \in CallType /\ exec[p].job \in JobIds
  BY DEF TypeOK, DispatcherTypeOK, Running, CallType

\* The call steps of the dispatcher do not change which job a process is in.
LEMMA DispatchKeepsJob ==
    ASSUME TypeOK, NEW p \in Procs, Dispatch(p)
    PROVE  /\ Running(p)
           /\ \A q \in Procs : /\ Running(q)' => /\ Running(q) /\ exec'[q].job = exec[q].job
                                                 /\ exec'[q].startedAt = exec[q].startedAt
                               /\ q # p => exec'[q] = exec[q]
           /\ UNCHANGED <<queueVars, orchVars>>
<1> DEFINE Moved(pc) == exec' = [exec EXCEPT ![p].pc = pc]
           Given(d) == exec' = [exec EXCEPT ![p].pc = "start", ![p].input = d]
<1>1. /\ exec[p].pc \in {"read", "start", "run", "succeed", "fail"}
      /\ (\E pc \in CallPCs : Moved(pc)) \/ (\E d \in {NextData(exec[p].job[1])} : Given(d))
  <2>1. CASE ReadNextData(p)
    BY <2>1 DEF ReadNextData, Goto, CallPCs
  <2>2. CASE MarkRunning(p) \/ RunHandler(p)
    BY <2>2 DEF MarkRunning, RunHandler, TryFails, Goto, CallPCs
  <2>3. CASE MarkSuccess(p) \/ MarkFailed(p)
    BY <2>3 DEF MarkSuccess, MarkFailed, TryFails, Goto, CallPCs
  <2> QED
    BY <2>1, <2>2, <2>3 DEF Dispatch, DispatchStep
<1>2. Running(p)
  BY <1>1 DEF Running, Idle
<1>3. exec[p] \in CallType
  BY <1>2, RunningCall
<1>4. /\ exec'[p].job = exec[p].job /\ exec'[p].startedAt = exec[p].startedAt
      /\ \A q \in Procs : q # p => exec'[q] = exec[q]
  BY <1>1, <1>3 DEF TypeOK, DispatcherTypeOK, CallType
<1> QED
  BY <1>2, <1>4 DEF Running, Dispatch

\* A call of the dispatcher that goes on has a job of its own, and one that has
\* not marked its row yet has written nothing.
LEMMA DispatchProgress ==
    ASSUME TypeOK, NEW p \in Procs, Dispatch(p)
    PROVE  /\ Running(p)'
           /\ exec'[p].pc \in {"read", "start"} => UNCHANGED rows
<1>1. Running(p) /\ exec[p] \in CallType
  BY DispatchKeepsJob, RunningCall
<1>2. CASE ReadNextData(p)
  BY <1>1, <1>2 DEF ReadNextData, Goto, Running, Idle, CallType, TypeOK, DispatcherTypeOK
<1>3. CASE MarkRunning(p) \/ RunHandler(p)
  BY <1>1, <1>3 DEF MarkRunning, RunHandler, TryFails, Goto, Running, Idle, CallType, TypeOK,
                    DispatcherTypeOK
<1>4. CASE MarkSuccess(p) \/ MarkFailed(p)
  BY <1>1, <1>4 DEF MarkSuccess, MarkFailed, TryFails, Goto, Running, Idle, CallType, TypeOK,
                    DispatcherTypeOK
<1> QED
  BY <1>2, <1>3, <1>4 DEF Dispatch, DispatchStep

\* What a worker does when it takes a job.
LEMMA TakeFacts ==
    ASSUME TypeOK, NEW p \in Procs, NEW j \in JobIds, Take(p, j)
    PROVE  /\ queue[j] = "wait" /\ UNCHANGED rows
           /\ exec'[p].job = j /\ exec'[p].pc = "read"
           /\ exec'[p].startedAt = ticks[j[1]] + 1
           /\ ticks' = [ticks EXCEPT ![j[1]] = @ + 1]
  BY DEF Take, TakeJob, BeginDispatch, TypeOK, DispatcherTypeOK

\* A dispatch call in progress goes on with its job, or has just taken one.
LEMMA CallsGoOn ==
    ASSUME TypeOK, [Next]_vars, NEW p \in Procs, Running(p)'
    PROVE  \/ Running(p) /\ exec'[p] = exec[p]
           \/ /\ Running(p) /\ Dispatch(p)
              /\ exec'[p].job = exec[p].job /\ exec'[p].startedAt = exec[p].startedAt
           \/ \E j \in JobIds : Take(p, j)
<1>1. CASE UNCHANGED exec
  BY <1>1 DEF Running
<1>2. ASSUME NEW q \in Procs, Worker(q) \/ Crash(q)
      PROVE  \/ Running(p) /\ exec'[p] = exec[p]
             \/ /\ Running(p) /\ Dispatch(p)
                /\ exec'[p].job = exec[p].job /\ exec'[p].startedAt = exec[p].startedAt
             \/ \E j \in JobIds : Take(p, j)
  <2>1. CASE Dispatch(q)
    BY <2>1, DispatchKeepsJob
  <2>2. CASE Ack(q) \/ Crash(q)
    BY <2>2 DEF Ack, Crash, EndDispatch, Running, TypeOK, DispatcherTypeOK
  <2>3. ASSUME NEW j \in JobIds, Take(q, j)
        PROVE  (Running(p) /\ exec'[p] = exec[p]) \/ Take(p, j)
    BY <2>3 DEF Take, BeginDispatch, Running, TypeOK, DispatcherTypeOK
  <2> QED
    BY <1>2, <2>1, <2>2, <2>3 DEF Worker
<1> QED
  BY <1>1, <1>2 DEF Next, vars, Call, Start, Lookup, Add, AddFails, Subscribe, Report, Bull,
                    Check, Deliver, FailChain, Stall, dispatcherVars

\* A dispatch call resolves only right after it wrote its row.
LEMMA ResolvedByMarkSuccess ==
    ASSUME TypeOK, [Next]_vars, NEW p \in Procs, Running(p)', exec'[p].pc = "resolved",
           exec'[p] # exec[p]
    PROVE  Running(p) /\ exec'[p].job = exec[p].job /\ UpsertRow(p, "SUCCESS")
<1>1. TypeOK
  OBVIOUS
<1>2. PICK q \in Procs : Worker(q) \/ Crash(q)
  BY DEF Next, vars, Call, Start, Lookup, Add, AddFails, Subscribe, Report, Bull, Check,
         Deliver, FailChain, Stall, dispatcherVars
<1>3. ~ (Ack(q) \/ Crash(q) \/ \E j \in JobIds : Take(q, j))
  BY <1>1 DEF Ack, Crash, EndDispatch, Take, BeginDispatch, Running, Idle, TypeOK,
              DispatcherTypeOK
<1>4. Dispatch(q)
  BY <1>2, <1>3 DEF Worker
<1>5. q = p /\ Running(p) /\ exec'[p].job = exec[p].job
  BY <1>4, <1>1, DispatchKeepsJob
<1>6. exec[p] \in CallType
  BY <1>1, <1>5, RunningCall
<1>7. ~ (ReadNextData(p) \/ MarkRunning(p) \/ RunHandler(p) \/ MarkFailed(p))
  BY <1>1, <1>6 DEF ReadNextData, MarkRunning, RunHandler, MarkFailed, TryFails, Goto,
                    CallType, TypeOK, DispatcherTypeOK
<1>8. MarkSuccess(p)
  BY <1>4, <1>5, <1>7 DEF Dispatch, DispatchStep
<1>9. ~ Goto(p, "fail")
  BY <1>1, <1>6 DEF Goto, CallType, TypeOK, DispatcherTypeOK
<1> QED
  BY <1>5, <1>8, <1>9 DEF MarkSuccess, TryFails

\* Only the read of getNextData gives a dispatch call its input.
LEMMA StartedByRead ==
    ASSUME TypeOK, [Next]_vars, NEW p \in Procs, Running(p)', exec'[p].pc = "start",
           exec'[p] # exec[p]
    PROVE  /\ Running(p) /\ exec'[p].job = exec[p].job
           /\ exec'[p].input = NextData(exec[p].job[1])
<1>1. ~ \E j \in JobIds : Take(p, j)
  BY TakeFacts
<1>2. Running(p) /\ Dispatch(p) /\ exec'[p].job = exec[p].job
  BY <1>1, CallsGoOn
<1>3. exec[p] \in CallType
  BY <1>2, RunningCall
<1>4. ~ (MarkRunning(p) \/ RunHandler(p) \/ MarkSuccess(p) \/ MarkFailed(p))
  BY <1>3 DEF MarkRunning, RunHandler, MarkSuccess, MarkFailed, TryFails, Goto, CallType,
              TypeOK, DispatcherTypeOK
<1>5. ReadNextData(p)
  BY <1>2, <1>4 DEF Dispatch, DispatchStep
<1>6. ~ Goto(p, "fail")
  BY <1>3 DEF Goto, CallType, TypeOK, DispatcherTypeOK
<1>7. exec' = [exec EXCEPT ![p].pc = "start", ![p].input = NextData(exec[p].job[1])]
  BY <1>5, <1>6 DEF ReadNextData
<1> QED
  BY <1>2, <1>3, <1>7 DEF CallType, TypeOK, DispatcherTypeOK

\* A job becomes completed only when a dispatch call of it resolved.
LEMMA CompletedByAck ==
    ASSUME TypeOK, [Next]_vars, NEW j \in JobIds,
           queue[j] # "completed", queue'[j] = "completed"
    PROVE  /\ UNCHANGED rows
           /\ \E p \in Procs : Running(p) /\ exec[p].pc = "resolved" /\ exec[p].job = j
<1>1. TypeOK /\ QueueTypeOK
  BY DEF TypeOK
<1>2. ~ \E f \in Flows : Call(f)
  BY DEF Call, Start, Lookup, Add, AddFails, Subscribe, Report, AddFlow, queueVars
<1>3. ~ \E k \in JobIds : Bull(k)
  BY <1>1 DEF Bull, Check, Deliver, FailChain, FailParent, Stall, RecoverStalled, queueVars,
              QueueTypeOK
<1>4. ~ \E p \in Procs : Crash(p) \/ Dispatch(p) \/ \E k \in JobIds : Take(p, k)
  BY <1>1 DEF Crash, Dispatch, Take, TakeJob, queueVars, QueueTypeOK
<1>5. PICK p \in Procs : Ack(p)
  BY <1>2, <1>3, <1>4 DEF Next, Worker, vars, queueVars
<1>6. Running(p)
  BY <1>5 DEF Ack, Running, Idle
<1>7. exec[p].job \in JobIds
  BY <1>1, <1>6, RunningCall
<1>8. exec[p].pc = "resolved" /\ exec[p].job = j
  BY <1>1, <1>5, <1>7 DEF Ack, MoveToCompleted, MoveToFailed, queueVars, QueueTypeOK
<1> QED
  BY <1>5, <1>6, <1>8 DEF Ack, EndDispatch

\* In a definition without repeated names, a row belongs to one job only.
LEMMA OneJobPerRow ==
    ASSUME NEW j \in JobIds, NEW k \in JobIds, Distinct(j[1]), RowKey(j) = RowKey(k)
    PROVE  j = k
<1>1. /\ j[2] \in Steps(j[1]) /\ j = <<j[1], j[2]>>
      /\ k[2] \in Steps(k[1]) /\ k = <<k[1], k[2]>>
  BY JobIdFacts
<1>2. j[1] = k[1] /\ StepList[j[1]][j[2]] = StepList[k[1]][k[2]]
  BY DEF RowKey, Name
<1> QED
  BY <1>1, <1>2 DEF Distinct

\* Only the dispatch call of a job writes rows, and only the row of that job.
LEMMA RowsWritten ==
    ASSUME TypeOK, [Next]_vars, ~UNCHANGED rows
    PROVE  \E p \in Procs : /\ Running(p) /\ Dispatch(p)
                            /\ \A r \in Flows \X StepNames :
                                  r # RowKey(exec[p].job) => rows'[r] = rows[r]
<1>1. PICK p \in Procs : Dispatch(p)
  BY DEF Next, vars, Call, Start, Lookup, Add, AddFails, Subscribe, Report, Worker, Take,
         BeginDispatch, Ack, EndDispatch, Crash, Bull, Check, Deliver, FailChain, Stall,
         dispatcherVars
<1>2. Running(p)
  BY <1>1, DispatchKeepsJob
<1>3. ASSUME NEW s \in {"RUNNING", "SUCCESS", "FAILED"}, UpsertRow(p, s),
             NEW r \in Flows \X StepNames, r # RowKey(exec[p].job)
      PROVE  rows'[r] = rows[r]
  BY <1>3 DEF UpsertRow, TypeOK, DispatcherTypeOK
<1>4. \E s \in {"RUNNING", "SUCCESS", "FAILED"} : UpsertRow(p, s)
  BY <1>1 DEF Dispatch, DispatchStep, ReadNextData, MarkRunning, RunHandler, MarkSuccess,
              MarkFailed, TryFails
<1> QED
  BY <1>1, <1>2, <1>3, <1>4

\* What a dispatch call writes, and where.
LEMMA RowWritten ==
    ASSUME TypeOK, [Next]_vars, NEW r \in Flows \X StepNames, rows'[r] # rows[r]
    PROVE  \E p \in Procs : \E s \in {"RUNNING", "SUCCESS", "FAILED"} :
              /\ Running(p) /\ Dispatch(p) /\ exec[p].job \in JobIds /\ r = RowKey(exec[p].job)
              /\ rows'[r] = Upsert(rows[r], s, exec[p].job[2], exec[p].startedAt)
<1>1. PICK p \in Procs : /\ Running(p) /\ Dispatch(p)
                         /\ \A q \in Flows \X StepNames :
                               q # RowKey(exec[p].job) => rows'[q] = rows[q]
  BY RowsWritten
<1>2. exec[p].job \in JobIds /\ r = RowKey(exec[p].job)
  BY <1>1, RunningCall
<1>3. \E s \in {"RUNNING", "SUCCESS", "FAILED"} : UpsertRow(p, s)
  BY <1>1 DEF Dispatch, DispatchStep, ReadNextData, MarkRunning, RunHandler, MarkSuccess,
              MarkFailed, TryFails
<1>4. r \in DOMAIN rows
  BY DEF TypeOK, DispatcherTypeOK
<1> QED
  BY <1>1, <1>2, <1>3, <1>4 DEF UpsertRow

\* The dispatcher has written the row of j.
HasRow(j) == rows[RowKey(j)] # NoRow

\* In a definition without repeated names it is the job's own call that writes.
LEMMA JobRowWritten ==
    ASSUME TypeOK, [Next]_vars, NEW j \in JobIds, Distinct(j[1]),
           rows'[RowKey(j)] # rows[RowKey(j)]
    PROVE  \E p \in Procs : \E s \in {"RUNNING", "SUCCESS", "FAILED"} :
              /\ Running(p) /\ Dispatch(p) /\ exec[p].job = j
              /\ rows'[RowKey(j)] = Upsert(rows[RowKey(j)], s, j[2], exec[p].startedAt)
  BY RowWritten, JobIdFacts, OneJobPerRow

\* A row that is there stays there.
LEMMA RowStays ==
    ASSUME TypeOK, [Next]_vars, NEW j \in JobIds, Distinct(j[1]), HasRow(j)
    PROVE  HasRow(j)'
<1>1. CASE rows'[RowKey(j)] = rows[RowKey(j)]
  BY <1>1 DEF HasRow, RowKey, Name
<1>2. CASE rows'[RowKey(j)] # rows[RowKey(j)]
  <2>1. PICK p \in Procs, s \in {"RUNNING", "SUCCESS", "FAILED"} :
           rows'[RowKey(j)] = Upsert(rows[RowKey(j)], s, j[2], exec[p].startedAt)
    BY <1>2, JobRowWritten
  <2>2. rows'[RowKey(j)].state # "NONE"
    BY <2>1 DEF Upsert
  <2> QED
    BY <2>2 DEF HasRow, RowKey, Name, NoRow
<1> QED
  BY <1>1, <1>2

-------------------------------------------------------------------------------
(* No step starts before the ones in front of it are completed *)

\* Every step in front of j is completed.
Reached(j) == \A k \in 1 .. j[2] - 1 : queue[<<j[1], k>>] = "completed"

\* A step is only dispatched, and only leaves a row, behind completed steps.
StartedInOrder ==
    /\ \A p \in Procs : Running(p) => Reached(exec[p].job)
    /\ \A j \in JobIds : Distinct(j[1]) /\ HasRow(j) => Reached(j)

\* A completed job stays completed, whatever the engine does.
LEMMA CompletedStays ==
    ASSUME FlowInv, [Next]_vars, NEW l \in JobIds, queue[l] = "completed"
    PROVE  queue'[l] = "completed"
<1>1. TypeOK /\ QueueTypeOK /\ ChainInOrder /\ NotAddedYet
  BY DEF FlowInv, ChainInv, TypeOK
<1>2. ASSUME NEW j \in JobIds,
             \/ \E p \in Procs : TakeJob(p, j)
             \/ queue[j] = "active" /\ MoveToCompleted(j)
             \/ queue[j] = "active" /\ MoveToFailed(j)
             \/ FailParent(j)
             \/ RecoverStalled(j)
      PROVE  queue'[l] = "completed"
  BY <1>1, <1>2, CompletedIsStable
<1>3. ASSUME NEW f \in Flows, Call(f)
      PROVE  queue'[l] = "completed"
  <2>1. CASE UNCHANGED queueVars
    BY <2>1 DEF queueVars
  <2>2. CASE AddFlow(f) /\ orch[f] = "add"
    <3>1. l[1] # f
      BY <1>1, <2>2, JobIdFacts DEF NotAddedYet
    <3> QED
      BY <2>2, <3>1 DEF AddFlow
  <2> QED
    BY <1>3, <2>1, <2>2
    DEF Call, Start, Lookup, Add, JobsAdded, AddFails, AddThrew, Subscribe, Report
<1>4. ASSUME NEW p \in Procs, Worker(p)
      PROVE  queue'[l] = "completed"
  <2>1. CASE UNCHANGED queueVars
    BY <2>1 DEF queueVars
  <2>2. CASE \E j \in JobIds : Take(p, j)
    BY <1>2, <2>2 DEF Take
  <2>3. CASE Ack(p) /\ ~ UNCHANGED queueVars
    <3>1. exec[p].job \in JobIds
      BY <1>1, <2>3 DEF Ack, TypeOK, DispatcherTypeOK, CallType, Idle
    <3> QED
      BY <1>2, <2>3, <3>1 DEF Ack, HoldsLock
  <2> QED
    BY <1>4, <2>1, <2>2, <2>3 DEF Worker, Dispatch
<1>5. ASSUME NEW j \in JobIds, Bull(j)
      PROVE  queue'[l] = "completed"
  BY <1>2, <1>5 DEF Bull, Check, Deliver, FailChain, Stall, queueVars
<1> QED
  BY <1>3, <1>4, <1>5 DEF Next, Crash, vars, queueVars

\* Every step keeps the order of the first attempts.
LEMMA NextStartedInOrder ==
    FlowInv /\ StartedInOrder /\ [Next]_vars => StartedInOrder'
<1> SUFFICES ASSUME FlowInv, StartedInOrder, [Next]_vars PROVE StartedInOrder'
  OBVIOUS
<1>1. TypeOK /\ ChainInOrder
  BY DEF FlowInv, ChainInv
<1>2. ASSUME NEW j \in JobIds, Reached(j)
      PROVE  Reached(j)'
  <2>1. ASSUME NEW k \in 1 .. j[2] - 1
        PROVE  queue'[<<j[1], k>>] = "completed"
    <3>1. <<j[1], k>> \in JobIds
      BY JobIdFacts DEF Steps
    <3> QED
      BY <1>2, <3>1, CompletedStays DEF Reached
  <2> QED
    BY <2>1 DEF Reached
<1>3. ASSUME NEW p \in Procs, Running(p)'
      PROVE  Reached(exec[p].job)'
  <2>1. CASE Running(p) /\ exec'[p].job = exec[p].job
    <3>1. exec[p].job \in JobIds /\ Reached(exec[p].job)
      BY <1>1, <2>1, RunningCall DEF StartedInOrder
    <3> QED
      BY <1>2, <2>1, <3>1 DEF Reached
  <2>2. ASSUME NEW j \in JobIds, Take(p, j)
        PROVE  Reached(exec[p].job)'
    <3>1. exec'[p].job = j /\ queue[j] = "wait"
      BY <1>1, <2>2 DEF Take, BeginDispatch, TakeJob, TypeOK, DispatcherTypeOK
    <3>2. Reached(j)
      BY <1>1, <3>1, JobIdFacts DEF Reached, ChainInOrder
    <3> QED
      BY <1>2, <3>1, <3>2 DEF Reached
  <2> QED
    BY <1>1, <1>3, <2>1, <2>2, CallsGoOn
<1>4. ASSUME NEW j \in JobIds, Distinct(j[1]), HasRow(j)'
      PROVE  Reached(j)'
  <2>1. CASE HasRow(j)
    BY <1>2, <1>4, <2>1 DEF StartedInOrder
  <2>2. CASE ~HasRow(j)
    <3>1. rows'[RowKey(j)] # rows[RowKey(j)]
      BY <1>4, <2>2 DEF HasRow, RowKey, Name
    <3>2. PICK p \in Procs : Running(p) /\ exec[p].job = j
      BY <1>1, <1>4, <3>1, JobRowWritten
    <3> QED
      BY <1>2, <3>2 DEF StartedInOrder
  <2> QED
    BY <2>1, <2>2
<1> QED
  BY <1>3, <1>4 DEF StartedInOrder, Distinct, Steps

\* No reachable state has a step that started out of order.
LEMMA AlwaysStartedInOrder == Spec => []StartedInOrder
<1>1. Init => StartedInOrder
  BY JobIdFacts DEF Init, DispatcherInit, StartedInOrder, Running, HasRow
<1> QED
  BY <1>1, AlwaysFlowInv, NextStartedInOrder, PTL DEF Spec

\* After a step failed for good, no later step has left a row
\* (failParentOnFailure), not even through an attempt that lost its lock.
THEOREM NothingBehindAFailedStep == Spec => []FailedStepStopsFlow
<1>1. ASSUME FlowInv, StartedInOrder PROVE FailedStepStopsFlow
  <2> SUFFICES ASSUME NEW f \in Flows, NEW i \in Steps(f), NEW k \in Steps(f), Distinct(f),
                      queue[<<f, i>>] = "failed", k > i, rows[<<f, StepList[f][k]>>] # NoRow
               PROVE  FALSE
    BY DEF FailedStepStopsFlow
  <2>1. <<f, k>> \in JobIds /\ HasRow(<<f, k>>)
    BY JobIdFacts DEF HasRow, RowKey, Name
  <2>2. i \in 1 .. k - 1
    BY JobIdFacts DEF Steps
  <2> QED
    BY <1>1, <2>1, <2>2 DEF StartedInOrder, Reached
<1> QED
  BY <1>1, AlwaysFlowInv, AlwaysStartedInOrder, PTL

-------------------------------------------------------------------------------
(* The data of a first attempt *)

\* When the row of j says it started.
Stamp(j) == rows[RowKey(j)].startedAt

\* A row that is absent is empty, and one that is there is that of a step.
RowsHaveSteps ==
    \A f \in Flows : \A n \in StepNames :
        /\ rows[<<f, n>>].state = "NONE" => rows[<<f, n>>] = NoRow
        /\ rows[<<f, n>>] # NoRow => \E i \in Steps(f) : n = StepList[f][i]

\* The result of j is in its row.
Recorded(j) == HasRow(j) /\ rows[RowKey(j)].result = j[2]

\* A completed step has left its result; no later attempt takes it away.
ResultsStay ==
    /\ \A p \in Procs :
          Running(p) /\ exec[p].pc = "resolved" /\ Distinct(exec[p].job[1])
              => Recorded(exec[p].job)
    /\ \A j \in JobIds : Distinct(j[1]) /\ queue[j] = "completed" => Recorded(j)

\* The clock of a flow is never behind a stamp.
StampsArePast ==
    /\ \A p \in Procs : Running(p) => exec[p].startedAt =< ticks[exec[p].job[1]]
    /\ \A f \in Flows : \A n \in StepNames : rows[<<f, n>>].startedAt =< ticks[f]

\* The row of a step is older than every dispatch call and row of a later one.
StampsInOrder ==
    /\ \A p \in Procs : Running(p) /\ Distinct(exec[p].job[1]) =>
          \A k \in 1 .. exec[p].job[2] - 1 :
             Stamp(<<exec[p].job[1], k>>) < exec[p].startedAt
    /\ \A j \in JobIds : Distinct(j[1]) /\ HasRow(j) =>
          \A k \in 1 .. j[2] - 1 : Stamp(<<j[1], k>>) < Stamp(j)

\* What getNextData relies on, together.
DataInv ==
    /\ FlowInv
    /\ StartedInOrder
    /\ RowsHaveSteps
    /\ ResultsStay
    /\ StampsArePast
    /\ StampsInOrder
    /\ FirstAttemptGetsPreviousResult

\* The parts of DataInv, for the proofs that need a few of them.
LEMMA DataInvUse ==
    ASSUME DataInv
    PROVE  /\ TypeOK /\ ChainInOrder /\ StartedInOrder /\ RowsHaveSteps /\ ResultsStay
           /\ StampsArePast /\ StampsInOrder /\ FirstAttemptGetsPreviousResult /\ FlowInv
  BY DEF DataInv, FlowInv, ChainInv

\* The steps in front of a reached job are completed, and their results are there.
LEMMA StepsBefore ==
    ASSUME DataInv, NEW j \in JobIds, Distinct(j[1]), Reached(j), NEW k \in 1 .. j[2] - 1
    PROVE  /\ <<j[1], k>> \in JobIds /\ k \in Steps(j[1])
           /\ Recorded(<<j[1], k>>)
<1>1. <<j[1], k>> \in JobIds /\ k \in Steps(j[1])
  BY JobIdFacts DEF Steps
<1> QED
  BY <1>1 DEF Reached, DataInv, ResultsStay

\* getNextData in front of the first row of a step: the row that started last is
\* that of the step before it.
LEMMA NextDataIsPrevious ==
    ASSUME DataInv, NEW j \in JobIds, Distinct(j[1]), Reached(j), ~HasRow(j)
    PROVE  NextData(j[1]) = j[2] - 1
<1> DEFINE f == j[1]
           name(i) == StepList[f][i]
           started == {n \in StepNames : rows[<<f, n>>].state # "NONE"}
           last == {n \in started :
                      \A m \in started : rows[<<f, m>>].startedAt =< rows[<<f, n>>].startedAt}
<1>1. /\ f \in Flows /\ j[2] \in Nat /\ j[2] >= 1 /\ j = <<f, j[2]>> /\ Len(StepList[f]) \in Nat
      /\ j[2] =< Len(StepList[f])
  BY JobIdFacts DEF Steps
<1>2. ASSUME NEW n \in started
      PROVE  \E i \in 1 .. j[2] - 1 : n = name(i)
  <2>1. rows[<<f, n>>] # NoRow
    BY DEF NoRow
  <2>2. PICK i \in Steps(f) : n = name(i)
    BY <1>1, <2>1 DEF DataInv, RowsHaveSteps
  <2>3. <<f, i>> \in JobIds /\ HasRow(<<f, i>>)
    BY <1>1, <2>1, <2>2, JobIdFacts DEF HasRow, RowKey, Name
  <2>4. Reached(<<f, i>>)
    BY <2>3 DEF DataInv, StartedInOrder
  <2>5. ~(j[2] < i)
    <3> SUFFICES ASSUME j[2] < i PROVE FALSE
      OBVIOUS
    <3>1. j[2] \in 1 .. i - 1
      BY <1>1, <2>2 DEF Steps
    <3>2. queue[j] = "completed"
      BY <1>1, <2>4, <3>1 DEF Reached
    <3> QED
      BY <3>2 DEF DataInv, ResultsStay, Recorded
  <2>6. i # j[2]
    BY <1>1, <2>3
  <2> QED
    BY <1>1, <2>2, <2>5, <2>6 DEF Steps
<1>3. ASSUME NEW i \in 1 .. j[2] - 1
      PROVE  /\ name(i) \in started /\ rows[<<f, name(i)>>].result = i
             /\ <<f, i>> \in JobIds /\ HasRow(<<f, i>>)
  <2>1. <<f, i>> \in JobIds /\ Recorded(<<f, i>>)
    BY StepsBefore
  <2>2. name(i) \in StepNames /\ rows[<<f, name(i)>>] # NoRow
    BY <2>1, JobIdFacts DEF Recorded, HasRow, RowKey, Name
  <2>3. rows[<<f, name(i)>>].state # "NONE"
    BY <1>1, <2>2 DEF DataInv, RowsHaveSteps
  <2>4. rows[<<f, name(i)>>].result = i /\ HasRow(<<f, i>>)
    BY <2>1 DEF Recorded, RowKey, Name
  <2> QED
    BY <2>1, <2>2, <2>3, <2>4
<1>4. NextData(f) = IF last = {} THEN 0 ELSE rows[<<f, CHOOSE n \in last : TRUE>>].result
  BY DEF NextData
<1>5. CASE j[2] = 1
  <2>1. started = {}
    BY <1>2, <1>5
  <2>2. last = {}
    BY <2>1
  <2> HIDE DEF last
  <2> QED
    BY <1>4, <1>5, <2>2
<1>6. CASE j[2] > 1
  <2> DEFINE i == j[2] - 1
  <2>0. i \in 1 .. j[2] - 1
    BY <1>1, <1>6
  <2>1. i \in 1 .. j[2] - 1 /\ name(i) \in started
    <3> HIDE DEF started, name, i
    <3> QED
      BY <1>3, <2>0
  <2>2. ASSUME NEW k \in 1 .. i - 1
        PROVE  rows[<<f, name(k)>>].startedAt < rows[<<f, name(i)>>].startedAt
    <3>1. <<f, i>> \in JobIds /\ HasRow(<<f, i>>)
      BY <2>1, <1>3
    <3> QED
      BY <1>1, <3>1 DEF DataInv, StampsInOrder, Stamp, RowKey, Name
  <2>3. ASSUME NEW n \in started
        PROVE  rows[<<f, n>>].startedAt \in Nat
    BY <1>1 DEF DataInv, FlowInv, ChainInv, TypeOK, DispatcherTypeOK, RowType
  <2>4. name(i) \in last
    <3>1. ASSUME NEW m \in started
          PROVE  rows[<<f, m>>].startedAt =< rows[<<f, name(i)>>].startedAt
      <4>1. PICK k \in 1 .. j[2] - 1 : m = name(k)
        BY <1>2
      <4>2. k = i \/ k \in 1 .. i - 1
        BY <1>1
      <4> QED
        BY <2>1, <2>2, <2>3, <4>1, <4>2
    <3> QED
      BY <2>1, <3>1
  <2>5. ASSUME NEW n \in last PROVE n = name(i)
    <3>1. PICK k \in 1 .. j[2] - 1 : n = name(k)
      BY <1>2
    <3>2. k = i \/ k \in 1 .. i - 1
      BY <1>1
    <3>3. ~(k \in 1 .. i - 1)
      BY <2>1, <2>2, <2>3, <3>1
    <3> QED
      BY <3>1, <3>2, <3>3
  <2>6. (CHOOSE n \in last : TRUE) = name(i)
    BY <2>4, <2>5
  <2> HIDE DEF last
  <2> QED
    BY <1>3, <1>4, <2>1, <2>4, <2>6
<1> QED
  BY <1>1, <1>5, <1>6

\* Every step leaves only rows of steps, and no row that says nothing.
LEMMA NextRowsHaveSteps ==
    ASSUME TypeOK, RowsHaveSteps, [Next]_vars
    PROVE  RowsHaveSteps'
<1> SUFFICES ASSUME NEW f \in Flows, NEW n \in StepNames
             PROVE  /\ rows'[<<f, n>>].state = "NONE" => rows'[<<f, n>>] = NoRow
                    /\ rows'[<<f, n>>] # NoRow => \E i \in Steps(f) : n = StepList[f][i]
  BY DEF RowsHaveSteps, Steps
<1>1. CASE rows'[<<f, n>>] = rows[<<f, n>>]
  BY <1>1 DEF RowsHaveSteps
<1>2. CASE rows'[<<f, n>>] # rows[<<f, n>>]
  <2>1. PICK p \in Procs, s \in {"RUNNING", "SUCCESS", "FAILED"} :
           /\ exec[p].job \in JobIds /\ <<f, n>> = RowKey(exec[p].job)
           /\ rows'[<<f, n>>] = Upsert(rows[<<f, n>>], s, exec[p].job[2], exec[p].startedAt)
    BY <1>2, RowWritten
  <2>2. rows'[<<f, n>>].state # "NONE"
    BY <2>1 DEF Upsert
  <2>3. f = exec[p].job[1] /\ n = StepList[f][exec[p].job[2]] /\ exec[p].job[2] \in Steps(f)
    BY <2>1, JobIdFacts DEF RowKey, Name
  <2> QED
    BY <2>2, <2>3
<1> QED
  BY <1>1, <1>2

\* A result that is in its row stays there, whatever later attempts do.
LEMMA RecordedStays ==
    ASSUME TypeOK, [Next]_vars, NEW j \in JobIds, Distinct(j[1]), Recorded(j)
    PROVE  Recorded(j)'
<1>1. HasRow(j)'
  BY RowStays DEF Recorded
<1>2. rows'[RowKey(j)].result = j[2]
  <2>1. CASE rows'[RowKey(j)] = rows[RowKey(j)]
    BY <2>1 DEF Recorded
  <2>2. CASE rows'[RowKey(j)] # rows[RowKey(j)]
    <3>1. PICK p \in Procs, s \in {"RUNNING", "SUCCESS", "FAILED"} :
             rows'[RowKey(j)] = Upsert(rows[RowKey(j)], s, j[2], exec[p].startedAt)
      BY <2>2, JobRowWritten
    <3> QED
      BY <3>1 DEF Upsert, Recorded
  <2> QED
    BY <2>1, <2>2
<1> QED
  BY <1>1, <1>2 DEF Recorded, RowKey, Name

\* Every step keeps the results of the resolved and the completed steps.
LEMMA NextResultsStay ==
    ASSUME TypeOK, ResultsStay, [Next]_vars
    PROVE  ResultsStay'
<1>1. ASSUME NEW p \in Procs, Running(p)', exec'[p].pc = "resolved", Distinct(exec'[p].job[1])
      PROVE  Recorded(exec[p].job)'
  <2>1. CASE exec'[p] = exec[p]
    <3>1. Running(p) /\ exec[p].job \in JobIds
      BY <1>1, <2>1, RunningCall DEF Running
    <3>2. Recorded(exec[p].job)'
      BY <1>1, <2>1, <3>1, RecordedStays DEF ResultsStay, Recorded, HasRow, RowKey, Name
    <3> QED
      BY <2>1, <3>2 DEF Recorded, HasRow, RowKey, Name
  <2>2. CASE exec'[p] # exec[p]
    <3>1. Running(p) /\ exec'[p].job = exec[p].job /\ UpsertRow(p, "SUCCESS")
      BY <1>1, <2>2, ResolvedByMarkSuccess
    <3>2. exec[p].job \in JobIds /\ RowKey(exec[p].job) \in Flows \X StepNames
      BY <3>1, RunningCall, JobIdFacts
    <3>3. rows'[RowKey(exec[p].job)]
             = Upsert(rows[RowKey(exec[p].job)], "SUCCESS", exec[p].job[2], exec[p].startedAt)
      BY <3>1, <3>2 DEF UpsertRow, TypeOK, DispatcherTypeOK
    <3>4. /\ rows'[RowKey(exec[p].job)].state = "SUCCESS"
          /\ rows'[RowKey(exec[p].job)].result = exec[p].job[2]
      BY <3>3 DEF Upsert
    <3> QED
      BY <3>1, <3>4 DEF Recorded, HasRow, NoRow, RowKey, Name
  <2> QED
    BY <2>1, <2>2
<1>2. ASSUME NEW j \in JobIds, Distinct(j[1]), queue'[j] = "completed"
      PROVE  Recorded(j)'
  <2>1. CASE queue[j] = "completed"
    BY <1>2, <2>1, RecordedStays DEF ResultsStay
  <2>2. CASE queue[j] # "completed"
    <3>1. UNCHANGED rows /\ Recorded(j)
      BY <1>2, <2>2, CompletedByAck DEF ResultsStay
    <3> QED
      BY <3>1 DEF Recorded, HasRow, RowKey, Name
  <2> QED
    BY <2>1, <2>2
<1> QED
  BY <1>1, <1>2 DEF ResultsStay, Distinct, Steps

\* The clock of a flow never goes back.
LEMMA TicksGrow ==
    ASSUME TypeOK, [Next]_vars, NEW f \in Flows
    PROVE  ticks[f] \in Nat /\ ticks'[f] \in Nat /\ ticks[f] =< ticks'[f]
<1>1. ticks[f] \in Nat /\ ticks'[f] \in Nat
  BY NextTypeOK DEF TypeOK, DispatcherTypeOK
<1>2. ASSUME NEW p \in Procs, NEW j \in JobIds, Take(p, j)
      PROVE  ticks[f] =< ticks'[f]
  BY <1>1, <1>2, TakeFacts DEF TypeOK, DispatcherTypeOK
<1>3. CASE UNCHANGED ticks
  BY <1>1, <1>3
<1> QED
  BY <1>1, <1>2, <1>3
  DEF Next, vars, Call, Start, Lookup, Add, AddFails, Subscribe, Report, Worker, Dispatch,
      DispatchStep, ReadNextData, MarkRunning, RunHandler, MarkSuccess, MarkFailed, Ack,
      EndDispatch, Crash, Bull, Check, Deliver, FailChain, Stall, dispatcherVars

\* Every step keeps all stamps behind the clock.
LEMMA NextStampsArePast ==
    ASSUME TypeOK, StampsArePast, [Next]_vars
    PROVE  StampsArePast'
<1>1. ASSUME NEW p \in Procs, Running(p)'
      PROVE  exec'[p].startedAt =< ticks'[exec'[p].job[1]]
  <2>1. CASE Running(p) /\ exec'[p].job = exec[p].job /\ exec'[p].startedAt = exec[p].startedAt
    <3>1. exec[p].job[1] \in Flows /\ exec[p].startedAt \in Nat
      BY <2>1, RunningCall, JobIdFacts DEF CallType
    <3>2. exec[p].startedAt =< ticks[exec[p].job[1]]
      BY <2>1 DEF StampsArePast
    <3> QED
      BY <2>1, <3>1, <3>2, TicksGrow
  <2>2. ASSUME NEW j \in JobIds, Take(p, j)
        PROVE  exec'[p].startedAt =< ticks'[exec'[p].job[1]]
    <3>1. j[1] \in Flows /\ ticks[j[1]] \in Nat
      BY JobIdFacts, TicksGrow
    <3> QED
      BY <2>2, <3>1, TakeFacts DEF TypeOK, DispatcherTypeOK
  <2> QED
    BY <1>1, <2>1, <2>2, CallsGoOn
<1>2. ASSUME NEW f \in Flows, NEW n \in StepNames
      PROVE  rows'[<<f, n>>].startedAt =< ticks'[f]
  <2>0. rows[<<f, n>>].startedAt \in Nat /\ rows[<<f, n>>].startedAt =< ticks'[f]
    <3>1. rows[<<f, n>>].startedAt \in Nat
      BY DEF TypeOK, DispatcherTypeOK, RowType
    <3>2. rows[<<f, n>>].startedAt =< ticks[f]
      BY DEF StampsArePast
    <3> QED
      BY <3>1, <3>2, TicksGrow
  <2>1. CASE rows'[<<f, n>>] = rows[<<f, n>>]
    BY <2>0, <2>1
  <2>2. CASE rows'[<<f, n>>] # rows[<<f, n>>]
    <3>1. PICK p \in Procs, s \in {"RUNNING", "SUCCESS", "FAILED"} :
             /\ Running(p) /\ exec[p].job \in JobIds /\ <<f, n>> = RowKey(exec[p].job)
             /\ rows'[<<f, n>>] = Upsert(rows[<<f, n>>], s, exec[p].job[2], exec[p].startedAt)
      BY <2>2, RowWritten
    <3>2. f = exec[p].job[1] /\ exec[p].startedAt \in Nat
      BY <3>1, RunningCall DEF RowKey, CallType
    <3>3. exec[p].startedAt =< ticks[f]
      BY <3>1, <3>2 DEF StampsArePast
    <3>4. exec[p].startedAt =< ticks'[f]
      BY <3>2, <3>3, TicksGrow
    <3>5. rows'[<<f, n>>].startedAt \in {exec[p].startedAt, rows[<<f, n>>].startedAt}
      BY <3>1 DEF Upsert
    <3> QED
      BY <2>0, <3>4, <3>5
  <2> QED
    BY <2>1, <2>2
<1> QED
  BY <1>1, <1>2 DEF StampsArePast

\* startedAt is written once, when the row is created.
LEMMA StampStays ==
    ASSUME TypeOK, RowsHaveSteps, [Next]_vars, NEW j \in JobIds, Distinct(j[1]), HasRow(j)
    PROVE  Stamp(j)' = Stamp(j)
<1>1. CASE rows'[RowKey(j)] = rows[RowKey(j)]
  BY <1>1 DEF Stamp, RowKey, Name
<1>2. CASE rows'[RowKey(j)] # rows[RowKey(j)]
  <2>1. PICK p \in Procs, s \in {"RUNNING", "SUCCESS", "FAILED"} :
           rows'[RowKey(j)] = Upsert(rows[RowKey(j)], s, j[2], exec[p].startedAt)
    BY <1>2, JobRowWritten
  <2>2. rows[RowKey(j)].state # "NONE"
    BY JobIdFacts DEF HasRow, RowsHaveSteps, RowKey
  <2> QED
    BY <2>1, <2>2 DEF Upsert, Stamp, RowKey, Name
<1> QED
  BY <1>1, <1>2

\* A row is created with the stamp of the dispatch call that creates it.
LEMMA NewStamp ==
    ASSUME TypeOK, [Next]_vars, NEW j \in JobIds, Distinct(j[1]), ~HasRow(j), HasRow(j)'
    PROVE  \E p \in Procs : /\ Running(p) /\ exec[p].job = j
                            /\ Stamp(j)' = exec[p].startedAt
<1>1. rows'[RowKey(j)] # rows[RowKey(j)]
  BY DEF HasRow, RowKey, Name
<1>2. PICK p \in Procs, s \in {"RUNNING", "SUCCESS", "FAILED"} :
         /\ Running(p) /\ exec[p].job = j
         /\ rows'[RowKey(j)] = Upsert(rows[RowKey(j)], s, j[2], exec[p].startedAt)
  BY <1>1, JobRowWritten
<1>3. rows[RowKey(j)].state = "NONE"
  BY DEF HasRow, NoRow
<1> QED
  BY <1>2, <1>3 DEF Upsert, Stamp, RowKey, Name

\* Every step keeps the stamps of a flow in the order of its steps.
LEMMA NextStampsInOrder ==
    ASSUME DataInv, [Next]_vars
    PROVE  StampsInOrder'
<1>1. /\ TypeOK /\ ChainInOrder /\ StartedInOrder /\ RowsHaveSteps /\ StampsArePast
      /\ StampsInOrder
  BY DataInvUse
<1>2. ASSUME NEW j \in JobIds, Distinct(j[1]), Reached(j), NEW k \in 1 .. j[2] - 1
      PROVE  /\ Stamp(<<j[1], k>>)' = Stamp(<<j[1], k>>)
             /\ Stamp(<<j[1], k>>) \in Nat /\ Stamp(<<j[1], k>>) =< ticks[j[1]]
  <2> DEFINE i == <<j[1], k>>
  <2>1. i \in JobIds /\ i[1] = j[1] /\ HasRow(i)
    BY <1>2, StepsBefore DEF Recorded
  <2>2. Stamp(i)' = Stamp(i)
    BY <1>1, <1>2, <2>1, StampStays
  <2>3. RowKey(i) \in Flows \X StepNames /\ RowKey(i) = <<j[1], Name(i)>>
    BY <2>1, JobIdFacts DEF RowKey
  <2>4. Stamp(i) \in Nat /\ Stamp(i) =< ticks[j[1]]
    BY <1>1, <2>3 DEF Stamp, TypeOK, DispatcherTypeOK, RowType, StampsArePast
  <2> QED
    BY <2>2, <2>4
<1>3. ASSUME NEW p \in Procs, Running(p)', Distinct(exec'[p].job[1]),
             NEW k \in 1 .. exec'[p].job[2] - 1
      PROVE  Stamp(<<exec[p].job[1], k>>)' < exec'[p].startedAt
  <2>1. CASE Running(p) /\ exec'[p].job = exec[p].job /\ exec'[p].startedAt = exec[p].startedAt
    <3>1. exec[p].job \in JobIds /\ Reached(exec[p].job) /\ Distinct(exec[p].job[1])
      BY <1>1, <1>3, <2>1, RunningCall DEF StartedInOrder
    <3>2. Stamp(<<exec[p].job[1], k>>) < exec[p].startedAt
      BY <1>1, <1>3, <2>1, <3>1 DEF StampsInOrder
    <3>3. rows'[RowKey(<<exec[p].job[1], k>>)].startedAt
             = rows[RowKey(<<exec[p].job[1], k>>)].startedAt
      BY <1>2, <1>3, <2>1, <3>1 DEF Stamp, RowKey, Name
    <3> QED
      BY <2>1, <3>2, <3>3 DEF Stamp, RowKey, Name
  <2>2. ASSUME NEW j \in JobIds, Take(p, j)
        PROVE  Stamp(<<exec[p].job[1], k>>)' < exec'[p].startedAt
    <3>1. exec'[p].job = j /\ queue[j] = "wait" /\ exec'[p].startedAt = ticks[j[1]] + 1
      BY <1>1, <2>2, TakeFacts
    <3>2. Reached(j) /\ Distinct(j[1]) /\ k \in 1 .. j[2] - 1
      BY <1>1, <1>3, <3>1, JobIdFacts DEF Reached, ChainInOrder
    <3>3. /\ Stamp(<<j[1], k>>)' = Stamp(<<j[1], k>>)
          /\ Stamp(<<j[1], k>>) \in Nat /\ Stamp(<<j[1], k>>) =< ticks[j[1]]
      BY <1>2, <3>2
    <3>4. ticks[j[1]] \in Nat
      BY <1>1, JobIdFacts, TicksGrow
    <3>5. Stamp(<<j[1], k>>)' < exec'[p].startedAt
      BY <3>1, <3>3, <3>4
    <3> QED
      BY <3>1, <3>5 DEF Stamp, RowKey, Name
  <2> QED
    BY <1>1, <1>3, <2>1, <2>2, CallsGoOn
<1>4. ASSUME NEW j \in JobIds, Distinct(j[1]), HasRow(j)', NEW k \in 1 .. j[2] - 1
      PROVE  Stamp(<<j[1], k>>)' < Stamp(j)'
  <2>1. CASE HasRow(j)
    <3>1. Reached(j) /\ Stamp(<<j[1], k>>) < Stamp(j) /\ Stamp(j)' = Stamp(j)
      BY <1>1, <1>4, <2>1, StampStays DEF StartedInOrder, StampsInOrder
    <3> QED
      BY <1>2, <1>4, <3>1
  <2>2. CASE ~HasRow(j)
    <3>1. PICK p \in Procs : Running(p) /\ exec[p].job = j /\ Stamp(j)' = exec[p].startedAt
      BY <1>1, <1>4, <2>2, NewStamp
    <3>2. Reached(j) /\ Stamp(<<j[1], k>>) < exec[p].startedAt
      BY <1>1, <1>4, <3>1 DEF StartedInOrder, StampsInOrder
    <3> QED
      BY <1>2, <1>4, <3>1, <3>2
  <2> QED
    BY <2>1, <2>2
<1> QED
  BY <1>3, <1>4 DEF StampsInOrder, Distinct, Steps

\* Every step gives the first attempt of a step the previous result.
LEMMA NextFirstAttempt ==
    ASSUME DataInv, [Next]_vars
    PROVE  FirstAttemptGetsPreviousResult'
<1>1. TypeOK /\ StartedInOrder /\ FirstAttemptGetsPreviousResult
  BY DataInvUse
<1> SUFFICES ASSUME NEW p \in Procs, Running(p)', Distinct(exec'[p].job[1]),
                    exec'[p].pc = "start", ~HasRow(exec[p].job)'
             PROVE  exec'[p].input = exec'[p].job[2] - 1
  BY DEF FirstAttemptGetsPreviousResult, HasRow, Distinct, Steps
<1>2. Running(p) /\ exec'[p].job = exec[p].job /\ exec[p].job \in JobIds
  <2>1. Running(p) /\ exec'[p].job = exec[p].job
    BY <1>1, StartedByRead DEF Running
  <2> QED
    BY <1>1, <2>1, RunningCall
<1>3. ~HasRow(exec[p].job)
  <2> SUFFICES ASSUME HasRow(exec[p].job) PROVE FALSE
    OBVIOUS
  <2> DEFINE j == exec[p].job
  <2>1. rows'[RowKey(j)] # NoRow
    BY <1>1, <1>2, RowStays DEF HasRow, RowKey, Name
  <2> QED
    BY <1>2, <2>1 DEF HasRow, RowKey, Name
<1>4. CASE exec'[p] = exec[p]
  BY <1>1, <1>2, <1>3, <1>4 DEF FirstAttemptGetsPreviousResult, HasRow
<1>5. CASE exec'[p] # exec[p]
  <2>1. Reached(exec[p].job)
    BY <1>1, <1>2 DEF StartedInOrder
  <2>2. NextData(exec[p].job[1]) = exec[p].job[2] - 1
    BY <1>2, <1>3, <2>1, NextDataIsPrevious
  <2> QED
    BY <1>1, <1>2, <1>5, <2>2, StartedByRead
<1> QED
  BY <1>4, <1>5

\* Results and stamps are where a later getNextData looks for them, in every
\* reachable state.
LEMMA AlwaysDataInv == Spec => []DataInv
<1>1. Init => DataInv
  <2> SUFFICES ASSUME Init PROVE DataInv
    OBVIOUS
  <2>1. \A p \in Procs : ~Running(p)
    BY DEF Init, DispatcherInit, Running
  <2>2. \A f \in Flows : \A n \in StepNames : rows[<<f, n>>] = NoRow
    BY DEF Init, DispatcherInit
  <2>3. \A j \in JobIds : ~HasRow(j) /\ queue[j] # "completed"
    BY JobIdFacts DEF Init, QueueInit, DispatcherInit, HasRow
  <2>4. \A f \in Flows : ticks[f] = 0
    BY DEF Init, DispatcherInit
  <2> QED
    BY <2>1, <2>2, <2>3, <2>4, InitFlowInv
    DEF DataInv, StartedInOrder, RowsHaveSteps, ResultsStay, StampsArePast, StampsInOrder,
        FirstAttemptGetsPreviousResult, NoRow
<1>2. DataInv /\ [Next]_vars => DataInv'
  <2> SUFFICES ASSUME DataInv, [Next]_vars PROVE DataInv'
    OBVIOUS
  <2>1. FlowInv' /\ StartedInOrder'
    BY DataInvUse, NextFlowInv, NextStartedInOrder
  <2>2. RowsHaveSteps' /\ ResultsStay' /\ StampsArePast'
    BY DataInvUse, NextRowsHaveSteps, NextResultsStay, NextStampsArePast
  <2>3. StampsInOrder' /\ FirstAttemptGetsPreviousResult'
    BY NextStampsInOrder, NextFirstAttempt
  <2> QED
    BY <2>1, <2>2, <2>3 DEF DataInv
<1> QED
  BY <1>1, <1>2, PTL DEF Spec

\* Under every crash and lost lock, the first attempt of a step is given the
\* result of the step before it.
THEOREM FirstAttemptsGetTheirData == Spec => []FirstAttemptGetsPreviousResult
<1>1. DataInv => FirstAttemptGetsPreviousResult
  BY DEF DataInv
<1> QED
  BY <1>1, AlwaysDataInv, PTL

-------------------------------------------------------------------------------
(* The number of dispatch calls *)

\* Every delivery of j was the first one or followed a stall, and the
\* stalled-job check has not given up on j.
Counted(j, deliveries) ==
    /\ attempts[j] = stalls[j] + deliveries
    /\ stalls[j] =< MaxStalledCount

\* The attempts of a job in each state of the queue.
AttemptsOf(j) ==
    /\ queue[j] \in {"absent", "waiting-children"} => attempts[j] = 0 /\ stalls[j] = 0
    /\ queue[j] = "wait" => Counted(j, 0)
    /\ queue[j] = "active" => Counted(j, 1)
    /\ attempts[j] =< MaxStalledCount + 1

AttemptsInv == \A j \in JobIds : AttemptsOf(j)

\* The queue's own moves of a job keep the count of every job.
LEMMA MoveKeepsAttempts ==
    ASSUME TypeOK, ChainInOrder, AttemptsInv, UNCHANGED attempts, NEW j \in JobIds,
           \/ queue[j] = "active" /\ MoveToCompleted(j)
           \/ queue[j] = "active" /\ MoveToFailed(j)
           \/ FailParent(j)
           \/ RecoverStalled(j)
    PROVE  AttemptsInv'
<1> SUFFICES ASSUME NEW k \in JobIds PROVE AttemptsOf(k)'
  BY DEF AttemptsInv
<1>1. AttemptsOf(k) /\ AttemptsOf(j) /\ attempts'[k] = attempts[k]
  BY DEF AttemptsInv
<1>2. QueueTypeOK /\ attempts[k] \in Nat /\ stalls[k] \in Nat /\ MaxStalledCount \in Nat
  BY FlowQueueAssumption DEF TypeOK, QueueTypeOK
<1>3. CASE queue'[k] = queue[k] /\ stalls'[k] = stalls[k]
  BY <1>1, <1>3 DEF AttemptsOf, Counted
<1>4. CASE queue'[k] \in {"completed", "failed"}
  BY <1>1, <1>4 DEF AttemptsOf
<1>5. CASE queue[j] = "active" /\ MoveToCompleted(j) /\ k = <<j[1], j[2] + 1>> /\ k # j
  <2>1. /\ k[1] = j[1] /\ k[2] = j[2] + 1 /\ j[2] \in Nat /\ j[1] \in Flows
        /\ j = <<j[1], j[2]>> /\ j[2] \in Steps(j[1]) /\ k[2] \in Steps(j[1])
    BY <1>5, JobIdFacts
  <2>2. queue'[k] = "wait" /\ stalls'[k] = stalls[k]
    BY <1>5 DEF MoveToCompleted
  <2>3. queue[k] \notin {"wait", "active", "completed", "failed"}
    BY <1>5, <2>1, ChainUse
  <2>4. queue[k] \in {"absent", "waiting-children"}
    BY <1>2, <2>3 DEF QueueTypeOK, QueueStates
  <2> QED
    BY <1>1, <1>2, <2>2, <2>4 DEF AttemptsOf, Counted
<1>6. CASE k = j /\ RecoverStalled(j) /\ queue'[k] = "wait"
  <2>1. queue[j] = "active" /\ stalls[j] < MaxStalledCount /\ stalls'[j] = stalls[j] + 1
    BY <1>2, <1>6 DEF RecoverStalled, QueueTypeOK
  <2> QED
    BY <1>1, <1>2, <1>6, <2>1 DEF AttemptsOf, Counted
<1> QED
  BY <1>2, <1>3, <1>4, <1>5, <1>6
  DEF MoveToCompleted, MoveToFailed, FailParent, RecoverStalled, QueueTypeOK

\* Every step of the engine keeps the count of every job.
LEMMA NextAttemptsInv ==
    FlowInv /\ AttemptsInv /\ [Next]_vars => AttemptsInv'
<1> SUFFICES ASSUME FlowInv, AttemptsInv, [Next]_vars PROVE AttemptsInv'
  OBVIOUS
<1>1. TypeOK /\ QueueTypeOK /\ ChainInOrder /\ NotAddedYet
  BY DEF FlowInv, ChainInv, TypeOK
<1>2. ASSUME UNCHANGED <<queue, stalls, attempts>>
      PROVE  AttemptsInv'
  BY <1>2 DEF AttemptsInv, AttemptsOf, Counted
<1>3. ASSUME NEW f \in Flows, Call(f)
      PROVE  AttemptsInv'
  <2>1. UNCHANGED attempts
    BY <1>3 DEF Call, Start, Lookup, Add, AddFails, Subscribe, Report, engineVars
  <2>2. CASE UNCHANGED queueVars
    BY <1>2, <2>1, <2>2 DEF queueVars
  <2>3. CASE AddFlow(f) /\ orch[f] = "add"
    <3> SUFFICES ASSUME NEW j \in JobIds PROVE AttemptsOf(j)'
      BY DEF AttemptsInv
    <3>1. AttemptsOf(j) /\ attempts'[j] = attempts[j]
      BY <2>1 DEF AttemptsInv
    <3>2. CASE j[1] # f
      <4>1. queue'[j] = queue[j] /\ stalls'[j] = stalls[j]
        BY <2>3, <3>2 DEF AddFlow
      <4> QED
        BY <3>1, <4>1 DEF AttemptsOf, Counted
    <3>3. CASE j[1] = f
      <4>1. queue[j] = "absent"
        BY <1>1, <2>3, <3>3, JobIdFacts DEF NotAddedYet
      <4>2. stalls'[j] = 0 /\ attempts'[j] = 0 /\ queue'[j] # "active"
        BY <2>3, <3>1, <3>3, <4>1 DEF AttemptsOf, AddFlow
      <4> QED
        BY <4>2, FlowQueueAssumption DEF AttemptsOf, Counted
    <3> QED
      BY <3>2, <3>3
  <2> QED
    BY <1>3, <2>2, <2>3
    DEF Call, Start, Lookup, Add, JobsAdded, AddFails, AddThrew, Subscribe, Report
<1>4. ASSUME NEW p \in Procs, NEW j \in JobIds, Take(p, j)
      PROVE  AttemptsInv'
  <2> SUFFICES ASSUME NEW k \in JobIds PROVE AttemptsOf(k)'
    BY DEF AttemptsInv
  <2>1. /\ queue[j] = "wait" /\ queue' = [queue EXCEPT ![j] = "active"]
        /\ UNCHANGED stalls /\ attempts' = [attempts EXCEPT ![j] = @ + 1]
    BY <1>1, <1>4, TakeFacts DEF Take, TakeJob
  <2>2. AttemptsOf(k) /\ attempts[k] \in Nat /\ stalls[k] \in Nat /\ MaxStalledCount \in Nat
    BY <1>1, FlowQueueAssumption DEF AttemptsInv, TypeOK, QueueTypeOK
  <2>3. CASE k # j
    <3>1. queue'[k] = queue[k] /\ stalls'[k] = stalls[k] /\ attempts'[k] = attempts[k]
      BY <1>1, <2>1, <2>3 DEF TypeOK, QueueTypeOK
    <3> QED
      BY <2>2, <3>1 DEF AttemptsOf, Counted
  <2>4. CASE k = j
    <3>1. queue'[k] = "active" /\ stalls'[k] = stalls[k] /\ attempts'[k] = attempts[k] + 1
      BY <1>1, <2>1, <2>4 DEF TypeOK, QueueTypeOK
    <3> QED
      BY <2>1, <2>2, <2>4, <3>1 DEF AttemptsOf, Counted
  <2> QED
    BY <2>3, <2>4
<1>5. ASSUME NEW p \in Procs, Worker(p) \/ Crash(p)
      PROVE  AttemptsInv'
  <2>1. CASE \E j \in JobIds : Take(p, j)
    BY <1>4, <2>1
  <2>2. CASE Dispatch(p)
    BY <1>2, <2>2 DEF Dispatch, queueVars, engineVars
  <2>3. CASE Ack(p)
    <3>1. exec[p].job \in JobIds
      BY <1>1, <2>3 DEF Ack, TypeOK, DispatcherTypeOK, CallType, Idle
    <3>2. UNCHANGED attempts
      BY <2>3 DEF Ack, engineVars
    <3>3. CASE UNCHANGED queueVars
      BY <1>2, <3>2, <3>3 DEF queueVars
    <3>4. CASE ~ UNCHANGED queueVars
      BY <1>1, <2>3, <3>1, <3>2, <3>4, MoveKeepsAttempts DEF Ack, HoldsLock
    <3> QED
      BY <3>3, <3>4
  <2>4. CASE Crash(p)
    BY <1>2, <2>4 DEF Crash, queueVars
  <2> QED
    BY <1>5, <2>1, <2>2, <2>3, <2>4 DEF Worker
<1>6. ASSUME NEW j \in JobIds, Bull(j)
      PROVE  AttemptsInv'
  <2>1. CASE Check(j) \/ Deliver(j)
    BY <1>2, <2>1 DEF Check, Deliver, queueVars, engineVars
  <2>2. CASE FailChain(j) \/ Stall(j)
    BY <1>1, <2>2, MoveKeepsAttempts DEF FailChain, Stall, engineVars
  <2> QED
    BY <1>6, <2>1, <2>2 DEF Bull
<1>7. CASE UNCHANGED vars
  BY <1>2, <1>7 DEF vars, queueVars, engineVars
<1> QED
  BY <1>3, <1>5, <1>6, <1>7 DEF Next

\* Crashes and lost locks included, every step is given to at most
\* MaxStalledCount + 1 dispatch calls.
THEOREM DeliveriesAreBounded == Spec => []AttemptsBounded
<1>1. Init => AttemptsInv
  BY FlowQueueAssumption DEF Init, QueueInit, AttemptsInv, AttemptsOf, Counted
<1>2. AttemptsInv => AttemptsBounded
  BY DEF AttemptsInv, AttemptsOf, AttemptsBounded
<1> QED
  BY <1>1, <1>2, AlwaysFlowInv, NextAttemptsInv, PTL DEF Spec

-------------------------------------------------------------------------------
(* Locks held: one attempt at a time *)

\* Every dispatch call in progress runs an active job its process has locked.
RunningHoldsLock == \A p \in Procs : Running(p) => HoldsLock(p, exec[p].job)

\* The invariant of the engine whose live workers keep their locks.
LockInv == FlowInv /\ RunningHoldsLock

\* Two active jobs of one flow are the same job.
LEMMA OneActiveJob ==
    ASSUME ChainInOrder, NEW j \in JobIds, NEW k \in JobIds, j[1] = k[1],
           queue[j] = "active", queue[k] = "active"
    PROVE  j = k
<1>1. /\ j[1] \in Flows /\ j[2] \in Steps(j[1]) /\ j[2] \in Nat /\ j = <<j[1], j[2]>>
      /\ k[2] \in Steps(j[1]) /\ k[2] \in Nat /\ k = <<j[1], k[2]>>
  BY JobIdFacts DEF Steps
<1>2. ~(j[2] < k[2]) /\ ~(k[2] < j[2])
  BY <1>1, ChainUse
<1> QED
  BY <1>1, <1>2

\* The steps of one flow are attempted one at a time.
LEMMA LockInvImpliesOneAttempt == LockInv => OneAttemptAtATime
<1> SUFFICES ASSUME LockInv, NEW p \in Procs, NEW q \in Procs, Running(p), Running(q),
                    exec[p].job[1] = exec[q].job[1]
             PROVE  p = q
  BY DEF OneAttemptAtATime
<1>1. TypeOK /\ ChainInOrder
  BY DEF LockInv, FlowInv, ChainInv
<1>2. exec[p].job \in JobIds /\ exec[q].job \in JobIds
  BY <1>1, RunningCall
<1>3. HoldsLock(p, exec[p].job) /\ HoldsLock(q, exec[q].job)
  BY DEF LockInv, RunningHoldsLock
<1> QED
  BY <1>1, <1>2, <1>3, OneActiveJob DEF HoldsLock

\* Every step keeps the lock of every dispatch call in progress.
LEMMA NextLockInv ==
    ASSUME LocksMayExpire = FALSE
    PROVE  LockInv /\ [Next]_vars => LockInv'
<1> SUFFICES ASSUME LockInv, [Next]_vars PROVE RunningHoldsLock'
  BY NextFlowInv DEF LockInv
<1>1. TypeOK /\ QueueTypeOK /\ ChainInOrder /\ NotAddedYet /\ RunningHoldsLock
  BY DEF LockInv, FlowInv, ChainInv, TypeOK
<1>2. \A p \in Procs : Running(p) =>
         exec[p].job \in JobIds /\ queue[exec[p].job] = "active" /\ lock[exec[p].job] = p
  BY <1>1, RunningCall DEF RunningHoldsLock, HoldsLock
<1>3. ASSUME UNCHANGED exec,
             \A p \in Procs : Running(p) => /\ queue'[exec[p].job] = queue[exec[p].job]
                                            /\ lock'[exec[p].job] = lock[exec[p].job]
      PROVE  RunningHoldsLock'
  BY <1>1, <1>3 DEF RunningHoldsLock, HoldsLock, Running
<1>4. ASSUME NEW f \in Flows, Call(f)
      PROVE  RunningHoldsLock'
  <2>1. UNCHANGED exec
    BY <1>4 DEF Call, Start, Lookup, Add, AddFails, Subscribe, Report, dispatcherVars
  <2>2. UNCHANGED queueVars \/ (AddFlow(f) /\ orch[f] = "add")
    BY <1>4 DEF Call, Start, Lookup, Add, JobsAdded, AddFails, AddThrew, Subscribe, Report
  <2>3. CASE UNCHANGED queueVars
    BY <1>3, <2>1, <2>3 DEF queueVars
  <2>4. CASE AddFlow(f) /\ orch[f] = "add"
    <3>1. \A p \in Procs : Running(p) => exec[p].job[1] # f
      BY <1>1, <1>2, <2>4, JobIdFacts DEF NotAddedYet
    <3> QED
      BY <1>2, <1>3, <2>1, <2>4, <3>1 DEF AddFlow
  <2> QED
    BY <2>2, <2>3, <2>4
<1>5. ASSUME NEW p \in Procs, NEW j \in JobIds, Take(p, j)
      PROVE  RunningHoldsLock'
  <2>1. /\ queue[j] = "wait"
        /\ queue' = [queue EXCEPT ![j] = "active"] /\ lock' = [lock EXCEPT ![j] = p]
        /\ exec' = [exec EXCEPT ![p] = [pc |-> "read", job |-> j, input |-> 0,
                                        startedAt |-> ticks[j[1]] + 1]]
    BY <1>5 DEF Take, TakeJob, BeginDispatch
  <2>2. exec'[p].job = j /\ HoldsLock(p, j)'
    BY <1>1, <2>1 DEF TypeOK, QueueTypeOK, DispatcherTypeOK, HoldsLock
  <2>3. ASSUME NEW q \in Procs, q # p, Running(q)'
        PROVE  HoldsLock(q, exec[q].job)' /\ exec'[q] = exec[q]
    <3>1. exec'[q] = exec[q] /\ Running(q)
      BY <1>1, <2>1, <2>3 DEF TypeOK, DispatcherTypeOK, Running
    <3>2. exec[q].job # j
      BY <1>2, <2>1, <3>1
    <3> QED
      BY <1>1, <1>2, <2>1, <3>1, <3>2 DEF QueueTypeOK, HoldsLock
  <2> QED
    BY <2>2, <2>3 DEF RunningHoldsLock, HoldsLock
<1>6. ASSUME NEW p \in Procs, Dispatch(p)
      PROVE  RunningHoldsLock'
  BY <1>1, <1>6, DispatchKeepsJob DEF RunningHoldsLock, HoldsLock, queueVars
<1>7. ASSUME NEW p \in Procs, Ack(p)
      PROVE  RunningHoldsLock'
  <2> DEFINE j == exec[p].job
  <2>1. Running(p)
    BY <1>7 DEF Ack, Running, Idle
  <2>2. j \in JobIds /\ queue[j] = "active" /\ lock[j] = p
    BY <1>2, <2>1
  <2>3. exec' = [exec EXCEPT ![p] = Idle]
    BY <1>7 DEF Ack, EndDispatch
  <2>4. MoveToCompleted(j) \/ MoveToFailed(j)
    BY <1>7, <2>2 DEF Ack, HoldsLock
  <2>5. ASSUME NEW q \in Procs, q # p, Running(q)
        PROVE  exec[q].job # j /\ exec[q].job # <<j[1], j[2] + 1>>
    <3>1. exec[q].job \in JobIds /\ queue[exec[q].job] = "active" /\ lock[exec[q].job] = q
      BY <1>2, <2>5
    <3>2. ASSUME exec[q].job = <<j[1], j[2] + 1>>
          PROVE  FALSE
      <4>1. exec[q].job[1] = j[1] /\ exec[q].job[2] = j[2] + 1
        BY <3>2
      <4>2. exec[q].job = j
        BY <1>1, <2>2, <3>1, <4>1, OneActiveJob
      <4> QED
        BY <2>2, <2>5, <3>1, <4>2
    <3> QED
      BY <2>2, <2>5, <3>1, <3>2
  <2>6. ASSUME NEW q \in Procs, Running(q)'
        PROVE  HoldsLock(q, exec[q].job)' /\ exec'[q] = exec[q]
    <3>1. q # p /\ Running(q) /\ exec'[q] = exec[q]
      BY <1>1, <2>3, <2>6 DEF TypeOK, DispatcherTypeOK, Running, Idle
    <3>2. exec[q].job \in JobIds /\ queue[exec[q].job] = "active" /\ lock[exec[q].job] = q
      BY <1>2, <3>1
    <3>3. exec[q].job # j /\ exec[q].job # <<j[1], j[2] + 1>>
      BY <2>5, <3>1
    <3> HIDE DEF j
    <3> QED
      BY <1>1, <2>4, <3>1, <3>2, <3>3
      DEF QueueTypeOK, MoveToCompleted, MoveToFailed, HoldsLock
  <2> QED
    BY <2>6 DEF RunningHoldsLock, HoldsLock
<1>8. ASSUME NEW p \in Procs, Crash(p)
      PROVE  RunningHoldsLock'
  <2>1. exec' = [exec EXCEPT ![p] = Idle] /\ UNCHANGED <<queue, lock>>
    BY <1>8 DEF Crash, EndDispatch, queueVars
  <2>2. \A q \in Procs : Running(q)' => Running(q) /\ exec'[q] = exec[q]
    BY <1>1, <2>1 DEF TypeOK, DispatcherTypeOK, Running
  <2> QED
    BY <1>1, <2>1, <2>2 DEF RunningHoldsLock, HoldsLock
<1>9. ASSUME NEW j \in JobIds, Bull(j)
      PROVE  RunningHoldsLock'
  <2>1. UNCHANGED exec
    BY <1>9 DEF Bull, Check, Deliver, FailChain, Stall, dispatcherVars
  <2>2. CASE Check(j) \/ Deliver(j)
    BY <1>3, <2>1, <2>2 DEF Check, Deliver, queueVars
  <2>3. CASE FailChain(j)
    BY <1>1, <1>2, <1>3, <2>1, <2>3 DEF FailChain, FailParent, QueueTypeOK
  <2>4. CASE Stall(j)
    <3>1. \A p \in Procs : Running(p) => exec[p].job # j
      BY <1>2, <2>4 DEF Stall, Alive, Running
    <3> QED
      BY <1>1, <1>2, <1>3, <2>1, <2>4, <3>1 DEF Stall, RecoverStalled, QueueTypeOK
  <2> QED
    BY <1>9, <2>2, <2>3, <2>4 DEF Bull
<1>10. CASE UNCHANGED vars
  BY <1>3, <1>10 DEF vars, queueVars, dispatcherVars
<1> QED
  BY <1>4, <1>5, <1>6, <1>7, <1>8, <1>9, <1>10 DEF Next, Worker

\* Without expiring locks every dispatch call holds its lock in every
\* reachable state.
LEMMA AlwaysLockInv ==
    ASSUME LocksMayExpire = FALSE
    PROVE  Spec => []LockInv
<1>1. Init => LockInv
  BY InitFlowInv DEF LockInv, RunningHoldsLock, Running, Init, DispatcherInit
<1> QED
  BY <1>1, NextLockInv, PTL DEF Spec

\* Without expiring locks the steps of a flow are attempted one at a time, even
\* across crashes: a retry never overlaps the attempt it replaces.
THEOREM NoOverlappingAttempts ==
    ASSUME LocksMayExpire = FALSE
    PROVE  Spec => []OneAttemptAtATime
<1> QED
  BY AlwaysLockInv, LockInvImpliesOneAttempt, PTL

-------------------------------------------------------------------------------
(* Locks held: the rows of the finished jobs *)

\* A step of the engine leaves the row of a finished job alone.
LEMMA FrozenStep ==
    ASSUME LockInv, [Next]_vars, NEW j \in JobIds, Distinct(j[1]), Finished(j)
    PROVE  rows'[RowKey(j)] = rows[RowKey(j)]
<1>1. TypeOK
  BY DEF LockInv, FlowInv, ChainInv
<1> SUFFICES ASSUME ~UNCHANGED rows PROVE rows'[RowKey(j)] = rows[RowKey(j)]
  OBVIOUS
<1>2. PICK p \in Procs : /\ Running(p)
                         /\ \A r \in Flows \X StepNames :
                               r # RowKey(exec[p].job) => rows'[r] = rows[r]
  BY <1>1, RowsWritten
<1>3. exec[p].job \in JobIds /\ queue[exec[p].job] = "active"
  BY <1>1, <1>2, RunningCall DEF LockInv, RunningHoldsLock, HoldsLock
<1>4. RowKey(j) # RowKey(exec[p].job)
  BY <1>3, OneJobPerRow DEF Finished
<1> QED
  BY <1>2, <1>4, JobIdFacts

\* Without expiring locks, what the database says of a finished step is what it
\* will always say: no late writer exists.
THEOREM FinishedRowsStayFrozen ==
    ASSUME LocksMayExpire = FALSE
    PROVE  Spec => FinishedRowsFrozen
<1>1. LockInv /\ [Next]_vars
        => [\A j \in JobIds : Distinct(j[1]) /\ Finished(j)
              => rows'[RowKey(j)] = rows[RowKey(j)]]_vars
  BY FrozenStep
<1> QED
  BY <1>1, AlwaysLockInv, PTL DEF Spec, FinishedRowsFrozen

\* The row of j holds the success and the result of j.
Written(j) == rows[RowKey(j)].state = "SUCCESS" /\ rows[RowKey(j)].result = j[2]

\* A dispatch call that is about to return to BullMQ has written its row.
ResolvedMeansWritten ==
    \A p \in Procs :
        Running(p) /\ exec[p].pc = "resolved" /\ Distinct(exec[p].job[1])
            => Written(exec[p].job)

\* What the completed and the resolved steps have left in the database.
PersistInv == LockInv /\ ResolvedMeansWritten /\ CompletedMeansPersisted

\* Every step keeps the rows of the completed and of the resolved steps.
LEMMA NextPersistInv ==
    ASSUME LocksMayExpire = FALSE
    PROVE  PersistInv /\ [Next]_vars => PersistInv'
<1> SUFFICES ASSUME PersistInv, [Next]_vars PROVE PersistInv'
  OBVIOUS
<1>1. TypeOK /\ LockInv /\ LockInv'
  BY NextLockInv DEF PersistInv, LockInv, FlowInv, ChainInv
<1>2. CompletedMeansPersisted'
  <2> SUFFICES ASSUME NEW j \in JobIds, Distinct(j[1]), queue'[j] = "completed"
               PROVE  Written(j)'
    BY DEF CompletedMeansPersisted, Written, Distinct, Steps, RowKey, Name
  <2>1. CASE queue[j] = "completed"
    <3>1. Written(j)
      BY <2>1 DEF PersistInv, CompletedMeansPersisted, Written
    <3> QED
      BY <1>1, <2>1, <3>1, FrozenStep DEF Finished, Written, RowKey, Name
  <2>2. CASE queue[j] # "completed"
    <3>1. UNCHANGED rows /\ Written(j)
      BY <1>1, <2>2, CompletedByAck DEF PersistInv, ResolvedMeansWritten
    <3> QED
      BY <3>1 DEF Written, RowKey, Name
  <2> QED
    BY <2>1, <2>2
<1>3. ResolvedMeansWritten'
  <2> SUFFICES ASSUME NEW p \in Procs, Running(p)', exec'[p].pc = "resolved",
                      Distinct(exec'[p].job[1])
               PROVE  Written(exec[p].job)'
    BY DEF ResolvedMeansWritten, Distinct, Steps
  <2>1. CASE exec'[p] = exec[p]
    <3>1. Running(p) /\ exec[p].job \in JobIds /\ Written(exec[p].job)
      BY <1>1, <2>1, RunningCall DEF Running, PersistInv, ResolvedMeansWritten
    <3>2. rows'[RowKey(exec[p].job)] = rows[RowKey(exec[p].job)]
      <4> SUFFICES ASSUME ~UNCHANGED rows
                   PROVE  rows'[RowKey(exec[p].job)] = rows[RowKey(exec[p].job)]
        OBVIOUS
      <4>1. PICK q \in Procs : /\ Running(q) /\ Dispatch(q)
                               /\ \A r \in Flows \X StepNames :
                                     r # RowKey(exec[q].job) => rows'[r] = rows[r]
        BY <1>1, RowsWritten
      <4>2. exec[q].job \in JobIds
        BY <1>1, <4>1, RunningCall
      <4>3. CASE RowKey(exec[p].job) = RowKey(exec[q].job)
        <5>1. exec[p].job = exec[q].job
          BY <2>1, <3>1, <4>2, <4>3, OneJobPerRow
        <5>2. p = q
          BY <1>1, <3>1, <4>1, <5>1 DEF LockInv, RunningHoldsLock, HoldsLock
        <5> QED
          BY <2>1, <4>1, <5>2 DEF Dispatch, DispatchStep, ReadNextData, MarkRunning,
                                  RunHandler, MarkSuccess, MarkFailed
      <4>4. CASE RowKey(exec[p].job) # RowKey(exec[q].job)
        BY <3>1, <4>1, <4>4, JobIdFacts
      <4> QED
        BY <4>3, <4>4
    <3> QED
      BY <2>1, <3>1, <3>2 DEF Written, RowKey, Name
  <2>2. CASE exec'[p] # exec[p]
    <3>1. Running(p) /\ exec'[p].job = exec[p].job /\ UpsertRow(p, "SUCCESS")
      BY <1>1, <2>2, ResolvedByMarkSuccess
    <3>2. exec[p].job \in JobIds /\ RowKey(exec[p].job) \in Flows \X StepNames
      BY <1>1, <3>1, RunningCall, JobIdFacts
    <3>3. rows'[RowKey(exec[p].job)]
             = Upsert(rows[RowKey(exec[p].job)], "SUCCESS", exec[p].job[2], exec[p].startedAt)
      BY <1>1, <3>1, <3>2 DEF UpsertRow, TypeOK, DispatcherTypeOK
    <3> QED
      BY <3>1, <3>3 DEF Written, Upsert, RowKey, Name
  <2> QED
    BY <2>1, <2>2
<1> QED
  BY <1>1, <1>2, <1>3 DEF PersistInv

\* Without expiring locks a step counts as completed only when its SUCCESS row
\* and its result are in the database, where the next step reads them.
THEOREM CompletedStepsArePersisted ==
    ASSUME LocksMayExpire = FALSE
    PROVE  Spec => []CompletedMeansPersisted
<1>1. Init => PersistInv
  <2> SUFFICES ASSUME Init PROVE PersistInv
    OBVIOUS
  <2>1. \A p \in Procs : ~Running(p)
    BY DEF Init, DispatcherInit, Running
  <2>2. \A j \in JobIds : queue[j] # "completed"
    BY DEF Init, QueueInit
  <2> QED
    BY <2>1, <2>2, InitFlowInv
    DEF PersistInv, LockInv, RunningHoldsLock, ResolvedMeansWritten, CompletedMeansPersisted
<1>2. PersistInv => CompletedMeansPersisted
  BY DEF PersistInv
<1> QED
  BY <1>1, <1>2, NextPersistInv, PTL DEF Spec

-------------------------------------------------------------------------------
(* Locks held and no crash: every job is delivered once *)

\* No job is ever delivered twice: a job that is active is being run by the
\* worker that locked it, and before that run its row is not there.
DeliveredOnce ==
    /\ crashes = 0
    /\ \A j \in JobIds : queue[j] = "active" => Alive(j)
    /\ \A j \in JobIds :
          Distinct(j[1]) /\ queue[j] \in {"absent", "waiting-children", "wait"} => ~HasRow(j)
    /\ \A p \in Procs :
          Running(p) /\ exec[p].pc \in {"read", "start"} /\ Distinct(exec[p].job[1])
              => ~HasRow(exec[p].job)

\* Every step keeps that: nothing puts a job back into the wait list.
LEMMA NextDeliveredOnce ==
    ASSUME LocksMayExpire = FALSE, MaxCrashes = 0
    PROVE  LockInv /\ DeliveredOnce /\ [Next]_vars => DeliveredOnce'
<1> DEFINE Waiting == {"absent", "waiting-children", "wait"}
<1> SUFFICES ASSUME LockInv, DeliveredOnce, [Next]_vars PROVE DeliveredOnce'
  OBVIOUS
<1>1. TypeOK /\ QueueTypeOK /\ ChainInOrder /\ NotAddedYet /\ RunningHoldsLock
  BY DEF LockInv, FlowInv, ChainInv, TypeOK
<1>2. \A p \in Procs : ~Crash(p)
  BY DEF Crash, DeliveredOnce
<1>3. \A j \in JobIds : ~Stall(j)
  BY DEF Stall, RecoverStalled, DeliveredOnce
<1>4. crashes' = 0
  BY <1>2 DEF DeliveredOnce, Next, vars, engineVars, Call, Start, Lookup, Add, AddFails, Subscribe, Report,
              Worker, Take, Dispatch, Ack, Bull, Check, Deliver, FailChain, Stall
<1>5. ASSUME NEW j \in JobIds, queue'[j] = "active"
      PROVE  Alive(j)'
  <2>1. CASE \E p \in Procs : Take(p, j)
    <3>1. PICK p \in Procs : Take(p, j)
      BY <2>1
    <3>2. exec'[p].job = j /\ exec'[p].pc = "read" /\ lock'[j] = p
      BY <1>1, <3>1, TakeFacts DEF Take, TakeJob, QueueTypeOK
    <3> QED
      BY <3>2 DEF Alive, Idle
  <2>2. CASE ~ \E p \in Procs : Take(p, j)
    <3>1. queue[j] = "active" /\ lock'[j] = lock[j]
      <4>1. CASE UNCHANGED queueVars
        BY <1>5, <4>1 DEF queueVars
      <4>2. ASSUME NEW f \in Flows, AddFlow(f)
            PROVE  queue[j] = "active" /\ lock'[j] = lock[j]
        BY <1>5, <4>2 DEF AddFlow
      <4>3. ASSUME NEW p \in Procs, NEW k \in JobIds, Take(p, k)
            PROVE  queue[j] = "active" /\ lock'[j] = lock[j]
        BY <1>1, <1>5, <2>2, <4>3 DEF Take, TakeJob, QueueTypeOK
      <4>4. ASSUME NEW k \in JobIds, MoveToCompleted(k) \/ MoveToFailed(k) \/ FailParent(k)
            PROVE  queue[j] = "active" /\ lock'[j] = lock[j]
        BY <1>1, <1>5, <4>4 DEF MoveToCompleted, MoveToFailed, FailParent, QueueTypeOK
      <4>5. ASSUME NEW p \in Procs, Ack(p)
            PROVE  exec[p].job \in JobIds
        BY <1>1, <4>5 DEF Ack, TypeOK, DispatcherTypeOK, CallType, Idle
      <4> QED
        BY <1>2, <1>3, <4>1, <4>2, <4>3, <4>4, <4>5
        DEF Next, vars, Call, Start, Lookup, Add, AddFails, Subscribe, Report, Worker, Dispatch,
            Ack, Bull, Check, Deliver, FailChain
    <3>2. PICK q \in Procs : lock[j] = q /\ Running(q) /\ exec[q].job = j
      BY <3>1 DEF DeliveredOnce, Alive, Running
    <3>3. Running(q)' /\ exec'[q].job = j
      <4>1. CASE UNCHANGED exec
        BY <3>2, <4>1 DEF Running
      <4>2. ASSUME NEW p \in Procs, NEW k \in JobIds, Take(p, k)
            PROVE  Running(q)' /\ exec'[q].job = j
        BY <1>1, <3>2, <4>2 DEF Take, BeginDispatch, Running, TypeOK, DispatcherTypeOK
      <4>3. ASSUME NEW p \in Procs, Dispatch(p)
            PROVE  Running(q)' /\ exec'[q].job = j
        <5>1. CASE p = q
          BY <1>1, <3>2, <4>3, <5>1, DispatchKeepsJob, DispatchProgress
        <5>2. CASE p # q
          BY <1>1, <3>2, <4>3, <5>2, DispatchKeepsJob DEF Running
        <5> QED
          BY <5>1, <5>2
      <4>4. ASSUME NEW p \in Procs, Ack(p)
            PROVE  Running(q)' /\ exec'[q].job = j
        <5>1. CASE p = q
          <6>1. HoldsLock(p, j) /\ exec[p].job = j
            BY <3>1, <3>2, <5>1 DEF HoldsLock
          <6>2. MoveToCompleted(j) \/ MoveToFailed(j)
            BY <4>4, <6>1 DEF Ack
          <6>3. queue'[j] # "active"
            BY <1>1, <6>2 DEF MoveToCompleted, MoveToFailed, QueueTypeOK
          <6> QED
            BY <1>5, <6>3
        <5>2. CASE p # q
          BY <1>1, <3>2, <4>4, <5>2 DEF Ack, EndDispatch, Running, TypeOK, DispatcherTypeOK
        <5> QED
          BY <5>1, <5>2
      <4> QED
        BY <1>2, <4>1, <4>2, <4>3, <4>4
        DEF Next, vars, Call, Start, Lookup, Add, AddFails, Subscribe, Report, Worker,
            Bull, Check, Deliver, FailChain, Stall, dispatcherVars
    <3> QED
      BY <3>1, <3>2, <3>3 DEF Alive, Running
  <2> QED
    BY <2>1, <2>2
<1>6. ASSUME NEW j \in JobIds, Distinct(j[1]), ~HasRow(j), HasRow(j)'
      PROVE  \E p \in Procs : /\ Running(p) /\ Dispatch(p) /\ exec[p].job = j
                              /\ queue[j] = "active" /\ queue'[j] = "active"
  <2>1. rows'[RowKey(j)] # rows[RowKey(j)]
    BY <1>6 DEF HasRow, RowKey, Name
  <2>2. PICK p \in Procs : Running(p) /\ Dispatch(p) /\ exec[p].job = j
    BY <1>1, <1>6, <2>1, JobRowWritten
  <2>3. queue[j] = "active" /\ UNCHANGED queueVars
    BY <1>1, <2>2 DEF RunningHoldsLock, HoldsLock, Dispatch
  <2> QED
    BY <2>2, <2>3 DEF queueVars
<1>7. ASSUME NEW j \in JobIds, Distinct(j[1]), queue'[j] \in Waiting
      PROVE  ~HasRow(j)'
  <2>1. queue[j] \in Waiting
    <3>1. CASE UNCHANGED queueVars
      BY <1>7, <3>1 DEF queueVars
    <3>2. ASSUME NEW f \in Flows, AddFlow(f), orch[f] = "add"
          PROVE  queue[j] \in Waiting
      BY <1>1, <1>7, <3>2, JobIdFacts DEF AddFlow, NotAddedYet
    <3>3. ASSUME NEW p \in Procs, NEW k \in JobIds, Take(p, k)
          PROVE  queue[j] \in Waiting
      BY <1>1, <1>7, <3>3 DEF Take, TakeJob, QueueTypeOK
    <3>4. ASSUME NEW k \in JobIds, queue[k] = "active", MoveToCompleted(k)
          PROVE  queue[j] \in Waiting
      <4>1. CASE j = <<k[1], k[2] + 1>>
        <5>1. /\ j[1] = k[1] /\ j[2] = k[2] + 1 /\ k[2] < j[2] /\ k[1] \in Flows
              /\ k = <<k[1], k[2]>> /\ k[2] \in Steps(k[1]) /\ j[2] \in Steps(k[1])
          BY <4>1, JobIdFacts
        <5>2. queue[j] \notin {"active", "completed", "failed"}
          BY <1>1, <3>4, <4>1, <5>1, ChainUse
        <5> QED
          BY <1>1, <5>2 DEF QueueTypeOK, QueueStates
      <4>2. CASE j # <<k[1], k[2] + 1>>
        BY <1>7, <3>4, <4>2 DEF MoveToCompleted
      <4> QED
        BY <4>1, <4>2
    <3>5. ASSUME NEW k \in JobIds, MoveToFailed(k) \/ FailParent(k)
          PROVE  queue[j] \in Waiting
      BY <1>1, <1>7, <3>5 DEF MoveToFailed, FailParent, QueueTypeOK
    <3>6. ASSUME NEW p \in Procs, Ack(p)
          PROVE  exec[p].job \in JobIds
      BY <1>1, <3>6 DEF Ack, TypeOK, DispatcherTypeOK, CallType, Idle
    <3> HIDE DEF Waiting
    <3> QED
      BY <1>2, <1>3, <3>1, <3>2, <3>3, <3>4, <3>5, <3>6
      DEF Next, vars, Call, Start, Lookup, Add, JobsAdded, AddFails, AddThrew, Subscribe, Report,
          Worker, Dispatch, Ack, HoldsLock, Bull, Check, Deliver, FailChain
  <2>2. ~HasRow(j)
    BY <1>7, <2>1 DEF DeliveredOnce
  <2> QED
    BY <1>6, <1>7, <2>1, <2>2
<1>8. ASSUME NEW p \in Procs, Running(p)', exec'[p].pc \in {"read", "start"},
             Distinct(exec'[p].job[1])
      PROVE  ~HasRow(exec[p].job)'
  <2>1. ASSUME NEW j \in JobIds, Take(p, j)
        PROVE  ~HasRow(exec[p].job)'
    <3>1. exec'[p].job = j /\ queue[j] = "wait" /\ UNCHANGED rows
      BY <1>1, <2>1, TakeFacts
    <3>2. ~HasRow(j)
      BY <1>8, <3>1 DEF DeliveredOnce
    <3> QED
      BY <3>1, <3>2 DEF HasRow, RowKey, Name
  <2>2. CASE Running(p) /\ Dispatch(p) /\ exec'[p].job = exec[p].job
    <3>1. exec[p].pc \in {"read", "start"} /\ UNCHANGED rows
      <4>1. exec[p] \in CallType /\ UNCHANGED rows
        BY <1>1, <1>8, <2>2, RunningCall, DispatchProgress
      <4> QED
        BY <1>1, <1>8, <2>2, <4>1
        DEF Dispatch, DispatchStep, ReadNextData, MarkRunning, RunHandler, MarkSuccess,
            MarkFailed, TryFails, Goto, CallType, TypeOK, DispatcherTypeOK
    <3> QED
      BY <1>8, <2>2, <3>1 DEF DeliveredOnce, HasRow, RowKey, Name
  <2>3. CASE Running(p) /\ exec'[p] = exec[p]
    <3>1. exec[p].job \in JobIds /\ Distinct(exec[p].job[1]) /\ ~HasRow(exec[p].job)
      BY <1>1, <1>8, <2>3, RunningCall DEF DeliveredOnce
    <3>2. ASSUME rows'[RowKey(exec[p].job)] # NoRow PROVE FALSE
      <4> DEFINE j == exec[p].job
      <4>2. rows'[RowKey(j)] # rows[RowKey(j)]
        BY <3>1, <3>2 DEF HasRow
      <4>3. PICK q \in Procs, s \in {"RUNNING", "SUCCESS", "FAILED"} :
               Running(q) /\ Dispatch(q) /\ exec[q].job = j
        BY <1>1, <3>1, <4>2, JobRowWritten
      <4>4. q = p
        BY <1>1, <2>3, <4>3 DEF RunningHoldsLock, HoldsLock
      <4>5. UNCHANGED rows
        BY <1>1, <1>8, <4>3, <4>4, DispatchProgress
      <4> QED
        BY <4>2, <4>5
    <3> QED
      BY <2>3, <3>2 DEF HasRow, RowKey, Name
  <2> QED
    BY <1>1, <1>8, <2>1, <2>2, <2>3, CallsGoOn
<1> QED
  BY <1>4, <1>5, <1>7, <1>8 DEF DeliveredOnce, Distinct, Steps

\* Where no process crashes and no live worker loses its lock, every attempt of
\* a later step gets the result of the step before it: only re-deliveries break
\* LaterStepGetsPreviousResult.
THEOREM OnlyRetriesGetOtherData ==
    ASSUME LocksMayExpire = FALSE, MaxCrashes = 0, \A f \in Flows : Distinct(f)
    PROVE  Spec => []LaterStepGetsPreviousResult
<1>1. Init => DeliveredOnce
  <2> SUFFICES ASSUME Init PROVE DeliveredOnce
    OBVIOUS
  <2>1. \A p \in Procs : ~Running(p)
    BY DEF Init, DispatcherInit, Running
  <2>2. \A j \in JobIds : queue[j] = "absent" /\ ~HasRow(j)
    BY JobIdFacts DEF Init, QueueInit, DispatcherInit, HasRow
  <2> QED
    BY <2>1, <2>2 DEF DeliveredOnce, Init
<1>2. DeliveredOnce /\ DataInv => LaterStepGetsPreviousResult
  <2> SUFFICES ASSUME DeliveredOnce, DataInv, NEW p \in Procs, Running(p), exec[p].pc = "start"
               PROVE  exec[p].input = exec[p].job[2] - 1
    BY DEF LaterStepGetsPreviousResult
  <2>1. TypeOK /\ FirstAttemptGetsPreviousResult
    BY DataInvUse
  <2>2. Distinct(exec[p].job[1])
    BY <2>1, RunningCall, JobIdFacts
  <2>3. rows[RowKey(exec[p].job)] = NoRow
    BY <2>2 DEF DeliveredOnce, HasRow
  <2> QED
    BY <2>1, <2>2, <2>3 DEF FirstAttemptGetsPreviousResult
<1>3. Spec => []DeliveredOnce
  BY <1>1, AlwaysLockInv, NextDeliveredOnce, PTL DEF Spec
<1> QED
  BY <1>2, <1>3, AlwaysDataInv, PTL

===============================================================================
