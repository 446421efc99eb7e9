------------------------------ MODULE FlowQueue ------------------------------
(***************************************************************************)
(* The BullMQ queue of the system, as src/ uses it.  BullMQ itself is a    *)
(* library: this module is its contract, read off the options and calls    *)
(* of orchestrator.service.ts and worker.service.ts.                       *)
(*                                                                         *)
(* A flow is one call of OrchestratorService.orchestrate, identified by    *)
(* the uuid drawn for it.  Its job <<f, i>> stands for step i of the       *)
(* definition: job i is the only child of job i + 1, so step 1 is the      *)
(* deepest leaf and the last step is the root.  JobTree.tla checks that    *)
(* generateJob builds exactly this chain.                                  *)
(***************************************************************************)
EXTENDS Integers, Sequences

CONSTANTS
    Flows,            \* orchestrate calls (their uuids)
    Procs,            \* application processes, one worker slot each
    NoProc,           \* "nobody holds the lock"
    StepNames,        \* handler keys a step may name
    StepList,         \* StepList[f]: the handler keys of f's definition, by order
    MaxStalledCount,  \* BullMQ's bound on re-deliveries of a stalled job
    LocksMayExpire    \* TRUE: a live worker may lose its job lock

ASSUME FlowQueueAssumption ==
    /\ NoProc \notin Procs
    /\ StepList \in [Flows -> Seq(StepNames)]
    /\ MaxStalledCount \in Nat
    /\ LocksMayExpire \in BOOLEAN

VARIABLES
    queue,   \* queue[j]: where job j is in BullMQ
    lock,    \* lock[j]: the process whose lock token is on job j
    stalls   \* stalls[j]: how often j was found stalled

queueVars == <<queue, lock, stalls>>

Steps(f) == 1 .. Len(StepList[f])

JobIds == UNION {{f} \X Steps(f) : f \in Flows}

Name(j) == StepList[j[1]][j[2]]

\* "completed" and "failed" jobs are gone from Redis: removeOnComplete and
\* removeOnFail are set on every job of a flow.
QueueStates == {"absent", "waiting-children", "wait", "active", "completed", "failed"}

Finished(j) == queue[j] \in {"completed", "failed"}

QueueTypeOK ==
    /\ queue \in [JobIds -> QueueStates]
    /\ lock \in [JobIds -> Procs \cup {NoProc}]
    /\ stalls \in [JobIds -> Nat]

QueueInit ==
    /\ queue = [j \in JobIds |-> "absent"]
    /\ lock = [j \in JobIds |-> NoProc]
    /\ stalls = [j \in JobIds |-> 0]

\* Mutant of AddFlow: the jobs are added side by side, not nested.
AddFlat(f) ==
    /\ queue' = [j \in JobIds |-> IF j[1] = f THEN "wait" ELSE queue[j]]
    /\ UNCHANGED <<lock, stalls>>

\* FlowProducer.add writes the whole tree in one transaction; only the leaf
\* is ready to run.
AddFlow(f) ==
    /\ queue' = [j \in JobIds |->
                   IF j[1] # f THEN queue[j]
                   ELSE IF j[2] = 1 THEN "wait" ELSE "waiting-children"]
    /\ UNCHANGED <<lock, stalls>>

\* A worker fetches a waiting job and locks it.
TakeJob(p, j) ==
    /\ queue[j] = "wait"
    /\ queue' = [queue EXCEPT ![j] = "active"]
    /\ lock' = [lock EXCEPT ![j] = p]
    /\ UNCHANGED stalls

HoldsLock(p, j) == queue[j] = "active" /\ lock[j] = p

\* Completion releases the parent, whose only child this was.
MoveToCompleted(j) ==
    /\ queue' = [k \in JobIds |->
                   IF k = j THEN "completed"
                   ELSE IF k = <<j[1], j[2] + 1>> THEN "wait" ELSE queue[k]]
    /\ lock' = [lock EXCEPT ![j] = NoProc]
    /\ UNCHANGED stalls

MoveToFailed(j) ==
    /\ queue' = [queue EXCEPT ![j] = "failed"]
    /\ lock' = [lock EXCEPT ![j] = NoProc]
    /\ UNCHANGED stalls

\* Mutant of FailParent: a failed child releases its parent.
ReleaseParent(j) ==
    /\ queue[j] = "waiting-children"
    /\ j[2] > 1
    /\ queue[<<j[1], j[2] - 1>>] = "failed"
    /\ queue' = [queue EXCEPT ![j] = "wait"]
    /\ UNCHANGED <<lock, stalls>>

\* Mutant of FailParent: failParentOnFailure is not set.
KeepParentWaiting(j) == FALSE /\ UNCHANGED queueVars

\* failParentOnFailure: the parent of a failed job fails without being run.
FailParent(j) ==
    /\ queue[j] = "waiting-children"
    /\ j[2] > 1
    /\ queue[<<j[1], j[2] - 1>>] = "failed"
    /\ queue' = [queue EXCEPT ![j] = "failed"]
    /\ UNCHANGED <<lock, stalls>>

\* Mutant of RecoverStalled: one delivery too many.
RecoverOnceMore(j) ==
    /\ queue[j] = "active"
    /\ queue' = [queue EXCEPT ![j] =
                   IF stalls[j] =< MaxStalledCount THEN "wait" ELSE "failed"]
    /\ lock' = [lock EXCEPT ![j] = NoProc]
    /\ stalls' = [stalls EXCEPT ![j] = @ + 1]

\* The stalled-job check finds an active job whose lock is gone: it goes back
\* to the wait list, or fails once it stalled more than MaxStalledCount times.
RecoverStalled(j) ==
    /\ queue[j] = "active"
    /\ queue' = [queue EXCEPT ![j] =
                   IF stalls[j] < MaxStalledCount THEN "wait" ELSE "failed"]
    /\ lock' = [lock EXCEPT ![j] = NoProc]
    /\ stalls' = [stalls EXCEPT ![j] = @ + 1]
=============================================================================
