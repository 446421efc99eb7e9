-------------------------- MODULE EngineProperties --------------------------
(***************************************************************************)
(* What the engine is expected to guarantee.  A property whose comment     *)
(* says "locks held" is only claimed when LocksMayExpire is FALSE.         *)
(***************************************************************************)
EXTENDS Engine

\* No step name occurs twice in the definition of f.
Distinct(f) ==
    \A i, k \in Steps(f) : i # k => StepList[f][i] # StepList[f][k]

Running(p) == exec[p] # Idle

-------------------------------------------------------------------------------
(* The abstract flow: "done" and "stopped" are read off the queue, "report" *)
(* off the call.                                                            *)

FlowLength == [f \in Flows |-> Len(StepList[f])]

FlowDone == [f \in Flows |-> {i \in Steps(f) : queue[<<f, i>>] = "completed"}]

FlowStopped == [f \in Flows |-> \E i \in Steps(f) : queue[<<f, i>>] = "failed"]

FlowReport == [f \in Flows |-> IF orch[f] = "SUCCESS" THEN "SUCCESS"
                               ELSE IF orch[f] \in {"FAILED", "THROWN"} THEN "FAILED"
                               ELSE "NONE"]

LF == INSTANCE LinearFlow WITH
        NumSteps <- FlowLength, done <- FlowDone, stopped <- FlowStopped,
        report <- FlowReport

\* Whatever fails, crashes or stalls, a flow is carried out step by step in the
\* order of its definition, nothing is done after a failed step, and
\* orchestrate returns SUCCESS only when every step is done
\* (generateJob's chain, failParentOnFailure, allSettled).
ImplementsLinearFlow == LF!Spec

\* The queue never hands out a step before the ones in front of it are done,
\* and a failed step only has finished ones in front of it.  (generateJob: job i
\* is the only child of job i + 1.)
ChainInOrder ==
    \A f \in Flows : \A i \in Steps(f) : \A k \in 1 .. i - 1 :
        /\ queue[<<f, i>>] \in {"wait", "active", "completed"} => queue[<<f, k>>] = "completed"
        /\ queue[<<f, i>>] = "failed" => Finished(<<f, k>>)

\* After a step failed for good no later step leaves a trace: it never gets a
\* JOB_INSTANCE row, not even from an attempt that outlived its lock.
FailedStepStopsFlow ==
    \A f \in Flows : \A i, k \in Steps(f) :
        Distinct(f) /\ queue[<<f, i>>] = "failed" /\ k > i
            => rows[<<f, StepList[f][k]>>] = NoRow

\* The first attempt of a step is given the result of the step before it (0,
\* the request, for the first step), under every fault: getNextData picks the
\* row that started last.
FirstAttemptGetsPreviousResult ==
    \A p \in Procs :
        LET j == exec[p].job
        IN  Running(p) /\ Distinct(j[1]) /\ exec[p].pc = "start" /\ rows[RowKey(j)] = NoRow
                => exec[p].input = j[2] - 1

\* Locks held: the steps of one flow are attempted one at a time; a retry never
\* overlaps the attempt it replaces (README.md: the steps run sequentially).
OneAttemptAtATime ==
    \A p, q \in Procs :
        Running(p) /\ Running(q) /\ exec[p].job[1] = exec[q].job[1] => p = q

\* Locks held: BullMQ counts a step as completed only after its SUCCESS row and
\* its result are in the database, so the next step can read them.
CompletedMeansPersisted ==
    \A j \in JobIds :
        Distinct(j[1]) /\ queue[j] = "completed"
            => rows[RowKey(j)].state = "SUCCESS" /\ rows[RowKey(j)].result = j[2]

\* Locks held: once BullMQ has finished a job, nothing writes its row any more;
\* what the database says of a step then is what it will always say.
FinishedRowsFrozen ==
    [][\A j \in JobIds : Distinct(j[1]) /\ Finished(j)
            => rows'[RowKey(j)] = rows[RowKey(j)]]_vars

\* Every attempt of a later step, retry or not, is given the result of the step
\* before it (dispatcher.service.spec.ts:133: if there is a result of the
\* previous job, the next job runs on it).
LaterStepGetsPreviousResult ==
    \A p \in Procs :
        Running(p) /\ exec[p].pc = "start" /\ exec[p].job[2] > 1
            => exec[p].input = exec[p].job[2] - 1

\* A step is given to a dispatch call at most MaxStalledCount + 1 times, crashes
\* and lost locks included: no attempts are configured, so only the
\* stalled-job check delivers it again, and that gives up on it in the end.
AttemptsBounded == \A j \in JobIds : attempts[j] =< MaxStalledCount + 1

\* orchestrate reports FAILED only if some step failed
\* (orchestrator.service.spec.ts: all jobs completed, so the state is SUCCESS).
FailedReportHasFailedStep ==
    \A f \in Flows : orch[f] = "FAILED" => \E i \in Steps(f) : queue[<<f, i>>] = "failed"

-------------------------------------------------------------------------------
(* Liveness *)

\* Every orchestrate call gets an answer, unless its process dies first
\* (allSettled waits for every job, so every job of the flow has to end and its
\* end has to reach the caller).
EveryCallSettles ==
    \A f \in Flows : orch[f] = "lookup" ~> orch[f] \in Outcomes

\* A flow that was added to the queue runs to its end even if processes crash:
\* no job of it waits forever for a child, a lock or a worker.
EveryFlowEnds ==
    \A f \in Flows : \A i \in Steps(f) :
        queue[<<f, i>>] # "absent" ~> Finished(<<f, i>>)
=============================================================================
