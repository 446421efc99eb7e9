----------------------------- MODULE Orchestrator -----------------------------
(***************************************************************************)
(* OrchestratorService.orchestrate: look the definition up, add the flow   *)
(* to the queue, wait for every job of it with waitUntilFinished, report.  *)
(* The call lives in the memory of the process that runs it.               *)
(***************************************************************************)
EXTENDS FlowQueue

VARIABLES
    orch,   \* orch[f]: where the orchestrate call of f is, or its outcome
    host,   \* host[f]: the process the call runs in
    waits   \* waits[j]: the waitUntilFinished promise of job j

orchVars == <<orch, host, waits>>

\* "THROWN": orchestrate rejected.  "LOST": its process died before it settled.
Outcomes == {"SUCCESS", "FAILED", "THROWN", "LOST"}

InFlight == {"lookup", "add", "subscribe", "wait"}

WaitStates == {"none", "listening", "pending", "resolved", "rejected"}

OrchTypeOK ==
    /\ orch \in [Flows -> {"idle"} \cup InFlight \cup Outcomes]
    /\ host \in [Flows -> Procs \cup {NoProc}]
    /\ waits \in [JobIds -> WaitStates]

OrchInit ==
    /\ orch = [f \in Flows |-> "idle"]
    /\ host = [f \in Flows |-> NoProc]
    /\ waits = [j \in JobIds |-> "none"]

Orchestrate(p, f) ==
    /\ orch[f] = "idle"
    /\ orch' = [orch EXCEPT ![f] = "lookup"]
    /\ host' = [host EXCEPT ![f] = p]
    /\ UNCHANGED waits

\* getJobDefinition: the cache or the database answers, or the call throws
\* (NotFoundException, a failing cache or database).
GetJobDefinition(f) ==
    /\ orch[f] = "lookup"
    /\ \E next \in {"add", "THROWN"} : orch' = [orch EXCEPT ![f] = next]
    /\ UNCHANGED <<host, waits>>

\* flowProducer.add resolved.  (generateJob returns null for an empty step
\* list, which add cannot take.)
JobsAdded(f) ==
    /\ orch[f] = "add"
    /\ StepList[f] # <<>>
    /\ orch' = [orch EXCEPT ![f] = "subscribe"]
    /\ UNCHANGED <<host, waits>>

AddThrew(f) ==
    /\ orch[f] = "add"
    /\ orch' = [orch EXCEPT ![f] = "THROWN"]
    /\ UNCHANGED <<host, waits>>

\* Promise.allSettled(flatJobNodes.map(waitUntilFinished)) registers a listener
\* for every job of the flow.
WaitForJobs(f) ==
    /\ orch[f] = "subscribe"
    /\ orch' = [orch EXCEPT ![f] = "wait"]
    /\ waits' = [j \in JobIds |-> IF j[1] = f THEN "listening" ELSE waits[j]]
    /\ UNCHANGED host

\* waitUntilFinished then asks Redis whether the job is already over.  A
\* finished job has been removed, so the answer for it is "missing key" and
\* the promise rejects, whatever the outcome of the job was.
CheckFinished(j) ==
    /\ waits[j] = "listening"
    /\ waits' = [waits EXCEPT ![j] = IF Finished(j) THEN "rejected" ELSE "pending"]
    /\ UNCHANGED <<orch, host>>

\* QueueEvents delivers the completed or failed event of j to the listener.
DeliverEvent(j) ==
    /\ waits[j] \in {"listening", "pending"}
    /\ Finished(j)
    /\ waits' = [waits EXCEPT ![j] =
                   IF queue[j] = "completed" THEN "resolved" ELSE "rejected"]
    /\ UNCHANGED <<orch, host>>

\* Mutant of Settle: the call fails only if every wait was rejected.
SettleAny(f) ==
    /\ orch[f] = "wait"
    /\ \A i \in Steps(f) : waits[<<f, i>>] \in {"resolved", "rejected"}
    /\ orch' = [orch EXCEPT ![f] =
                  IF \A i \in Steps(f) : waits[<<f, i>>] = "rejected"
                  THEN "FAILED" ELSE "SUCCESS"]
    /\ UNCHANGED <<host, waits>>

\* Mutant of Settle: only resolved promises count as settled.
SettleResolved(f) ==
    /\ orch[f] = "wait"
    /\ \A i \in Steps(f) : waits[<<f, i>>] = "resolved"
    /\ orch' = [orch EXCEPT ![f] = "SUCCESS"]
    /\ UNCHANGED <<host, waits>>

\* allSettled: one rejected wait makes the result FAILED.
Settle(f) ==
    /\ orch[f] = "wait"
    /\ \A i \in Steps(f) : waits[<<f, i>>] \in {"resolved", "rejected"}
    /\ orch' = [orch EXCEPT ![f] =
                  IF \E i \in Steps(f) : waits[<<f, i>>] = "rejected"
                  THEN "FAILED" ELSE "SUCCESS"]
    /\ UNCHANGED <<host, waits>>

\* The process of the call dies and the promises with it.
LoseCalls(p) ==
    LET lost(f) == host[f] = p /\ orch[f] \in InFlight
    IN  /\ orch' = [f \in Flows |-> IF lost(f) THEN "LOST" ELSE orch[f]]
        /\ waits' = [j \in JobIds |-> IF lost(j[1]) THEN "none" ELSE waits[j]]
        /\ UNCHANGED host
=============================================================================
