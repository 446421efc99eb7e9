-------------------------------- MODULE Engine --------------------------------
(***************************************************************************)
(* The execution engine: OrchestratorService, the BullMQ queue, the        *)
(* workers and DispatcherService put together.  A process (Procs) is one   *)
(* run of the application: it answers orchestrate calls and its worker     *)
(* takes one job at a time (BullMQ's default concurrency; worker.service.ts *)
(* sets none).  A process may crash: its orchestrate calls and the handler *)
(* it runs are gone, the queue (Redis) and the rows (MySQL) stay, and it is *)
(* started again.                                                          *)
(***************************************************************************)
EXTENDS Dispatcher, Orchestrator

CONSTANT MaxCrashes   \* bound on the crashes of a behaviour

ASSUME EngineAssumption == MaxCrashes \in Nat

VARIABLES
    crashes,     \* how many there were
    attempts     \* history: how often each job was given to a dispatch call

engineVars == <<crashes, attempts>>

vars == <<queueVars, dispatcherVars, orchVars, engineVars>>

TypeOK ==
    /\ QueueTypeOK
    /\ DispatcherTypeOK
    /\ OrchTypeOK
    /\ crashes \in Nat
    /\ attempts \in [JobIds -> Nat]

Init ==
    /\ QueueInit
    /\ DispatcherInit
    /\ OrchInit
    /\ crashes = 0
    /\ attempts = [j \in JobIds |-> 0]

-------------------------------------------------------------------------------
(* The orchestrate call of a flow. *)

Start(p, f) ==
    /\ Orchestrate(p, f)
    /\ UNCHANGED <<queueVars, dispatcherVars, engineVars>>

Lookup(f) ==
    /\ GetJobDefinition(f)
    /\ UNCHANGED <<queueVars, dispatcherVars, engineVars>>

Add(f) ==
    /\ JobsAdded(f)
    /\ AddFlow(f)
    /\ UNCHANGED <<dispatcherVars, engineVars>>

\* flowProducer.add rejects: the jobs may be in Redis nevertheless.
AddFails(f) ==
    /\ AddThrew(f)
    /\ AddFlow(f) \/ UNCHANGED queueVars
    /\ UNCHANGED <<dispatcherVars, engineVars>>

Subscribe(f) ==
    /\ WaitForJobs(f)
    /\ UNCHANGED <<queueVars, dispatcherVars, engineVars>>

Check(j) ==
    /\ CheckFinished(j)
    /\ UNCHANGED <<queueVars, dispatcherVars, engineVars>>

Deliver(j) ==
    /\ DeliverEvent(j)
    /\ UNCHANGED <<queueVars, dispatcherVars, engineVars>>

Report(f) ==
    /\ Settle(f)
    /\ UNCHANGED <<queueVars, dispatcherVars, engineVars>>

-------------------------------------------------------------------------------
(* The worker of a process. *)

Take(p, j) ==
    /\ BeginDispatch(p, j)
    /\ TakeJob(p, j)
    /\ attempts' = [attempts EXCEPT ![j] = @ + 1]
    /\ UNCHANGED <<orchVars, crashes>>

Dispatch(p) ==
    /\ DispatchStep(p)
    /\ UNCHANGED <<queueVars, orchVars, engineVars>>

\* process() returned or threw.  BullMQ moves the job, if the worker still
\* has its lock; otherwise the outcome is dropped.  No attempts are configured,
\* so the first rejection is final.
Ack(p) ==
    /\ exec[p].pc \in {"resolved", "rejected"}
    /\ LET j == exec[p].job
       IN  IF ~HoldsLock(p, j) THEN UNCHANGED queueVars
           ELSE IF exec[p].pc = "resolved" THEN MoveToCompleted(j)
           ELSE MoveToFailed(j)
    /\ EndDispatch(p)
    /\ UNCHANGED <<orchVars, engineVars>>

-------------------------------------------------------------------------------
(* What BullMQ does on its own, and crashes. *)

FailChain(j) ==
    /\ FailParent(j)
    /\ UNCHANGED <<dispatcherVars, orchVars, engineVars>>

\* Does the worker that locked j still run it?
Alive(j) == \E p \in Procs : lock[j] = p /\ exec[p] # Idle /\ exec[p].job = j

Stall(j) ==
    /\ LocksMayExpire \/ ~Alive(j)
    /\ RecoverStalled(j)
    /\ UNCHANGED <<dispatcherVars, orchVars, engineVars>>

Crash(p) ==
    /\ crashes < MaxCrashes
    /\ crashes' = crashes + 1
    /\ LoseCalls(p)
    /\ EndDispatch(p)
    /\ UNCHANGED <<queueVars, attempts>>

-------------------------------------------------------------------------------

Call(f) ==
    \/ \E p \in Procs : Start(p, f)
    \/ Lookup(f)
    \/ Add(f)
    \/ AddFails(f)
    \/ Subscribe(f)
    \/ Report(f)

Worker(p) ==
    \/ \E j \in JobIds : Take(p, j)
    \/ Dispatch(p)
    \/ Ack(p)

Bull(j) == Check(j) \/ Deliver(j) \/ FailChain(j) \/ Stall(j)

Next ==
    \/ \E f \in Flows : Call(f)
    \/ \E p \in Procs : Worker(p) \/ Crash(p)
    \/ \E j \in JobIds : Bull(j)

Spec == Init /\ [][Next]_vars

\* Every await ends: database and Redis calls answer, handlers return or
\* throw, and BullMQ serves its queue and its events.  Nothing makes a caller
\* start a flow.
Fairness ==
    /\ \A f \in Flows : WF_vars(Lookup(f) \/ Add(f) \/ AddFails(f)
                                \/ Subscribe(f) \/ Report(f))
    /\ \A p \in Procs : WF_vars(Worker(p))
    /\ \A j \in JobIds : WF_vars(Bull(j))

FairSpec == Spec /\ Fairness
=============================================================================
