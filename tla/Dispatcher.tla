------------------------------ MODULE Dispatcher ------------------------------
(***************************************************************************)
(* WorkerService.process and DispatcherService.dispatch over the           *)
(* JOB_INSTANCE table.  dispatch is split where it awaits: the read of     *)
(* getNextData, the RUNNING upsert, the handler, the SUCCESS or FAILED     *)
(* upsert.  Any await on the database may reject, and a rejected upsert    *)
(* may or may not have been committed.                                     *)
(*                                                                         *)
(* Data is abstracted to its origin: 0 stands for the request data of the  *)
(* flow (and for a null JOB_RESULT), i > 0 for the result of step i.       *)
(***************************************************************************)
EXTENDS FlowQueue

CONSTANT Registered   \* the keys JobRegistry found a @JobHandler for

VARIABLES
    rows,    \* rows[<<f, name>>]: the JOB_INSTANCE row with that uuid and name
    exec,    \* exec[p]: the dispatch call p's worker slot is in
    ticks    \* ticks[f]: dispatch calls made for f; orders the startedAt stamps

dispatcherVars == <<rows, exec, ticks>>

NoRow == [state |-> "NONE", result |-> 0, startedAt |-> 0]

RowType == [state : {"NONE", "RUNNING", "SUCCESS", "FAILED"},
            result : Nat, startedAt : Nat]

Idle == [pc |-> "idle"]

\* pc names the await the call is about to make: the read of getNextData, the
\* RUNNING upsert, the handler, the SUCCESS or FAILED upsert, or the return of
\* the outcome to BullMQ.
CallPCs == {"read", "start", "run", "succeed", "fail", "resolved", "rejected"}

CallType == [pc : CallPCs, job : JobIds, input : Nat, startedAt : Nat]

DispatcherTypeOK ==
    /\ rows \in [Flows \X StepNames -> RowType]
    /\ exec \in [Procs -> CallType \cup {Idle}]
    /\ ticks \in [Flows -> Nat]

DispatcherInit ==
    /\ rows = [r \in Flows \X StepNames |-> NoRow]
    /\ exec = [p \in Procs |-> Idle]
    /\ ticks = [f \in Flows |-> 0]

\* Mutant of RowKey: the row is found by its uuid alone.
RowKeyOfFlow(j) == <<j[1], StepList[j[1]][1]>>

RowKey(j) == <<j[1], Name(j)>>

\* Mutant of NextData: only rows that say SUCCESS are read.
SucceededData(f) ==
    LET succeeded == {n \in StepNames : rows[<<f, n>>].state = "SUCCESS"}
        last      == {n \in succeeded :
                        \A m \in succeeded : rows[<<f, m>>].startedAt =< rows[<<f, n>>].startedAt}
    IN  IF last = {} THEN 0 ELSE rows[<<f, CHOOSE n \in last : TRUE>>].result

\* getNextData: the result of the row of this uuid that started last;
\* `?? data` turns "no row" and "null result" both into the request data.
NextData(f) ==
    LET started == {n \in StepNames : rows[<<f, n>>].state # "NONE"}
        last    == {n \in started :
                      \A m \in started : rows[<<f, m>>].startedAt =< rows[<<f, n>>].startedAt}
    IN  IF last = {} THEN 0 ELSE rows[<<f, CHOOSE n \in last : TRUE>>].result

\* Mutant of Upsert: job.constants.ts names the state COMPLETED.
UpsertCompleted(row, state, result, startedAt) ==
    [state |-> IF state = "SUCCESS" THEN "COMPLETED" ELSE state,
     result |-> IF state = "SUCCESS" THEN result ELSE row.result,
     startedAt |-> IF row.state = "NONE" THEN startedAt ELSE row.startedAt]

\* upsertJobInstance: startedAt is written on create only; a field that is
\* undefined in the call (result, except on SUCCESS) keeps its old value.
Upsert(row, state, result, startedAt) ==
    [state |-> state,
     result |-> IF state = "SUCCESS" THEN result ELSE row.result,
     startedAt |-> IF row.state = "NONE" THEN startedAt ELSE row.startedAt]

UpsertRow(p, state) ==
    LET c == exec[p]
    IN  rows' = [rows EXCEPT ![RowKey(c.job)] =
                   Upsert(@, state, c.job[2], c.startedAt)]

Goto(p, pc) == exec' = [exec EXCEPT ![p].pc = pc]

\* WorkerService.process -> dispatch: startedAt is taken before any await.
BeginDispatch(p, j) ==
    /\ exec[p] = Idle
    /\ exec' = [exec EXCEPT ![p] = [pc |-> "read", job |-> j, input |-> 0,
                                    startedAt |-> ticks[j[1]] + 1]]
    /\ ticks' = [ticks EXCEPT ![j[1]] = @ + 1]
    /\ UNCHANGED rows

\* A database await of the try block rejects, with or without its write done.
TryFails(p, state) ==
    /\ UpsertRow(p, state) \/ UNCHANGED rows
    /\ Goto(p, "fail")

ReadNextData(p) ==
    /\ exec[p].pc = "read"
    /\ \/ exec' = [exec EXCEPT ![p].pc = "start",
                               ![p].input = NextData(exec[p].job[1])]
       \/ Goto(p, "fail")
    /\ UNCHANGED <<rows, ticks>>

MarkRunning(p) ==
    /\ exec[p].pc = "start"
    /\ \/ UpsertRow(p, "RUNNING") /\ Goto(p, "run")
       \/ TryFails(p, "RUNNING")
    /\ UNCHANGED ticks

\* jobRegistry.get and job.run: an unknown key and a handler's exception both
\* end in the catch block.
RunHandler(p) ==
    /\ exec[p].pc = "run"
    /\ \/ Name(exec[p].job) \in Registered /\ Goto(p, "succeed")
       \/ Goto(p, "fail")
    /\ UNCHANGED <<rows, ticks>>

\* Mutant of MarkSuccess: an upsert that rejects is logged and forgotten.
MarkSuccessLeniently(p) ==
    /\ exec[p].pc = "succeed"
    /\ UpsertRow(p, "SUCCESS") \/ UNCHANGED rows
    /\ Goto(p, "resolved")
    /\ UNCHANGED ticks

MarkSuccess(p) ==
    /\ exec[p].pc = "succeed"
    /\ \/ UpsertRow(p, "SUCCESS") /\ Goto(p, "resolved")
       \/ TryFails(p, "SUCCESS")
    /\ UNCHANGED ticks

\* The catch block: whether its own upsert succeeds or rejects, dispatch
\* rejects.
MarkFailed(p) ==
    /\ exec[p].pc = "fail"
    /\ UpsertRow(p, "FAILED") \/ UNCHANGED rows
    /\ Goto(p, "rejected")
    /\ UNCHANGED ticks

EndDispatch(p) ==
    /\ exec' = [exec EXCEPT ![p] = Idle]
    /\ UNCHANGED <<rows, ticks>>

DispatchStep(p) ==
    \/ ReadNextData(p)
    \/ MarkRunning(p)
    \/ RunHandler(p)
    \/ MarkSuccess(p)
    \/ MarkFailed(p)
=============================================================================
