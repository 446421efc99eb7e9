--------------------------- MODULE BatchScheduler ---------------------------
(***************************************************************************)
(* BatchService's schedules: the BATCH_DEFINITION table, the cron jobs in  *)
(* SchedulerRegistry (the memory of the process), and the calls that       *)
(* rewrite one from the other: saveBatchDefinition, deleteBatchDefinition  *)
(* and the synchronization BatchModule.onModuleInit makes at boot.         *)
(*                                                                         *)
(* synchronizeBatchDefinition clears the registry, awaits the definitions  *)
(* and adds them; calls of different requests interleave at its awaits.    *)
(* The loop that adds awaits only promises that are already resolved, so   *)
(* no other request runs inside it.                                        *)
(***************************************************************************)
EXTENDS Integers

CONSTANTS
    Calls,       \* POST /definition and DELETE /definition/:no requests
    Boot,        \* the call of onModuleInit
    NoCall,
    Defs,        \* BATCH_DEFINITION_NO values
    NoDef,
    Names,
    DefName,     \* DefName[d]: the name d is saved with; not unique in the table
    BadCron,     \* definitions whose cron passes @IsCron but not CronJob
    MaxCrashes   \* bound on the restarts of a behaviour

ASSUME SchedulerAssumption ==
    /\ Boot \notin Calls
    /\ NoCall \notin Calls \cup {Boot}
    /\ Defs \subseteq Nat
    /\ NoDef \notin Defs
    /\ DefName \in [Defs -> Names]
    /\ BadCron \subseteq Defs
    /\ MaxCrashes \in Nat

VARIABLES
    table,      \* table[d]: the state of d's row; "deleted" has a deletedAt
    crons,      \* crons[n]: the definition whose cron job has the name n
    calls,      \* calls[c]: where the call is, or how it ended
    lastClear,  \* history: the call that emptied the registry last
    crashes

vars == <<table, crons, calls, lastClear, crashes>>

AllCalls == Calls \cup {Boot}

\* "refused": the database rejected a request; "failed": addSchedule threw;
\* "lost": the process died.
CallEnds == {"done", "refused", "failed", "lost"}

CallPCs == {"idle", "write", "clear", "find", "add"} \cup CallEnds

\* no: the definition the call saves or deletes, known once its write is done.
CallType == [pc : CallPCs, op : {"save", "delete", "boot"},
             no : Defs \cup {NoDef}, found : SUBSET Defs]

TypeOK ==
    /\ table \in [Defs -> {"none", "live", "deleted"}]
    /\ crons \in [Names -> Defs \cup {NoDef}]
    /\ calls \in [AllCalls -> CallType]
    /\ lastClear \in AllCalls \cup {NoCall}
    /\ crashes \in Nat

Call(pc, op, no) == [pc |-> pc, op |-> op, no |-> no, found |-> {}]

Init ==
    /\ table = [d \in Defs |-> "none"]
    /\ crons = [n \in Names |-> NoDef]
    /\ calls = [c \in AllCalls |-> IF c = Boot THEN Call("clear", "boot", NoDef)
                                               ELSE Call("idle", "save", NoDef)]
    /\ lastClear = NoCall
    /\ crashes = 0

Live == {d \in Defs : table[d] = "live"}

\* Nest listens for requests only after every onModuleInit resolved.
Up == calls[Boot].pc = "done"

Goto(c, pc) == calls' = [calls EXCEPT ![c].pc = pc]

-------------------------------------------------------------------------------

Request(c) ==
    /\ Up
    /\ calls[c].pc = "idle"
    /\ \/ calls' = [calls EXCEPT ![c] = Call("write", "save", NoDef)]
       \/ \E d \in Defs : calls' = [calls EXCEPT ![c] = Call("write", "delete", d)]
    /\ UNCHANGED <<table, crons, lastClear, crashes>>

\* The insert, or the update that sets deletedAt, is committed.  Whether the
\* caller learns of it or sees a rejection is decided here too: a call whose
\* write rejects does not synchronize.
WriteRow(c, d, state) ==
    /\ table' = [table EXCEPT ![d] = state]
    /\ \E pc \in {"clear", "refused"} :
          calls' = [calls EXCEPT ![c].pc = pc, ![c].no = d]

\* Mutant of Save: the call remembers the number after the one it was given.
SaveNumberAfter(c) ==
    /\ calls[c].pc = "write" /\ calls[c].op = "save"
    /\ \E d \in Defs :
          /\ table[d] = "none"
          /\ table' = [table EXCEPT ![d] = "live"]
          /\ calls' = [calls EXCEPT ![c].pc = "clear", ![c].no = d + 1]
    /\ UNCHANGED <<crons, lastClear, crashes>>

Save(c) ==
    /\ calls[c].pc = "write" /\ calls[c].op = "save"
    /\ \/ \E d \in Defs : table[d] = "none" /\ WriteRow(c, d, "live")
       \/ Goto(c, "refused") /\ UNCHANGED table
    /\ UNCHANGED <<crons, lastClear, crashes>>

\* Updating a row that does not exist is a rejection.
Delete(c) ==
    /\ calls[c].pc = "write" /\ calls[c].op = "delete"
    /\ \/ table[calls[c].no] # "none" /\ WriteRow(c, calls[c].no, "deleted")
       \/ Goto(c, "refused") /\ UNCHANGED table
    /\ UNCHANGED <<crons, lastClear, crashes>>

\* synchronizeBatchDefinition up to its await: every cron job is deleted.
Clear(c) ==
    /\ calls[c].pc = "clear"
    /\ crons' = [n \in Names |-> NoDef]
    /\ lastClear' = c
    /\ Goto(c, "find")
    /\ UNCHANGED <<table, crashes>>

\* Mutant of FindAll: the deleted rows are found too.
FindDeletedToo(c) ==
    /\ calls[c].pc = "find"
    /\ calls' = [calls EXCEPT ![c].pc = "add", ![c].found = {d \in Defs : table[d] # "none"}]
    /\ UNCHANGED <<table, crons, lastClear, crashes>>

\* findAllBatchDefinition: where deletedAt is null.
FindAll(c) ==
    /\ calls[c].pc = "find"
    /\ \/ calls' = [calls EXCEPT ![c].pc = "add", ![c].found = Live]
       \/ Goto(c, "refused")
    /\ UNCHANGED <<table, crons, lastClear, crashes>>

\* Mutant of Addable: a name that is taken is written over.
AddableAnyName(d, found) == d \notin BadCron

\* addSchedule throws when CronJob refuses the expression, and when
\* addCronJob finds a cron job of that name: one that is there already, or one
\* this loop added for an earlier row.
Addable(d, found) ==
    /\ d \notin BadCron
    /\ crons[DefName[d]] = NoDef
    /\ \A e \in found : e < d => DefName[e] # DefName[d]

\* The loop over the rows, in the order of their numbers, up to the first throw.
Added(found) == {d \in found : \A e \in found : e =< d => Addable(e, found)}

AddSchedules(c) ==
    /\ calls[c].pc = "add"
    /\ LET found == calls[c].found
           added == Added(found)
       IN  /\ crons' = [n \in Names |->
                          IF \E d \in added : DefName[d] = n
                          THEN CHOOSE d \in added : DefName[d] = n
                          ELSE crons[n]]
           /\ Goto(c, IF added = found THEN "done" ELSE "failed")
    /\ UNCHANGED <<table, lastClear, crashes>>

\* The process dies, or exits because its boot failed, and is started again:
\* the registry is empty, the table is not.
Restart ==
    /\ crashes < MaxCrashes
    /\ crashes' = crashes + 1
    /\ crons' = [n \in Names |-> NoDef]
    /\ lastClear' = NoCall
    /\ calls' = [c \in AllCalls |->
                   IF c = Boot THEN Call("clear", "boot", NoDef)
                   ELSE IF calls[c].pc \in {"write", "clear", "find", "add"}
                   THEN [calls[c] EXCEPT !.pc = "lost"] ELSE calls[c]]
    /\ UNCHANGED table

Next ==
    \/ \E c \in Calls : Request(c) \/ Save(c) \/ Delete(c)
    \/ \E c \in AllCalls : Clear(c) \/ FindAll(c) \/ AddSchedules(c)
    \/ Restart

Spec == Init /\ [][Next]_vars

-------------------------------------------------------------------------------
(* Properties *)

Cleared(c) == calls[c].pc \in {"find", "add", "done", "failed"}

\* A definition somebody saved and whose row is not deleted is scheduled, unless
\* the synchronization that emptied the registry last is still under way or
\* went wrong: overlapping calls may fail each other, but when the last one ends
\* well nothing is missing (synchronizeBatchDefinition clears before it reads).
NoMissedSchedule ==
    lastClear # NoCall /\ calls[lastClear].pc = "done" =>
        \A c \in Calls :
            Cleared(c) /\ calls[c].op = "save" /\ table[calls[c].no] = "live"
                => crons[DefName[calls[c].no]] = calls[c].no

\* The application fails to boot over its schedules only if a definition in the
\* table cannot be scheduled, alone or beside another one.  A deleted one never
\* stands in the way.
BootFailsOnlyOnPoison ==
    calls[Boot].pc = "failed" =>
        \E d \in Live : d \in BadCron \/ \E e \in Live : e # d /\ DefName[e] = DefName[d]

\* When nothing is under way and every call ended well, only definitions that
\* are not deleted are scheduled (batch.service.spec.ts:133 and :389: the
\* synchronization replaces the old cron jobs, also after a delete).
NoStaleSchedule ==
    (\A c \in AllCalls : calls[c].pc \in {"idle", "done"}) =>
        \A n \in Names : crons[n] \in Live \cup {NoDef}
=============================================================================
