--------------------------- MODULE BatchExecution ---------------------------
(***************************************************************************)
(* From the firing of a cron job to the last word on its batch instances:  *)
(* the callback of BatchService.addSchedule, BatchPlanService.plan and     *)
(* BatchService.executeBatch, over the BATCH_INSTANCE table.  The flows    *)
(* they start are abstract (LinearFlow, which Engine implements).          *)
(*                                                                         *)
(* Instance <<t, i>> is the i-th one planned by firing t; it is also the   *)
(* flow that executeBatch starts for it.                                   *)
(***************************************************************************)
EXTENDS Integers

CONSTANTS
    Firings,     \* firings of cron jobs, of one definition or several
    MaxPlan,     \* bound on the length of a plan
    FlowLength,  \* steps of the job the plan's definition names
    MaxCrashes   \* bound on the crashes of a behaviour

ASSUME BatchAssumption ==
    /\ MaxPlan \in Nat
    /\ FlowLength \in Nat
    /\ MaxCrashes \in Nat

VARIABLES
    plans,    \* plans[t]: the plan call of firing t
    inst,     \* inst[n]: the state of the BATCH_INSTANCE row n
    runs,     \* runs[n]: the executeBatch call of instance n
    done, stopped, report,   \* the flows, as in LinearFlow
    crashes

flowVars == <<done, stopped, report>>

vars == <<plans, inst, runs, flowVars, crashes>>

Insts == Firings \X (1 .. MaxPlan)

Flow == INSTANCE LinearFlow WITH
          Flows <- Insts, NumSteps <- [n \in Insts |-> FlowLength]

\* "create" awaits createBatchInstance for plan item made + 1; "empty" returned
\* [] after an error; "executed" called executeBatch for every item.
PlanType == [pc : {"idle", "plan", "create", "empty", "executed", "lost"},
             size : 0 .. MaxPlan, made : 0 .. MaxPlan]

\* "flow" awaits orchestrate, "then" and "catch" await updateBatchInstance.
RunStates == {"none", "flow", "then", "catch", "settled", "lost"}

TypeOK ==
    /\ plans \in [Firings -> PlanType]
    /\ inst \in [Insts -> {"none", "PENDING", "SUCCESS", "FAILED"}]
    /\ runs \in [Insts -> RunStates]
    /\ done \in [Insts -> SUBSET (1 .. FlowLength)]
    /\ stopped \in [Insts -> BOOLEAN]
    /\ report \in [Insts -> {"NONE", "SUCCESS", "FAILED"}]
    /\ crashes \in Nat

Init ==
    /\ plans = [t \in Firings |-> [pc |-> "idle", size |-> 0, made |-> 0]]
    /\ inst = [n \in Insts |-> "none"]
    /\ runs = [n \in Insts |-> "none"]
    /\ Flow!Init
    /\ crashes = 0

-------------------------------------------------------------------------------
(* The cron callback and BatchPlanService.plan *)

Fire(t) ==
    /\ plans[t].pc = "idle"
    /\ plans' = [plans EXCEPT ![t].pc = "plan"]
    /\ UNCHANGED <<inst, runs, flowVars, crashes>>

\* The batch plan answers with its items, or there is none, or it throws.
Plan(t) ==
    /\ plans[t].pc = "plan"
    /\ \/ \E k \in 0 .. MaxPlan :
             plans' = [plans EXCEPT ![t].pc = "create", ![t].size = k]
       \/ plans' = [plans EXCEPT ![t].pc = "empty"]
    /\ UNCHANGED <<inst, runs, flowVars, crashes>>

\* Mutant of CreateInstance: one item more than the plan has.
CreateOneMore(t) ==
    /\ plans[t].pc = "create"
    /\ plans[t].made =< plans[t].size
    /\ inst' = [inst EXCEPT ![<<t, plans[t].made + 1>>] = "PENDING"]
    /\ plans' = [plans EXCEPT ![t].made = @ + 1]
    /\ UNCHANGED <<runs, flowVars, crashes>>

\* One await of createBatchInstance.  A rejection, with or without its row in
\* the table, ends the plan: it returns [] and the rows made so far stay.
CreateInstance(t) ==
    LET n == <<t, plans[t].made + 1>>
    IN  /\ plans[t].pc = "create"
        /\ plans[t].made < plans[t].size
        /\ \/ /\ inst' = [inst EXCEPT ![n] = "PENDING"]
              /\ plans' = [plans EXCEPT ![t].made = @ + 1]
           \/ /\ inst' = [inst EXCEPT ![n] = "PENDING"] \/ UNCHANGED inst
              /\ plans' = [plans EXCEPT ![t].pc = "empty"]
        /\ UNCHANGED <<runs, flowVars, crashes>>

\* Mutant of ExecuteAll: what was made is executed before the plan is complete.
ExecuteMade(t) ==
    /\ plans[t].pc = "create"
    /\ plans' = [plans EXCEPT ![t].pc = "executed"]
    /\ runs' = [n \in Insts |-> IF n[1] = t /\ n[2] =< plans[t].size
                                THEN "flow" ELSE runs[n]]
    /\ UNCHANGED <<inst, flowVars, crashes>>

\* plan resolved: executeBatch is called for every item in one go, and each
\* calls orchestrate.
ExecuteAll(t) ==
    /\ plans[t].pc = "create"
    /\ plans[t].made = plans[t].size
    /\ plans' = [plans EXCEPT ![t].pc = "executed"]
    /\ runs' = [n \in Insts |-> IF n[1] = t /\ n[2] =< plans[t].size
                                THEN "flow" ELSE runs[n]]
    /\ UNCHANGED <<inst, flowVars, crashes>>

-------------------------------------------------------------------------------
(* The flow of an instance and the callbacks of executeBatch *)

Started(n) == runs[n] # "none"

FlowStep(n) ==
    /\ Started(n)
    /\ Flow!CompleteStep(n) \/ Flow!FailStep(n)
    /\ UNCHANGED <<plans, inst, runs, crashes>>

\* orchestrate resolves with SUCCESS or FAILED, or rejects.
Answer(n) ==
    /\ runs[n] = "flow"
    /\ \/ Flow!ReportSuccess(n) /\ runs' = [runs EXCEPT ![n] = "then"]
       \/ /\ Flow!ReportFailed(n)
          /\ \E next \in {"then", "catch"} : runs' = [runs EXCEPT ![n] = next]
    /\ UNCHANGED <<plans, inst, crashes>>

\* updateBatchInstance: it resolves, or it rejects with or without its write.
Update(n, state, next) ==
    \/ inst' = [inst EXCEPT ![n] = state] /\ runs' = [runs EXCEPT ![n] = "settled"]
    \/ /\ inst' = [inst EXCEPT ![n] = state] \/ UNCHANGED inst
       /\ runs' = [runs EXCEPT ![n] = next]

\* Mutant of Then: the state is written whatever orchestrate answered.
ThenCompleted(n) ==
    /\ runs[n] = "then"
    /\ Update(n, "SUCCESS", "catch")
    /\ UNCHANGED <<plans, flowVars, crashes>>

\* The callback of then: its rejection is caught by the catch behind it.
Then(n) ==
    /\ runs[n] = "then"
    /\ Update(n, report[n], "catch")
    /\ UNCHANGED <<plans, flowVars, crashes>>

\* Mutant of Catch: a rejection of its own update starts the then again.
CatchThen(n) ==
    /\ runs[n] = "catch"
    /\ Update(n, "FAILED", "then")
    /\ UNCHANGED <<plans, flowVars, crashes>>

\* The callback of catch: a rejection of its own update is only logged.
Catch(n) ==
    /\ runs[n] = "catch"
    /\ Update(n, "FAILED", "settled")
    /\ UNCHANGED <<plans, flowVars, crashes>>

-------------------------------------------------------------------------------

\* Plans and promises are lost; rows and flows are not.  Nothing takes the
\* PENDING rows up again after the restart.
Crash ==
    /\ crashes < MaxCrashes
    /\ crashes' = crashes + 1
    /\ plans' = [t \in Firings |-> IF plans[t].pc \in {"plan", "create"}
                                   THEN [plans[t] EXCEPT !.pc = "lost"] ELSE plans[t]]
    /\ runs' = [n \in Insts |-> IF runs[n] \in {"flow", "then", "catch"}
                                THEN "lost" ELSE runs[n]]
    /\ UNCHANGED <<inst, flowVars>>

Next ==
    \/ \E t \in Firings : Fire(t) \/ Plan(t) \/ CreateInstance(t) \/ ExecuteAll(t)
    \/ \E n \in Insts : FlowStep(n) \/ Answer(n) \/ Then(n) \/ Catch(n)
    \/ Crash

Spec == Init /\ [][Next]_vars

\* Database calls answer and every orchestrate call settles (Engine's
\* EveryCallSettles); cron jobs need not fire.
FairSpec ==
    /\ Spec
    /\ \A t \in Firings : WF_vars(Plan(t) \/ CreateInstance(t) \/ ExecuteAll(t))
    /\ \A n \in Insts : WF_vars(Answer(n)) /\ WF_vars(Then(n) \/ Catch(n))

-------------------------------------------------------------------------------
(* Properties *)

\* A batch instance says SUCCESS only when every step of its flow is done,
\* whatever updates were lost and whoever crashed.
SuccessMeansAllStepsDone ==
    \A n \in Insts : inst[n] = "SUCCESS" => done[n] = 1 .. FlowLength

\* The flows of a plan are started together, and only after every one of its
\* instances is in the table: a plan that failed half way starts none.
PlanStartsAsAWhole ==
    \A t \in Firings : \A i, k \in 1 .. plans[t].size :
        Started(<<t, i>>) => Started(<<t, k>>) /\ inst[<<t, k>>] # "none"

\* A FAILED instance stays FAILED: the catch behind a lost update may turn
\* SUCCESS into FAILED, never the other way round.
FailedIsFinal ==
    [][\A n \in Insts : inst[n] = "FAILED" => inst'[n] = "FAILED"]_vars

\* Every started instance is settled, unless the process dies first: no chain
\* of rejections keeps executeBatch busy for ever.
EveryRunSettles ==
    \A n \in Insts : runs[n] = "flow" ~> runs[n] \in {"settled", "lost"}
=============================================================================
