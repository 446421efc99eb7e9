----------------------------- MODULE BatchProofs -----------------------------
(***************************************************************************)
(* Theorems about BatchExecution, for any firings, lengths of plans and    *)
(* flows, and crashes.                                                     *)
(***************************************************************************)
EXTENDS BatchExecution, TLAPS

-------------------------------------------------------------------------------
(* The invariant *)

\* A flow that reported SUCCESS is done, and only its instance may say SUCCESS.
ReportInv ==
    \A n \in Insts :
        /\ report[n] = "SUCCESS" => done[n] = 1 .. FlowLength
        /\ inst[n] = "SUCCESS" => report[n] = "SUCCESS"

\* Until updateBatchInstance is called the first time an instance is PENDING,
\* and it is called first with what orchestrate reported.
RunInv ==
    \A n \in Insts :
        /\ runs[n] \in {"none", "flow", "then"} => inst[n] \in {"none", "PENDING"}
        /\ runs[n] = "then" => report[n] \in {"SUCCESS", "FAILED"}

\* A plan has the rows it made and no more, and is started as a whole when
\* all of them are there.
PlanInv ==
    \A t \in Firings :
        /\ plans[t].pc \in {"idle", "plan", "create"} =>
             \A k \in 1 .. MaxPlan : inst[<<t, k>>] = "none" <=> k > plans[t].made
        /\ plans[t].pc \in {"idle", "plan"} => plans[t].made = 0
        /\ \A k \in 1 .. MaxPlan :
             /\ Started(<<t, k>>) <=> plans[t].pc = "executed" /\ k =< plans[t].size
             /\ Started(<<t, k>>) => inst[<<t, k>>] # "none"

BatchInv == TypeOK /\ ReportInv /\ RunInv /\ PlanInv

\* An instance is a firing and the number of a plan item.
LEMMA InstFacts ==
    /\ \A t \in Firings : \A k \in 1 .. MaxPlan : <<t, k>> \in Insts
    /\ \A n \in Insts : n[1] \in Firings /\ n[2] \in 1 .. MaxPlan /\ n = <<n[1], n[2]>>
  BY DEF Insts

\* The initial state satisfies the invariant.
LEMMA InitBatchInv == Init => BatchInv
<1> SUFFICES ASSUME Init PROVE BatchInv
  OBVIOUS
<1>1. TypeOK
  BY BatchAssumption DEF Init, Flow!Init, TypeOK, PlanType, RunStates
<1>2. ReportInv /\ RunInv
  BY DEF Init, Flow!Init, ReportInv, RunInv
<1>3. \A t \in Firings : plans[t].pc = "idle" /\ plans[t].made = 0
  BY DEF Init
<1>4. \A t \in Firings : \A k \in 1 .. MaxPlan :
         inst[<<t, k>>] = "none" /\ ~Started(<<t, k>>)
  BY InstFacts DEF Init, Started
<1>5. MaxPlan \in Nat
  BY BatchAssumption
<1>6. PlanInv
  <2> SUFFICES ASSUME NEW t \in Firings, NEW k \in 1 .. MaxPlan
               PROVE  /\ inst[<<t, k>>] = "none" <=> k > plans[t].made
                      /\ Started(<<t, k>>) <=> plans[t].pc = "executed" /\ k =< plans[t].size
                      /\ Started(<<t, k>>) => inst[<<t, k>>] # "none"
    BY <1>3 DEF PlanInv
  <2>1. inst[<<t, k>>] = "none" <=> k > plans[t].made
    BY <1>3, <1>4, <1>5
  <2>2. Started(<<t, k>>) <=> plans[t].pc = "executed" /\ k =< plans[t].size
    BY <1>3, <1>4 DEF Started
  <2> QED
    BY <1>4, <2>1, <2>2
<1> QED
  BY <1>1, <1>2, <1>6 DEF BatchInv

-------------------------------------------------------------------------------
(* The steps *)

\* The cron callback and the plan keep the invariant.
LEMMA PlanKeepsInv ==
    ASSUME BatchInv, NEW t \in Firings,
           Fire(t) \/ Plan(t) \/ CreateInstance(t) \/ ExecuteAll(t)
    PROVE  BatchInv'
<1>1. TypeOK /\ ReportInv /\ RunInv /\ PlanInv
  BY DEF BatchInv
<1>2. plans[t] \in PlanType /\ plans[t].size \in 0 .. MaxPlan /\ plans[t].made \in 0 .. MaxPlan
  BY <1>1 DEF TypeOK, PlanType
<1>3. MaxPlan \in Nat
  BY BatchAssumption
<1>4. CASE Fire(t)
  <2>1. TypeOK'
    BY <1>1, <1>4 DEF Fire, flowVars, TypeOK, PlanType
  <2>2. ReportInv' /\ RunInv'
    BY <1>1, <1>4 DEF Fire, flowVars, ReportInv, RunInv
  <2>3. PlanInv'
    BY <1>1, <1>4 DEF Fire, TypeOK, PlanType, PlanInv, Started
  <2> QED
    BY <2>1, <2>2, <2>3 DEF BatchInv
<1>5. CASE Plan(t)
  <2>1. TypeOK'
    BY <1>1, <1>5 DEF Plan, flowVars, TypeOK, PlanType
  <2>2. ReportInv' /\ RunInv'
    BY <1>1, <1>5 DEF Plan, flowVars, ReportInv, RunInv
  <2>3. PlanInv'
    <3>1. UNCHANGED <<inst, runs>> /\ \A s \in Firings : \/ plans'[s] = plans[s]
                                       \/ /\ plans[s].pc = "plan"
                                          /\ plans'[s].pc \in {"create", "empty"}
                                          /\ plans'[s].made = plans[s].made
      BY <1>1, <1>5 DEF Plan, TypeOK, PlanType
    <3> QED
      BY <1>1, <3>1 DEF PlanInv, Started
  <2> QED
    BY <2>1, <2>2, <2>3 DEF BatchInv
<1>6. CASE CreateInstance(t)
  <2> DEFINE n == <<t, plans[t].made + 1>>
  <2>1. /\ plans[t].pc = "create" /\ plans[t].made < plans[t].size
        /\ UNCHANGED <<runs, flowVars, crashes>>
        /\ \/ /\ inst' = [inst EXCEPT ![n] = "PENDING"]
              /\ plans' = [plans EXCEPT ![t].made = @ + 1]
           \/ /\ inst' = [inst EXCEPT ![n] = "PENDING"] \/ UNCHANGED inst
              /\ plans' = [plans EXCEPT ![t].pc = "empty"]
    BY <1>6 DEF CreateInstance
  <2>2. n \in Insts /\ plans[t].made + 1 \in 1 .. MaxPlan
    BY <1>2, <1>3, <2>1, InstFacts
  <2>3. inst[n] = "none" /\ ~Started(n)
    BY <1>1, <1>2, <2>1, <2>2 DEF PlanInv
  <2>4. \A m \in Insts : inst'[m] = inst[m] \/ (m = n /\ inst'[m] = "PENDING")
    BY <1>1, <2>1, <2>2 DEF TypeOK
  <2>5. TypeOK'
    <3>1. plans' \in [Firings -> PlanType]
      BY <1>1, <1>2, <1>3, <2>1, <2>2 DEF TypeOK, PlanType
    <3>2. inst' \in [Insts -> {"none", "PENDING", "SUCCESS", "FAILED"}]
      BY <1>1, <2>1, <2>2 DEF TypeOK
    <3> QED
      BY <1>1, <2>1, <3>1, <3>2 DEF flowVars, TypeOK
  <2>6. ReportInv' /\ RunInv'
    BY <1>1, <2>1, <2>3, <2>4 DEF flowVars, ReportInv, RunInv, Started
  <2>7. PlanInv'
    <3> SUFFICES ASSUME NEW s \in Firings
                 PROVE  /\ plans'[s].pc \in {"idle", "plan", "create"} =>
                             \A k \in 1 .. MaxPlan : inst'[<<s, k>>] = "none" <=> k > plans'[s].made
                        /\ plans'[s].pc \in {"idle", "plan"} => plans'[s].made = 0
                        /\ \A k \in 1 .. MaxPlan :
                             /\ Started(<<s, k>>)' <=>
                                  plans'[s].pc = "executed" /\ k =< plans'[s].size
                             /\ Started(<<s, k>>)' => inst'[<<s, k>>] # "none"
      BY DEF PlanInv
    <3>1. \A m : Started(m)' <=> Started(m)
      BY <2>1 DEF Started
    <3>2. CASE s # t
      <4>1. plans'[s] = plans[s]
        BY <1>1, <2>1, <3>2 DEF TypeOK
      <4>2. \A k : <<s, k>> # n
        BY <3>2
      <4>3. \A k \in 1 .. MaxPlan : inst'[<<s, k>>] = inst[<<s, k>>]
        BY <2>4, <4>2, InstFacts
      <4>4. plans[s].size \in 0 .. MaxPlan
        BY <1>1 DEF TypeOK, PlanType
      <4> QED
        BY <1>1, <1>3, <3>1, <4>1, <4>3, <4>4 DEF PlanInv
    <3>3. CASE s = t /\ plans' = [plans EXCEPT ![t].made = @ + 1]
                     /\ inst' = [inst EXCEPT ![n] = "PENDING"]
      <4>1. plans'[t].pc = "create" /\ plans'[t].made = plans[t].made + 1
        BY <1>1, <2>1, <3>3 DEF TypeOK, PlanType
      <4>2. \A k \in 1 .. MaxPlan :
               inst'[<<t, k>>] = IF k = plans[t].made + 1 THEN "PENDING" ELSE inst[<<t, k>>]
        BY <1>1, <3>3, InstFacts DEF TypeOK
      <4> QED
        BY <1>1, <1>2, <2>1, <3>1, <3>3, <4>1, <4>2 DEF PlanInv
    <3>4. CASE s = t /\ plans' = [plans EXCEPT ![t].pc = "empty"]
      <4>1. plans'[t].pc = "empty"
        BY <1>1, <3>4 DEF TypeOK, PlanType
      <4> QED
        BY <1>1, <2>1, <3>1, <3>4, <4>1 DEF PlanInv
    <3> QED
      BY <2>1, <3>2, <3>3, <3>4
  <2> QED
    BY <2>5, <2>6, <2>7 DEF BatchInv
<1>7. CASE ExecuteAll(t)
  <2>1. /\ plans[t].pc = "create" /\ plans[t].made = plans[t].size
        /\ plans' = [plans EXCEPT ![t].pc = "executed"]
        /\ UNCHANGED <<inst, flowVars, crashes>>
    BY <1>7 DEF ExecuteAll
  <2>2. \A m \in Insts : runs'[m] = IF m[1] = t /\ m[2] =< plans[t].size
                                    THEN "flow" ELSE runs[m]
    BY <1>7 DEF ExecuteAll
  <2>3. runs' \in [Insts -> RunStates]
    BY <1>1, <1>7 DEF ExecuteAll, TypeOK, RunStates
  <2>4. TypeOK'
    BY <1>1, <2>1, <2>3 DEF flowVars, TypeOK, PlanType
  <2>5. \A m \in Insts : runs'[m] = runs[m] \/ (runs[m] = "none" /\ runs'[m] = "flow")
    BY <1>1, <2>1, <2>2, InstFacts DEF PlanInv, Started
  <2>6. ReportInv' /\ RunInv'
    BY <1>1, <2>1, <2>5 DEF flowVars, ReportInv, RunInv
  <2>7. \A s \in Firings : s # t =>
           plans'[s] = plans[s] /\ \A k \in 1 .. MaxPlan : Started(<<s, k>>)' <=> Started(<<s, k>>)
    BY <1>1, <2>1, <2>2, InstFacts DEF TypeOK, Started
  <2>8. plans'[t].pc = "executed" /\ plans'[t].size = plans[t].size
    BY <1>1, <2>1 DEF TypeOK, PlanType
  <2>9. \A k \in 1 .. MaxPlan : /\ Started(<<t, k>>)' <=> k =< plans[t].size
                                /\ k =< plans[t].size => inst'[<<t, k>>] # "none"
    <3> TAKE k \in 1 .. MaxPlan
    <3>1. k =< plans[t].size => inst[<<t, k>>] # "none"
      BY <1>1, <1>2, <2>1 DEF PlanInv
    <3>2. runs'[<<t, k>>] = IF k =< plans[t].size THEN "flow" ELSE runs[<<t, k>>]
      BY <2>2, InstFacts
    <3>3. runs[<<t, k>>] = "none"
      BY <1>1, <2>1 DEF PlanInv, Started
    <3>4. Started(<<t, k>>)' <=> k =< plans[t].size
      BY <3>2, <3>3 DEF Started
    <3>5. k =< plans[t].size => inst'[<<t, k>>] # "none"
      BY <2>1, <3>1
    <3> QED
      BY <3>4, <3>5
  <2>10. \A s \in Firings : s # t =>
            \A k \in 1 .. MaxPlan :
              /\ Started(<<s, k>>)' <=> plans'[s].pc = "executed" /\ k =< plans'[s].size
              /\ Started(<<s, k>>)' => inst'[<<s, k>>] # "none"
    <3> TAKE s \in Firings
    <3>1. \A k \in 1 .. MaxPlan :
            /\ Started(<<s, k>>) <=> plans[s].pc = "executed" /\ k =< plans[s].size
            /\ Started(<<s, k>>) => inst[<<s, k>>] # "none"
      BY <1>1 DEF PlanInv
    <3> QED
      BY <2>1, <2>7, <3>1
  <2>11. \A s \in Firings :
            /\ plans'[s].pc \in {"idle", "plan", "create"} =>
                 \A k \in 1 .. MaxPlan : inst'[<<s, k>>] = "none" <=> k > plans'[s].made
            /\ plans'[s].pc \in {"idle", "plan"} => plans'[s].made = 0
    BY <1>1, <2>1, <2>7, <2>8 DEF PlanInv
  <2>12. PlanInv'
    BY <2>8, <2>9, <2>10, <2>11 DEF PlanInv
  <2> QED
    BY <2>4, <2>6, <2>12 DEF BatchInv
<1> QED
  BY <1>4, <1>5, <1>6, <1>7

\* What PlanInv says survives every step that leaves the plans alone, starts
\* nothing and takes no row away.
LEMMA PlanInvKept ==
    ASSUME TypeOK, RunInv, PlanInv, UNCHANGED plans,
           \A n \in Insts : /\ Started(n)' <=> Started(n)
                            /\ inst'[n] = "none" <=> inst[n] = "none"
    PROVE  PlanInv'
<1>1. \A t \in Firings : \A k \in 1 .. MaxPlan :
         /\ Started(<<t, k>>)' <=> Started(<<t, k>>)
         /\ inst'[<<t, k>>] = "none" <=> inst[<<t, k>>] = "none"
  BY InstFacts
<1>2. \A t \in Firings : plans[t].size \in 0 .. MaxPlan
  BY DEF TypeOK, PlanType
<1> QED
  BY <1>1, <1>2, BatchAssumption DEF PlanInv

\* A started instance has its row.
LEMMA StartedHasRow ==
    ASSUME PlanInv, NEW n \in Insts, Started(n)
    PROVE  inst[n] # "none"
  BY InstFacts DEF PlanInv

\* The flow of an instance and the callbacks of executeBatch keep the invariant.
LEMMA RunKeepsInv ==
    ASSUME BatchInv, NEW n \in Insts, FlowStep(n) \/ Answer(n) \/ Then(n) \/ Catch(n)
    PROVE  BatchInv'
<1>1. TypeOK /\ ReportInv /\ RunInv /\ PlanInv
  BY DEF BatchInv
<1>2. Flow!Steps(n) = 1 .. FlowLength /\ FlowLength \in Nat
  BY BatchAssumption DEF Flow!Steps
<1>0. inst[n] # "none"
  BY <1>1, StartedHasRow DEF FlowStep, Answer, Then, Catch, Started
<1>3. CASE FlowStep(n)
  <2>1. /\ UNCHANGED <<plans, inst, runs, crashes, report>>
        /\ Flow!CompleteStep(n) \/ Flow!FailStep(n)
    BY <1>3 DEF FlowStep, Flow!CompleteStep, Flow!FailStep
  <2>2. done[n] = 1 .. FlowLength => UNCHANGED done
    <3>1. ASSUME NEW i \in 1 .. FlowLength, 1 .. FlowLength = 1 .. i - 1
          PROVE  FALSE
      <4>1. i \in 1 .. i - 1
        BY <3>1
      <4> QED
        BY <4>1
    <3> QED
      BY <1>2, <2>1, <3>1 DEF Flow!CompleteStep, Flow!FailStep
  <2>3. done' \in [Insts -> SUBSET (1 .. FlowLength)] /\ stopped' \in [Insts -> BOOLEAN]
    <3>1. \A i \in 1 .. FlowLength : 1 .. i \subseteq 1 .. FlowLength
      BY <1>2
    <3> QED
      BY <1>1, <1>2, <2>1, <3>1 DEF Flow!CompleteStep, Flow!FailStep, TypeOK
  <2>4. TypeOK'
    BY <1>1, <2>1, <2>3 DEF TypeOK
  <2>5. \A m \in Insts : m # n => done'[m] = done[m]
    BY <1>1, <2>1 DEF Flow!CompleteStep, Flow!FailStep, TypeOK
  <2>6. ReportInv'
    BY <1>1, <2>1, <2>2, <2>5 DEF ReportInv
  <2>7. RunInv' /\ PlanInv'
    BY <1>1, <2>1, PlanInvKept DEF RunInv, Started
  <2> QED
    BY <2>4, <2>6, <2>7 DEF BatchInv
<1>4. CASE Answer(n)
  <2>1. PICK r \in {"SUCCESS", "FAILED"}, next \in {"then", "catch"} :
           /\ runs[n] = "flow" /\ report[n] = "NONE"
           /\ report' = [report EXCEPT ![n] = r] /\ runs' = [runs EXCEPT ![n] = next]
           /\ r = "SUCCESS" => done[n] = 1 .. FlowLength
           /\ UNCHANGED <<plans, inst, crashes, done, stopped>>
    BY <1>2, <1>4 DEF Answer, Flow!ReportSuccess, Flow!ReportFailed
  <2>2. TypeOK'
    BY <1>1, <2>1 DEF TypeOK, RunStates
  <2>3. ReportInv' /\ RunInv'
    BY <1>1, <2>1 DEF TypeOK, ReportInv, RunInv
  <2>4. PlanInv'
    BY <1>1, <2>1, PlanInvKept DEF Started, TypeOK
  <2> QED
    BY <2>2, <2>3, <2>4 DEF BatchInv
<1>5. ASSUME NEW s \in {"SUCCESS", "FAILED"}, NEW next \in {"catch", "settled"},
             Update(n, s, next), runs[n] \in {"then", "catch"},
             s = "SUCCESS" => report[n] = "SUCCESS",
             UNCHANGED <<plans, flowVars, crashes>>
      PROVE  BatchInv'
  <2>1. PICK next2 \in {"catch", "settled"} :
           /\ runs' = [runs EXCEPT ![n] = next2]
           /\ inst' = [inst EXCEPT ![n] = s] \/ UNCHANGED inst
    BY <1>5 DEF Update
  <2>2. TypeOK'
    BY <1>1, <1>5, <2>1 DEF TypeOK, RunStates, flowVars
  <2>3. ReportInv' /\ RunInv'
    BY <1>1, <1>5, <2>1 DEF TypeOK, ReportInv, RunInv, flowVars
  <2>4. PlanInv'
    BY <1>0, <1>1, <1>5, <2>1, PlanInvKept DEF Started, TypeOK
  <2> QED
    BY <2>2, <2>3, <2>4 DEF BatchInv
<1>6. CASE Then(n)
  <2>1. report[n] \in {"SUCCESS", "FAILED"}
    BY <1>1, <1>6 DEF Then, RunInv
  <2> QED
    BY <1>5, <1>6, <2>1 DEF Then
<1>7. CASE Catch(n)
  BY <1>5, <1>7 DEF Catch
<1> QED
  BY <1>3, <1>4, <1>6, <1>7

\* A crash keeps the invariant.
LEMMA CrashKeepsInv ==
    ASSUME BatchInv, Crash
    PROVE  BatchInv'
<1>1. TypeOK /\ ReportInv /\ RunInv /\ PlanInv
  BY DEF BatchInv
<1>2. TypeOK'
  BY <1>1 DEF Crash, flowVars, TypeOK, PlanType, RunStates
<1>3. ReportInv' /\ RunInv'
  BY <1>1 DEF Crash, flowVars, ReportInv, RunInv, TypeOK
<1>4. \A n \in Insts : Started(n)' <=> Started(n)
  BY DEF Crash, Started
<1>5. \A t \in Firings : \/ plans'[t] = plans[t]
                         \/ plans[t].pc \in {"plan", "create"} /\ plans'[t].pc = "lost"
  BY <1>1 DEF Crash, TypeOK, PlanType
<1>6. \A t \in Firings : plans[t].size \in 0 .. MaxPlan
  BY <1>1 DEF TypeOK, PlanType
<1>7. \A t \in Firings : \A k \in 1 .. MaxPlan : Started(<<t, k>>)' <=> Started(<<t, k>>)
  BY <1>4, InstFacts
<1>8. PlanInv'
  BY <1>1, <1>5, <1>6, <1>7, BatchAssumption DEF Crash, PlanInv
<1> QED
  BY <1>2, <1>3, <1>8 DEF BatchInv

-------------------------------------------------------------------------------
(* The theorems *)

\* Every step keeps the invariant.
LEMMA NextBatchInv == BatchInv /\ [Next]_vars => BatchInv'
<1> SUFFICES ASSUME BatchInv, [Next]_vars PROVE BatchInv'
  OBVIOUS
<1>1. CASE UNCHANGED vars
  BY <1>1 DEF vars, flowVars, BatchInv, TypeOK, ReportInv, RunInv, PlanInv, Started
<1>2. CASE \E t \in Firings : Fire(t) \/ Plan(t) \/ CreateInstance(t) \/ ExecuteAll(t)
  BY <1>2, PlanKeepsInv
<1>3. CASE \E n \in Insts : FlowStep(n) \/ Answer(n) \/ Then(n) \/ Catch(n)
  BY <1>3, RunKeepsInv
<1>4. CASE Crash
  BY <1>4, CrashKeepsInv
<1> QED
  BY <1>1, <1>2, <1>3, <1>4 DEF Next

\* The invariant holds in every behaviour.
LEMMA BatchInvHolds == Spec => []BatchInv
  BY InitBatchInv, NextBatchInv, PTL DEF Spec

\* Whatever updates of BATCH_INSTANCE are lost and whenever the process dies,
\* an instance that says SUCCESS has every step of its flow done.
THEOREM SuccessIsReal == Spec => []SuccessMeansAllStepsDone
<1>1. BatchInv => SuccessMeansAllStepsDone
  BY DEF BatchInv, ReportInv, SuccessMeansAllStepsDone
<1> QED
  BY <1>1, BatchInvHolds, PTL

\* plan and executeBatch start the flows of a firing all together, and only
\* when every instance of the plan has its row.
THEOREM PlansStartAsAWhole == Spec => []PlanStartsAsAWhole
<1>1. ASSUME BatchInv PROVE PlanStartsAsAWhole
  <2>1. \A t \in Firings : plans[t].size \in 0 .. MaxPlan
    BY <1>1 DEF BatchInv, TypeOK, PlanType
  <2>2. \A t \in Firings : \A k \in 1 .. plans[t].size :
           /\ k \in 1 .. MaxPlan /\ k =< plans[t].size
    BY <2>1, BatchAssumption
  <2> QED
    BY <1>1, <2>2 DEF BatchInv, PlanInv, PlanStartsAsAWhole
<1> QED
  BY <1>1, BatchInvHolds, PTL

\* No callback of executeBatch, retry or new plan takes FAILED back.
THEOREM FailedStaysFailed == Spec => FailedIsFinal
<1>1. ASSUME BatchInv, [Next]_vars, NEW m \in Insts, inst[m] = "FAILED"
      PROVE  inst'[m] = "FAILED"
  <2>1. TypeOK /\ RunInv /\ PlanInv
    BY <1>1 DEF BatchInv
  <2>2. CASE UNCHANGED inst
    BY <1>1, <2>2
  <2>3. ASSUME NEW t \in Firings, CreateInstance(t)
        PROVE  inst'[m] = "FAILED"
    <3> DEFINE n == <<t, plans[t].made + 1>>
    <3>1. plans[t] \in PlanType /\ MaxPlan \in Nat
      BY <2>1, BatchAssumption DEF TypeOK
    <3>2. /\ plans[t].pc = "create" /\ plans[t].made + 1 \in 1 .. MaxPlan
          /\ inst' = [inst EXCEPT ![n] = "PENDING"] \/ UNCHANGED inst
      BY <2>3, <3>1 DEF CreateInstance, PlanType
    <3>3. inst[n] = "none"
      BY <2>1, <3>1, <3>2 DEF PlanInv, PlanType
    <3> QED
      BY <1>1, <2>1, <3>2, <3>3 DEF TypeOK
  <2>4. ASSUME NEW n \in Insts, Then(n) \/ Catch(n)
        PROVE  inst'[m] = "FAILED"
    <3>1. runs[n] = "then" => inst[n] \in {"none", "PENDING"}
      BY <2>1 DEF RunInv
    <3> QED
      BY <1>1, <2>1, <2>4, <3>1 DEF Then, Catch, Update, TypeOK
  <2> QED
    BY <1>1, <2>2, <2>3, <2>4
    DEF Next, vars, Fire, Plan, ExecuteAll, FlowStep, Answer, Crash
<1>2. BatchInv /\ [Next]_vars =>
        [\A n \in Insts : inst[n] = "FAILED" => inst'[n] = "FAILED"]_vars
  BY <1>1
<1> QED
  BY <1>2, BatchInvHolds, PTL DEF Spec, FailedIsFinal

\* For any firings, plans, flow lengths, lost updates and crashes, plans,
\* instances and flows stay in the states the code knows.
THEOREM TypeCorrect == Spec => []TypeOK
<1>1. BatchInv => TypeOK
  BY DEF BatchInv
<1> QED
  BY <1>1, BatchInvHolds, PTL
===============================================================================
