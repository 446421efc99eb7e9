# A TLA+ model of the Algogo data center

The data center collects programming problems, user progress and the problems
of the day.  A cron expression makes a batch plan; every item of the plan
becomes a batch instance and one flow of steps; BullMQ hands the steps to a
worker one by one; each step is a handler that fetches, transforms or stores
data.  This directory holds the specification of that machinery: modules that
TLC checks on small instances, and theorems that TLAPS proves for all of them.

    cd tla
    tlc -config MCEngineCrash.cfg MCEngine      # any run of PROJECT.json
    tlapm EngineProofs.tla                      # the proofs

## The system

| Component | State it keeps | Operations | Talks to |
| --- | --- | --- | --- |
| Batch scheduler (`batch.service.ts`, `batch.module.ts`) | `BATCH_DEFINITION` rows; the cron jobs of `SchedulerRegistry`, in memory | save, delete, synchronize, also at boot | MySQL, `cron` |
| Batch planning and execution (`batch-plan.service.ts`, `batch.service.ts`) | `BATCH_INSTANCE` rows; promises in memory | the cron callback, `plan`, `executeBatch` and its `then`/`catch` | batch plans, orchestrator |
| Orchestrator (`orchestrator.service.ts`) | the pending `orchestrate` calls; the definition cache | `getJobDefinition`, `generateJob`, `toFlatJobNode`, `orchestrate` | cache, MySQL, BullMQ |
| Flow queue (BullMQ) | jobs in Redis, locks, stall counters, events | add, take, complete, fail, stalled check | |
| Worker and dispatcher (`worker.service.ts`, `dispatcher.service.ts`, `job.repository.ts`) | `JOB_INSTANCE` rows; the dispatch call in progress | `process`, `dispatch` | BullMQ, MySQL, handlers |
| Job catalogue (`job.service.ts`) | `JOB_DEFINITION`, `JOB_STEP` rows | create, delete, list | MySQL |
| Batch plans (`batch/plans`) | none | which problems, users and days are missing | MySQL |
| Problem, user and today jobs (`problem/*.job.ts`) | `PROBLEM_V2` and its children, `PROBLEM_SITE_ACCOUNT`, `USER_PROBLEM_STATE`, `TODAY_PROBLEM` | `run` | Nemo, S3, MySQL |
| Prisma, S3, Nemo, the application shell | none of their own | | |

Every arrow between two components is a promise, and every `await` is a place
where another request, another process or a crash may come in between.  That is
where the hard behaviour is:

* **Crash and redelivery.**  Redis and MySQL survive a crash; promises, cron
  jobs and handlers do not.  BullMQ delivers the step of a dead worker again,
  and `dispatch` finds the rows its first attempt left.
* **Lost locks.**  A worker that is busy too long loses its job lock while it
  goes on working: two attempts of one step then write the same row.
* **Lost answers.**  A database write or `flowProducer.add` may be committed
  although its promise rejects.
* **Events against removal.**  A finished job is removed at once; whoever asks
  for it afterwards is told that it does not exist.
* **Overlapping synchronizations.**  Two requests rewrite the cron registry
  from two snapshots of the table.
* **Overlapping firings.**  A cron job fires again while the flows of its last
  firing wait or run: the same problems, users and days are worked on twice, and
  an old answer may be written last.
* **Relative days.**  A plan names a day by its distance from today; its flow may
  run after midnight.

`PROJECT.json` lists these hazards at their lines, with the properties that
would catch them.

### What makes each component correct

* Orchestrator and engine: the steps of a flow run in order, one at a time;
  nothing runs after a failed step; a later step sees the earlier step's
  result; SUCCESS means that every step is done; a caller gets an answer.
* Dispatcher: a completed step is in the database before the next one starts,
  and its row is final.
* Scheduler: what is in the table is scheduled, what was deleted is not, and a
  restart does not change that.
* Execution: an instance says SUCCESS only if its flow succeeded; a plan is
  started as a whole or not at all; every started instance gets its last word.
* Problem collection: a plan is the smallest missing problems; a loaded problem
  has all its children, once; every problem that can be collected is.
* User jobs: a state of a problem says only what was so; what was counted is
  recorded, because an unchanged count stops the next synchronization.
* Today job: every day gets its problems, one per group of levels and two of the
  fourth group; a problem does not come back within `maxDays`, and a day is
  filled once.
* Job catalogue: a flow runs the steps of the definition that is in the table,
  whether they come from the table or from the cache.

## Modules

| Module | Models |
| --- | --- |
| `FlowQueue` | The queue: job `<<f, i>>` is step `i` of flow `f`; states, locks, stalls. BullMQ's contract, read off the options `generateJob` and `WorkerService` use. |
| `Dispatcher` | `WorkerService.process`, `DispatcherService.dispatch` and the `JOB_INSTANCE` table. `exec[p].pc` is the await the call is about to make. |
| `Orchestrator` | `OrchestratorService.orchestrate`; `waits[j]` is the promise of `waitUntilFinished`. |
| `Engine` | The three composed, with crashes. One process has one worker slot (BullMQ's default concurrency). |
| `LinearFlow` | What the engine promises of a flow, and nothing else. |
| `EngineProperties` | The properties of the engine and the refinement mapping to `LinearFlow`. |
| `EngineProofs`, `DispatchProofs` | The theorems about the engine: the queue and the refinement; the dispatch calls and the rows they write. |
| `JobTree` | The two loops `generateJob` and `toFlatJobNode`, on which the chain of `FlowQueue` rests. |
| `JobCatalog` | `JobService.createJobDefinition` and `deleteJobDefinition` against `getJobDefinition` and its cache, with the rejections of each; the flow of one call goes on into `JobTree`. |
| `CatalogProofs` | The theorems about `JobCatalog` and `JobTree`. |
| `BatchScheduler` | `BATCH_DEFINITION` against the cron registry. |
| `BatchExecution` | From a cron firing to the last write of a batch instance; it composes the batch with `LinearFlow`, which stands for the engine. |
| `BatchProofs` | The theorems about `BatchExecution`. |
| `SchedulerProofs` | The theorems about `BatchScheduler`. |
| `ProblemPlan` | `ProblemBojPlan.plan`: the filter, the sort and the walk over the problem numbers, as functions. |
| `ProblemCollection` | Overlapping firings of the problem batch, requests for any one problem, the steps `collect`, `process` and `load` of its flows, and the tables `load` writes. |
| `ProblemProofs` | The theorems about `ProblemCollection`. |
| `UserSync` | `ProblemBojUserPlan.plan`, overlapping firings for one user and requests with anybody's handle, and the two steps of their flows, against a user who goes on solving. |
| `UserProofs` | The theorems about `UserSync`. |
| `TodayProblem` | `TodayProblemBojPlan.plan`, overlapping firings, requests for days behind and beyond the plan too, midnight, and the draw and the insert of a day. |
| `TodayProofs` | The theorems about `TodayProblem`. |
| `MC*` | Constant values for TLC. |

How state and code correspond:

* An action is the code between two awaits.  An action whose await may reject
  has a disjunct for that, and where a write may have been committed
  nevertheless (`TryFails`, `MarkFailed`, `AddFails`, `WriteRow`,
  `CreateInstance`, `Update`, `UpsertAccount`, `CreateStates`) one for each outcome.
  In `JobCatalog` these are the rejecting disjuncts of `Get`, `Find` and `Set`, the
  awaits of `getJobDefinition`.
* Data is reduced to its origin: `0` is the request data of a flow, `i` the
  result of step `i`.  That is all `getNextData` can get wrong.
* `startedAt` is a counter per flow (`ticks`): the order of the dispatch calls.
  This assumes that clocks do not run backwards between two steps of one flow.
* BullMQ removes a finished job (`removeOnComplete`, `removeOnFail`): the states
  `completed` and `failed` record how it ended, and `CheckFinished` finds only
  that it is gone.
* A definition that passes `@IsCron` but is refused by `CronJob` is a member of
  `BadCron`; the decorator uses another cron parser than the scheduler.
* Two `Procs` stand for two processes, or for the overlap of an old and a new
  one in a deployment.  The README of the repository describes one; the queue
  allows more.
* `plan` keeps an index into the sorted numbers.  The index only passes numbers
  below `current`, so `ProblemIndex` states where it stops without saying where
  it was, and the loop that pushes until it has enough is a prefix
  (`Enough`) of what passes the test (`Missing`).  `sort` puts a number behind the
  smaller ones and the equal ones that came before it (`SortedBefore`).
* `@PrismaTransaction` is inert: `PrismaService` asks the reflector for the
  decorator function, the mark is under a symbol.  `load` therefore has a step
  for each of its five database calls, and a failure may fall between them.
* `ProblemCollection` takes from the engine what `Engine` says of it: steps in
  order, a throw ends the flow, a step of a dead process is delivered once more
  and may then get the request instead of the previous result (finding 1).
* `GET api/v1/orchestrator` starts a problem flow for any problem, at any time.
  `Request` of `ProblemCollection` is that flow; it takes the place of a firing that
  has no flow under way, which is how `Firings` bounds what runs together.
* `JobCatalog` has one definition name: calls for different names share nothing.
  A delete is always refused: `jobNo` reaches Prisma as a string, because the
  validation pipe does not transform it.  A cache entry may expire at any time.
  Steps of the same `order` are listed in any order.
* In `UserSync` a firing takes handle and count from whichever account is first
  (`first`): `plan` reads `problemSiteAccountList[0]` of any site.  A request names
  any handle and brings no count.  `Own` is the user's handle; `Other` stands for
  any handle that is not the user's: that of an account at another site, or what a
  caller typed.  At BOJ it belongs to a stranger, who solved `OtherSolves` and failed
  at `OtherFails`.  `SolvedBy` and `FailedBy` are the answers of solved.ac and acmicpc,
  which agree here.  The account keeps the handle it was created with (`holder`).
  `failedCount` is left out with its `update`: no code reads it, and a rejection of
  that call is a rejection of the await before it.  `upserted` is the time between
  the return of the first step and the completion of its job: a crash there
  delivers the step again, with its request, or, behind its SUCCESS row, with its
  own result, which has no `solvedCount`.
* `TodayProblem` counts days from the first one; a flow keeps the distance, and
  `Day(f)` is the day it means now.  A request may name any distance (`Asked`), behind
  today or beyond the plan.  One that is not a number makes an invalid date, the
  first read rejects, and the flow ends with nothing stored: it is left out.  The weights and `Math.random` are a choice
  among all candidates, which is exact for groups of up to ten problems and allows
  more above.  `Handler` is the table of `engineered.problem.type.contants.ts`, a
  constant here: what the draw does with it does not depend on its rows.
* `attempts`, `hurt`, `overlapped`, `missed`, `asked`, `countedBy`, `stale`, `repeated`
  and `contested` are history variables: nothing reads them but the properties.
* Definitions named as mutants (`AddFlat`, `SucceededData`, ...) are not part of the
  model.  Each is a plausible bug of the definition below it that makes one
  property fail.

## Runs

| Run | Question | Result |
| --- | --- | --- |
| `zombie` | Two processes, locks that may expire at any time, a crash: what is still guaranteed? | Order, stop at failure, the first attempt's input, at most `MaxStalledCount + 1` attempts a step, and the refinement of `LinearFlow`. |
| `crash` | Two processes that keep their locks, three steps, two crashes. | Attempts do not overlap, completed steps are persisted, their rows are frozen. |
| `live` | One process, a crash, two flows that compete for the worker. | Every call settles unless its process dies; every flow ends. |
| `retry` | Does a retried step get the previous result? | **No.** See Findings. |
| `report` | Does FAILED mean that a step failed? | **No.** See Findings. |
| `job_tree` | Two calls look up a definition that requests create and try to delete, and cache and database calls reject; do the loops build and list its chain? | Yes, for all definitions of up to three steps; what is found is what is in the table, and nothing that is there is missed. |
| `scheduler` | Three overlapping requests and a restart; duplicate names, a poisoned cron. | Nothing is missing after a synchronization that ended well; only a poisoned table stops the boot. |
| `stale_schedule` | Is a deleted definition ever left scheduled? | **Yes.** See Findings. |
| `problem_collection` | Two firings, one of which may give way to requests, overlap on two processes, with a rejection or a crash. | Plans are the smallest missing problems (see finding 4); a problem is whole unless its load failed; no second copies unless two loads overlapped; everything collectable is collected. |
| `user_sync` | Two syncs of a user overlap, planned with the first account of any site or requested with anybody's handle, with a rejection or a crash. | Rows never change and say only what was so, for a handle that was asked for; what was counted for the user is recorded or `missed`; what is solved gets its row, is `missed`, or is hidden by a stranger's equal count. |
| `today_problem` | Two firings, or a firing and requests for a day beyond the plan, overlap across a midnight, with a fault. | No repeats but by draws at the same time; no day is filled twice but where `contested`; no drawable day stays empty. |
| `batch_execution` | Lost updates, failed plans and a crash. | SUCCESS is never wrong, FAILED is final, plans start as a whole, every run settles. |

### Bounds

* Flows of two and three steps: the batches of the system have one, two and
  three.  The order properties relate a step to its neighbours, and the proofs
  cover any length.
* Two processes: two attempts of a step are what a lost lock can produce at a
  time.  A third attempt follows from the second crash or stall.
* `MaxStalledCount = 1` is BullMQ's default; `worker.service.ts` sets none.
* `MaxCrashes` (1 or 2) bounds crashes; one crash per attempt is enough to use
  up the redeliveries of a step.
* `Calls` has three requests: the stale schedule needs the synchronizations of a
  save and of a delete to overlap, and one request has to save the definition
  first.  `Defs` has four rows: two of one name, one more, one poisoned.
* `problem_collection`: four numbers and plans of two make a plan that is full, one
  that is not, and an empty one; one number is excluded, one always fails, one
  row of another source lies below and one above.  Two firings are needed for
  two loads of one problem; one fault for a load that is redelivered (a
  second one is beyond a run of five minutes).  `MaxCopies = 2` tells one copy from
  several.  One of the two firings may give way to requests (`Requests`) for a
  problem that may be there or missing (`Asked`); a request for an excluded problem
  is a load like any other.  `Loaded` leaves out the excluded number, which would
  only double the tables to begin with.
* `job_tree`: three steps of two names and two orders make repeated names, ties and
  every reordering of a tie; two calls are one that is followed and one that fills
  the cache behind it.
* `user_sync`: two problems tell a count of one from a count of all.  One may be
  missing in `PROBLEM_V2` and may be tried in vain before it is solved.  Two syncs
  overlap; one fault is enough to fail a step behind the count or to deliver it
  again.  The stranger solved the one problem and failed at the other, so that each
  of the stranger's rows differs from the user's at some time, and the stranger's
  count of one equals the user's after the first problem.  The account at the other
  site has a count (three) no answer has.
* `today_problem`: with two days in sight and one midnight a flow may be late by a
  day and a day may bar problems of the next.  Requests are for the day behind the
  plan, which midnight brings into the plan (a day behind today as well is beyond a
  run of five minutes; the theorems hold for any).  Four problems in two groups: one
  group of one problem, which may be empty, so that the group behind it moves up to
  the place of the pair; in that one, two of three problems share a type, so that a
  pair leaves one problem for another day, or for a day that is filled twice.
  `PairIndex` is 1 for the 3 of the code, and `MaxDays`, which is configured, is 2.
* `MaxPlan = 2`: a plan can fail before, between and after its rows.

Deadlock is not checked: a system in which nothing is asked any more may stop.

### Fairness

`FairSpec` of `Engine` has weak fairness for the steps of an `orchestrate` call,
for each worker and for each job in BullMQ: node runs what is ready, database
and Redis calls answer or reject, handlers return or throw, the stalled check
runs on a timer, events are delivered.  No fairness is assumed for the start of
a call, and none for crashes.  Some handlers call services without a timeout:
for them, "handlers return" is an assumption about the service.  In
`ProblemCollection`, `UserSync` and `TodayProblem` the cron job keeps firing (and the
user keeps logging in), and the steps of a flow, or of the flows of one firing,
are strongly fair: the wait list of BullMQ is first in, first out, so a flow that
can be taken again and again is taken, however many requests come between.  In
`ProblemCollection` the firing itself is part of that strong fairness, because a
request may hold its place in `Firings`; cron jobs fire whatever is under way.  No
request is fair.  In `BatchExecution` the fairness of `Answer` is what `EveryCallSettles` shows of
the engine.

## Proofs

`EngineProofs` proves, for every set of flows, processes and step lists, every
`MaxStalledCount`, every `MaxCrashes`, and for locks that may or may not expire:

* `TypeCorrect`: `Spec => []TypeOK`.
* `StepsInOrder`: `Spec => []ChainInOrder`.  `ChainInOrder` is not inductive:
  adding a flow would break it if a job of the flow were there already.
  `NotAddedYet` says that none is before `orchestrate` called `add`.
  `ChainMove` then has one case per move of the queue; the case of a completion
  needs that no later job is on its way, which is `ChainInOrder` itself.
* `EngineImplementsLinearFlow`: `Spec => ImplementsLinearFlow`.  `done` and
  `stopped` are read off the queue, `report` off the call.  A completion is
  `CompleteStep` (`CompletionMaps`), the failure of an active job `FailStep`
  (`FailureMaps`), the failure of a parent a stutter, because its flow has
  stopped already.  That SUCCESS is only reported when every step is done needs
  `ResolvedMeansCompleted`: a wait resolves only for a completed job, and a
  completed job stays completed (`CompletedIsStable`).  The inductive invariant
  is `FlowInv == TypeOK /\ ChainInOrder /\ NotAddedYet /\ ResolvedMeansCompleted`.

`DispatchProofs` is about the dispatch calls.  Three of its theorems hold under
every crash and with locks that may expire at any time, when a worker that was
given up may still be writing:

* `NothingBehindAFailedStep` (`FailedStepStopsFlow`).  The property speaks of rows,
  and a row outlives the worker that wrote it.  `StartedInOrder` says that a
  process in a dispatch call, and a row, are only there for steps behind completed
  ones; a completed job stays completed, so it survives the loss of a lock.
* `FirstAttemptsGetTheirData` (`FirstAttemptGetsPreviousResult`).  `getNextData` takes
  the row that started last, so the previous result must be there and its stamp
  must be the greatest.  `ResultsStay`: once a job is completed its result is in
  its row, and no later attempt takes it away.  `StampsInOrder`: the row of a step
  is older than every dispatch call and row of a later step.  `StampsArePast` and
  `RowsHaveSteps` close the induction (`DataInv`).
* `DeliveriesAreBounded` (`AttemptsBounded`): every step, not only the flow as a whole,
  is given to at most `MaxStalledCount + 1` dispatch calls.  `attempts` counts them in
  `Take`; `AttemptsInv` says for each state of the queue that all deliveries but the
  first followed a stall, and a job that waits for its child had none (`AttemptsOf`,
  `Counted`).

The others assume `LocksMayExpire = FALSE`: `NoOverlappingAttempts`,
`FinishedRowsStayFrozen` and `CompletedStepsArePersisted`.  The strengthening is
`RunningHoldsLock`: every dispatch call in progress runs an active job its process
has locked.  Two jobs of a flow are never active together (`OneActiveJob`), so one
lock holder per job is one attempt per flow; a finished job is not active, so
nobody writes its row; and a call that resolved wrote its row in the step before
(`ResolvedMeansWritten`).  `OnlyRetriesGetOtherData` adds `MaxCrashes = 0` and flows
without repeated names, and proves `LaterStepGetsPreviousResult`, the property that
the run `retry` shows violated: a job is then delivered once and finds no row of
its own (`DeliveredOnce`).  So a second delivery is the only way to finding 1.

`CatalogProofs` proves, for any number of calls and definitions of any length,
`NoneIsMissed` (`NotFoundMeansAbsent`) and `FlowsRunTheTable` (`RunsTheDefinition`): what
the cache and a lookup under way hold is an order of the steps in the table
(`FoundIsCurrent`), which nothing changes once it is there.  `TreesAreChains`
(`TreeIsChainOfSteps`) and `AllStepsAreAwaited` (`WaitsForEveryStep`) are proved from
`TreeInv`, the loop invariants of `generateJob` and `toFlatJobNode`: the steps popped
so far are a chain, and the jobs listed are the last ones of it.

`BatchProofs` proves `SuccessIsReal` (`SuccessMeansAllStepsDone`),
`PlansStartAsAWhole` and `FailedStaysFailed` for any firings, plans and flow
lengths.  The invariant is `BatchInv`: a flow that reported SUCCESS is done and
only its instance may say so (`ReportInv`); an instance is PENDING until its
first update, so the callback of `then` never writes over a FAILED one
(`RunInv`); and the rows of a plan are those it made, started only as a whole
(`PlanInv`), so the plan never writes over a row that is there.

`SchedulerProofs` proves two theorems for any requests, definitions, names and
restarts.  `NothingMissed` (`NoMissedSchedule`): `FoundInv` follows a saved
definition from its row to the snapshot of the call that emptied the registry
last, and `AddedCrons` says that adding a snapshot leaves every cron job alone
that is there already, so calls that are late add nothing over it.
`BootFailsOnPoison` (`BootFailsOnlyOnPoison`): during the boot no request is
under way (`BootInv`), so the registry is empty and the snapshot is the table.

`ProblemProofs` proves `NoSecondCopies` (`OneCopyOfEach`) and
`OnlyFailedLoadsHurt` (`WholeUnlessHurt`) for any firings, processes and faults.
`LoadInv` follows a load through its awaits: what it deleted stays deleted
(`DeletedInv`) because no other load is rewriting the problem, or the overlap is
recorded (`AloneInv`), and a problem that is not there has nothing to delete
(`NoOrphans`).  `PlannedInv` keeps the plan of a firing while its flows run.
`OneWorkerNeverOverlaps` closes the case of the one worker: `overlapped` stays
empty, so `NoSecondCopies` holds of every problem.

`PlansAreSmallest` (`PlansSmallestMissing`) is about `plan`, for any table, any lists
and any number asked for.  Its lemmas follow the code: in a finite strict order
the number of the members before one is its place (`Places`, from `FS_Injection`), so
`sort` loses nothing (`NumbersAreSorted`); the inner loop stops at the first
number that is not below `current` (`IndexStops`), so the test finds exactly what is
not in the sorted list (`WalkFindsMissing`); and the first ones that pass are the
smallest (`EnoughAreSmallest`).  None of them needs induction over a sequence: a
sequence is described by the places of its members.  `PlansAreAnswers` carries the
plan to the start of its flows.

`UserProofs` proves `RowsTellTheTruth` (`StatesAreTrue`),
`NothingCountedIsForgotten` (`CountedIsRecorded`) and `RowsStay` (`RowsAreFinal`) for
any problems, syncs, processes and faults, and for any problems a stranger solved or
failed at.  The invariant is `UserInv`.  `GoodFlows` says that the answers a flow
carries were true of its handle when they were given, and stay so, because nobody
unsolves a problem, and that the handle is among those `asked`.  `CountedIsRecorded` is not inductive: that the
account counts all that is solved must mean that the flow which counted it carries
exactly the solved problems.  `CountIsOld` gives the half that is missing: a count
is never more than the number of the solved problems, so a subset with as many
members is all of them (`FS_Subset`, `FS_CardinalityType`).

`TodayProofs` proves `OnlyOverlapsRepeat` (`NoRepeats`) and `OnlyContestedFilledTwice`
(`FilledOnce`) for any problems, levels, types, horizons and faults.  The invariant is
`TodayInv`: a flow that is not `stale` has read all that is served around its day
(`FreshReads`), also when midnight moves the day on, since it then looks at fewer
days; a flow that may still draw for a day with problems (`LateFlows`), or for the
day of another flow (`DoubleFlows`), has been counted as `contested`.  Neither proof
looks into the draw: it only needs that what is drawn was not barred.

`TypeCorrect` of `TodayProofs` holds for requests of any distance: the days of
`TODAY_PROBLEM` are those of the plan and of `Asked`, which is any set of integers.

`TypeCorrect` (`TypeOK`) is proved in each of these modules but `CatalogProofs`, whose
runs check no types.  It is a conjunct of the inductive invariants; in
`BatchScheduler` it is inductive alone, in `ProblemCollection` together with
`PlannedFlows`, which says that a flow under way is for a problem of its plan.

Only model-checked are the liveness properties `EveryCallSettles`, `EveryFlowEnds`,
`EveryRunSettles`, `EveryProblemIsCollected`, `SolvedIsRecorded` and `NoDayStaysEmpty`:
fairness and ENABLED are out of the prover's reach.  The properties of the
first three findings are false; that of the fourth, `PlansSmallestMissing`, is proved.  Every other property of the runs is a theorem.

Assumptions of the proofs are the `ASSUME`s of `FlowQueue`, `Engine`, `JobCatalog`,
`BatchScheduler`, `BatchExecution`, `ProblemPlan`, `ProblemCollection`, `UserSync` and
`TodayProblem`, which TLC evaluates in every run of the module, and the hypotheses
named above.  The one of `JobCatalog` says that `None`, which stands for what is not
there, is not a list of steps.

## Findings

1. **A retried step loses the previous step's result** (`retry`).
   `dispatcher.service.spec.ts:133` says that the next job runs on the result of
   the previous one.  `getNextData` takes the row that started last.  After a
   crash between the RUNNING upsert and the end of a step, that row is the
   step's own: its result is null and `?? data` falls back to the request data
   of the flow.  `process` and `load` then run on the request instead of the
   crawled problem.
2. **FAILED without a failure** (`report`).  `orchestrator.service.spec.ts:136`
   says that SUCCESS is returned when all jobs complete.  A job that completes
   and is removed before `waitUntilFinished` looks for it rejects that wait;
   one rejected wait makes the whole result FAILED.
3. **A deleted definition stays scheduled** (`stale_schedule`).
   `batch.service.spec.ts:389` and `:133` expect the synchronization after a
   delete to remove its cron job.  Two synchronizations overlap at the await
   between the clearing and the adding; the one with the older snapshot adds the
   deleted definition last, and both requests succeed.
4. **The plan's tests expect one problem** (`problem_collection`).
   `problem-boj.plan.spec.ts:47`, `:69` and `:92` say where a plan begins for an empty
   table, behind the last problem and at a gap, and each expects a plan of exactly
   that one problem.  `targetCount` is 50 (`problem-boj.plan.ts:115`), and the plan is
   the 50 smallest missing problems.  `PlansSmallestMissing` states what the code
   does; it holds, and the three tests disagree with it.

What the models show besides; each is what the code does, and either no document
says otherwise or no property is stated about it:

* A load that fails or dies between its calls leaves a problem without types,
  samples or subtasks (`hurt`), and since the plan only looks for missing rows
  nothing ever collects it again.  A crash after the upsert is enough: the
  redelivered load runs on the request, deletes the children and throws.
* `languageLimitList` is created by every load and deleted by none: a problem
  that is loaded twice has its language limits twice (`limits`).
* With two processes a problem may get two copies of its samples: a load that saw
  no row deletes nothing, and its upsert becomes an update when another load was
  faster.
* If as many problems as a plan has can never be collected, every plan consists
  of them and nothing else is collected (`EveryProblemIsCollected` assumes fewer);
  the lists in the plan are kept by hand.
* The first user step commits `solvedCount` before the second one records the
  problems.  If the second fails, or a problem comes to `PROBLEM_V2` later, the next
  syncs stop at `solvedCount is not changed` until the user solves something else
  (`missed`).
* A sync for a stranger's handle is stored as the user's: `plan` takes the first
  account of any site, and `GET api/v1/orchestrator/user` takes any handle.  What the
  stranger solved and failed at becomes SOLVED and FAILED rows of the user
  (`StatesAreTrue` allows them for a handle in `asked`), an account that was not
  there is created with the stranger's handle, and the account counts what the
  stranger solved (`countedBy`).  If the user's own count is the same later, the sync
  stops at `solvedCount is not changed` although nothing was recorded
  (`SolvedIsRecorded` names that case).
* A problem that was recorded as FAILED is never marked SOLVED: the insert skips
  the row that is there.  FAILED is also none of the states that the comment at the
  column in `schema.prisma` lists.
* `groupByLevel` is read by position: when a group has no candidates left, the
  groups behind it move up, and another group gives two problems.  A group whose
  candidates have no handled type gives a row without `problemUuid`, and the insert
  of the whole day rejects.
* The days before which problems are barred are `maxDays` of the configuration; the
  comment of `getPreviousProblems` says seven.  There is no upper end, so problems
  that are served later are barred as well.
* A today flow that waits past midnight fills the day after the planned one; one
  that is delivered again after its insert fills its day twice: `TODAY_PROBLEM` has
  no unique key.
* No delete of a definition is carried out and no lookup by number succeeds
  (`JobCatalog`), although `job.controller.ts:37` documents the answer to a delete.
  The cache never being outdated (`RunsTheDefinition`) rests on that: nothing
  invalidates an entry.

## Not modelled

* S3, Nemo and the Prisma client: stateless from here; their failure is the
  failure of a handler or of an await.
* The weights of the today draw and the table of type scores: they are floating
  point numbers and data, and only order candidates that the model draws from
  freely.  Some handled types have no score; their weight is `NaN`, and the sort is
  then inconsistent.
* What a problem consists of, its HTML and its images: `process` and `load` of
  `ProblemCollection` keep only where data came from and which rows it becomes.
* The endpoints that only list or look up: they change nothing.  The `GET` endpoints
  of the orchestrator are not among them: they start flows, and are the `Request`
  actions of `ProblemCollection`, `UserSync` and `TodayProblem`.
* A `uuid` in the request data, which would replace the one of the flow: no caller
  in the repository passes one.
* Bootstrap, configuration, HTTP wrapping, logging, date formatting.
* Repeated step names: the properties about data claim nothing of such a
  definition (`Distinct`).
* Clock skew, and the error code and message that are reported.

## Plan

Order, most important first.

1. Done: the engine (`FlowQueue`, `Dispatcher`, `Orchestrator`, `Engine`,
   `LinearFlow`), `JobTree`, `BatchScheduler`, `BatchExecution`, and their
   theorems.
2. Done: `ProblemPlan` and `ProblemCollection`, and the theorems about loads.
3. Done: `UserSync` and `TodayProblem`, and the theorems about rows and days.
4. Done: `JobCatalog`, joined to `JobTree`.
5. Done: the theorems about dispatch calls (`DispatchProofs`), the catalogue and its
   loops (`CatalogProofs`), the plan of the problem batch and all type invariants.
6. Left: that the flows of `ProblemCollection`, `UserSync` and `TodayProblem` take no
   step `LinearFlow` does not allow, so that the theorems of the engine reach them.
