------------------------------- MODULE UserSync -------------------------------
(***************************************************************************)
(* The user batch, for one user: a firing plans the user, and the flow of  *)
(* the plan asks solved.ac how many problems the user solved (step 1) and  *)
(* acmicpc which ones (step 2), and records them.  The engine is abstract, *)
(* as in ProblemCollection; a step that is delivered again finds userUuid  *)
(* and handle in the request as well as in the previous result.            *)
(***************************************************************************)
EXTENDS Naturals, FiniteSets

CONSTANTS
    Problems,
    Late,       \* problems that may be missing in PROBLEM_V2 at first
    Hard,       \* those the user may try in vain before solving them
    Firings,    \* flows of firings and requests that may be under way together
    Requests,   \* those that may come from a request
    Workers,    \* processes, with one worker slot each
    Own,        \* the user's handle at BOJ
    Other,      \* a stranger's: the user's own at another site, or any handle
    OtherCount, \* solvedCount of the user's account at that site
    OtherSolves,\* what the BOJ user who has that handle solved
    OtherFails, \* and tried in vain
    NoCount,    \* no account, or no solvedCount in the request
    MaxFaults   \* bound on the rejections and crashes of a behaviour

ASSUME SyncAssumption ==
    /\ Workers \in Nat /\ MaxFaults \in Nat /\ OtherCount \in Nat
    /\ IsFiniteSet(Problems) /\ Requests \subseteq Firings /\ Own # Other
    /\ OtherSolves \cup OtherFails \cup Late \cup Hard \subseteq Problems /\ NoCount \notin Nat

VARIABLES
    solved, failing, \* what the user solved, and tried in vain so far, at BOJ
    known,      \* BOJ problems in PROBLEM_V2
    first,      \* the site of problemSiteAccountList[0]
    account,    \* solvedCount of the user's BOJ account
    holder,     \* handle of the user's BOJ account
    state,      \* state[n]: USER_PROBLEM_STATE of problem n
    flows,      \* flows[t]: the flow of firing t
    missed,     \* history: problems a sync counted and left without a state
    asked,      \* history: the handles whose answers got past the count test
    countedBy,  \* history: the handle whose answer the account counts
    faults      \* rejections and crashes so far

site == <<solved, failing, known>>
tables == <<account, holder, state>>
history == <<missed, asked, countedBy>>
vars == <<site, first, tables, flows, history, faults>>

Handles == {Own, Other}

\* "solved" and "acmicpc" wait for a worker, "upserted" and "recorded" for the
\* SUCCESS row and the completion of a step; the others are the awaits of the
\* steps.
Inside == {"upsert", "upserted", "findSolved", "createSolved", "findFailed",
           "createFailed", "recorded"}

FlowType == [pc : {"ended", "solved", "acmicpc"} \cup Inside,
             handle : Handles, solvedCount : Nat \cup {NoCount},
             solves : SUBSET Problems, fails : SUBSET Problems, again : BOOLEAN]

TypeOK ==
    /\ solved \subseteq Problems /\ failing \subseteq Problems \ solved
    /\ known \subseteq Problems
    /\ first \in {"BOJ", "other"}
    /\ account \in 0 .. Cardinality(Problems) \cup {NoCount} /\ holder \in Handles
    /\ state \in [Problems -> {"none", "SOLVED", "FAILED"}]
    /\ flows \in [Firings -> FlowType]
    /\ missed \subseteq Problems /\ asked \subseteq Handles /\ countedBy \in Handles
    /\ faults \in Nat

Flow(handle, count) ==
    [pc |-> "solved", handle |-> handle, solvedCount |-> count,
     solves |-> {}, fails |-> {}, again |-> FALSE]

Over == [Flow(Own, NoCount) EXCEPT !.pc = "ended"]

Init ==
    /\ solved = {} /\ failing = {}
    /\ known = Problems \ Late
    /\ first \in {"BOJ", "other"}
    /\ account \in {NoCount, 0} /\ holder = Own
    /\ state = [n \in Problems |-> "none"]
    /\ flows = [t \in Firings |-> Over]
    /\ missed = {} /\ asked = {} /\ countedBy = Own
    /\ faults = 0

Fault == faults < MaxFaults /\ faults' = faults + 1

SolvedBy(handle) == IF handle = Own THEN solved ELSE OtherSolves

FailedBy(handle) == IF handle = Own THEN failing ELSE OtherFails

-------------------------------------------------------------------------------
(* The user, the problem batch and the firings *)

Submit(n) ==
    /\ n \notin solved
    /\ \/ solved' = solved \cup {n} /\ failing' = failing \ {n}
       \/ n \in Hard \ failing /\ failing' = failing \cup {n} /\ UNCHANGED solved
    /\ UNCHANGED <<known, first, tables, flows, history, faults>>

\* The load of a problem that was missing.
LoadProblem(n) ==
    /\ n \in Late \ known
    /\ known' = known \cup {n}
    /\ UNCHANGED <<solved, failing, first, tables, flows, history, faults>>

PlannedHandle == IF first = "BOJ" THEN holder ELSE Other

PlannedCount == IF first = "BOJ" THEN account ELSE OtherCount

Begin(t, handle, count) ==
    /\ flows[t].pc = "ended"
    /\ flows' = [flows EXCEPT ![t] = Flow(handle, count)]
    /\ UNCHANGED <<site, first, tables, history, faults>>

\* Mutant of Plan: a user nothing was counted for yet is left out.
PlanSyncedUsers(t) ==
    /\ account # NoCount /\ account # 0
    /\ Begin(t, PlannedHandle, PlannedCount)

\* plan, for a user who has a BOJ account and logged in on the last day: handle
\* and count are those of whichever account is listed first.
Plan(t) ==
    /\ account # NoCount
    /\ Begin(t, PlannedHandle, PlannedCount)

\* GET orchestrator/user: whatever handle the caller names, and no solvedCount.
Request(t, handle) ==
    /\ t \in Requests
    /\ Begin(t, handle, NoCount)

-------------------------------------------------------------------------------
(* Steps *)

Free == Cardinality({t \in Firings : flows[t].pc \in Inside}) < Workers

Goto(t, next) == flows' = [flows EXCEPT ![t].pc = next]

\* Problems the user solved are left out by the flow of t (a stranger's do not count).
Miss(t, problems) ==
    missed' = IF flows[t].handle = Own THEN missed \cup problems ELSE missed

\* The flow of t ends; what it counted and did not record is missed.
Abandon(t, counted) ==
    /\ flows' = [flows EXCEPT ![t] = Over]
    /\ Miss(t, IF counted THEN flows[t].solves ELSE {})

Counted(t) == flows[t].pc # "upsert" \/ flows[t].again

\* An await of the step rejects.
Reject(t) == Abandon(t, Counted(t)) /\ Fault

\* solved.ac answers.  A count that has not changed makes the step throw.
AskSolved(t) ==
    LET answer == SolvedBy(flows[t].handle)
    IN  /\ flows[t].pc = "solved" /\ Free
        /\ \/ /\ Cardinality(answer) = flows[t].solvedCount
              /\ Abandon(t, Counted(t)) /\ UNCHANGED <<asked, faults>>
           \/ /\ Cardinality(answer) # flows[t].solvedCount
              /\ flows' = [flows EXCEPT ![t].pc = "upsert", ![t].solves = answer]
              /\ asked' = asked \cup {flows[t].handle}
              /\ UNCHANGED <<missed, faults>>
           \/ Reject(t) /\ UNCHANGED asked
        /\ UNCHANGED <<site, first, tables, countedBy>>

\* Mutant of UpsertAccount: the count of the plan is stored.
UpsertPlanned(t) ==
    /\ flows[t].pc = "upsert"
    /\ account' = flows[t].solvedCount
    /\ countedBy' = flows[t].handle
    /\ Goto(t, "upserted")
    /\ UNCHANGED <<site, first, holder, state, missed, asked, faults>>

\* The upsert: an account that is there keeps its handle.
WriteAccount(t) ==
    /\ account' = Cardinality(flows[t].solves)
    /\ holder' = IF account = NoCount THEN flows[t].handle ELSE holder
    /\ countedBy' = flows[t].handle

UpsertAccount(t) ==
    /\ flows[t].pc = "upsert"
    /\ \/ WriteAccount(t) /\ Goto(t, "upserted") /\ UNCHANGED <<missed, faults>>
       \/ WriteAccount(t) /\ Abandon(t, TRUE) /\ Fault
       \/ Reject(t) /\ UNCHANGED <<account, holder, countedBy>>
    /\ UNCHANGED <<site, first, state, asked>>

\* acmicpc answers, and failedCount is stored, which nobody reads.
AskAcmicpc(t) ==
    /\ flows[t].pc = "acmicpc" /\ Free
    /\ \/ /\ flows' = [flows EXCEPT ![t].pc = "findSolved",
                                    ![t].solves = SolvedBy(flows[t].handle),
                                    ![t].fails = FailedBy(flows[t].handle)]
          /\ UNCHANGED <<missed, faults>>
       \/ Reject(t)
    /\ UNCHANGED <<site, first, tables, asked, countedBy>>

\* Mutant of FindSolved: it looks for the problems that failed.
FindFailedTwice(t) ==
    /\ flows[t].pc = "findSolved"
    /\ flows' = [flows EXCEPT ![t].pc = "createSolved",
                              ![t].solves = flows[t].fails \cap known]
    /\ Miss(t, flows[t].solves \ known)
    /\ UNCHANGED <<site, first, tables, asked, countedBy, faults>>

\* A solved problem that is not in PROBLEM_V2 yet is left out.
FindSolved(t) ==
    /\ flows[t].pc = "findSolved"
    /\ \/ /\ flows' = [flows EXCEPT ![t].pc = "createSolved",
                                    ![t].solves = @ \cap known]
          /\ Miss(t, flows[t].solves \ known)
          /\ UNCHANGED faults
       \/ Reject(t)
    /\ UNCHANGED <<site, first, tables, asked, countedBy>>

FindFailed(t) ==
    /\ flows[t].pc = "findFailed"
    /\ \/ /\ flows' = [flows EXCEPT ![t].pc = "createFailed",
                                    ![t].fails = @ \cap known]
          /\ UNCHANGED <<missed, faults>>
       \/ Reject(t)
    /\ UNCHANGED <<site, first, tables, asked, countedBy>>

\* Mutant of Recorded: without skipDuplicates, by an upsert.
Overwritten(problems, new) ==
    [n \in Problems |-> IF n \in problems THEN new ELSE state[n]]

\* createMany with skipDuplicates: a row that is there stays as it is.
Recorded(problems, new) ==
    [n \in Problems |-> IF n \in problems /\ state[n] = "none" THEN new ELSE state[n]]

CreateMany(t, here, problems, new, next) ==
    /\ flows[t].pc = here
    /\ \/ /\ state' = Recorded(problems, new)
          /\ flows' = [flows EXCEPT ![t] = next] /\ UNCHANGED <<missed, faults>>
       \/ Reject(t) /\ (state' = Recorded(problems, new) \/ UNCHANGED state)
    /\ UNCHANGED <<site, first, account, holder, asked, countedBy>>

\* Mutant of CreateStates: the same state for both.
CreateAllSolved(t) ==
    \/ CreateMany(t, "createSolved", flows[t].solves, "SOLVED",
                  [flows[t] EXCEPT !.pc = "findFailed", !.solves = {}])
    \/ CreateMany(t, "createFailed", flows[t].fails, "SOLVED",
                  [flows[t] EXCEPT !.pc = "recorded", !.fails = {}])

CreateStates(t) ==
    \/ CreateMany(t, "createSolved", flows[t].solves, "SOLVED",
                  [flows[t] EXCEPT !.pc = "findFailed", !.solves = {}])
    \/ CreateMany(t, "createFailed", flows[t].fails, "FAILED",
                  [flows[t] EXCEPT !.pc = "recorded", !.fails = {}])

\* The dispatcher writes the SUCCESS row and BullMQ completes the step: the next
\* one is given userUuid and handle, and the flow ends behind the last.
EndStep(t) ==
    /\ \/ /\ flows[t].pc = "upserted"
          /\ flows' = [flows EXCEPT ![t].pc = "acmicpc", ![t].again = FALSE,
                                    ![t].solvedCount = NoCount]
          /\ UNCHANGED <<missed, faults>>
       \/ /\ flows[t].pc = "recorded"
          /\ flows' = [flows EXCEPT ![t] = Over]
          /\ UNCHANGED <<missed, faults>>
       \/ flows[t].pc \in {"upserted", "recorded"} /\ Reject(t)
    /\ UNCHANGED <<site, first, tables, asked, countedBy>>

Step(t) ==
    \/ AskSolved(t)
    \/ UpsertAccount(t)
    \/ AskAcmicpc(t)
    \/ FindSolved(t)
    \/ FindFailed(t)
    \/ CreateStates(t)
    \/ EndStep(t)

\* The process that runs t dies.  BullMQ delivers the step once more; another
\* crash fails it.  Where the SUCCESS row of step 1 was written before, the step
\* is given its own result, which has no solvedCount.
Crash(t) ==
    /\ flows[t].pc # "ended" /\ (flows[t].pc \in Inside \/ Free) /\ Fault
    /\ \/ flows[t].again /\ Abandon(t, TRUE)
       \/ /\ ~flows[t].again
          /\ \E count \in {flows[t].solvedCount}
                           \cup (IF flows[t].pc = "upserted" THEN {NoCount} ELSE {}) :
                flows' = [flows EXCEPT
                    ![t].pc = IF @ \in {"solved", "upsert", "upserted"}
                              THEN "solved" ELSE "acmicpc",
                    ![t].solvedCount = count,
                    ![t].solves = IF flows[t].pc = "upsert" THEN {} ELSE @,
                    ![t].fails = {},
                    ![t].again = TRUE]
          /\ UNCHANGED missed
    /\ UNCHANGED <<site, first, tables, asked, countedBy>>

Next ==
    \/ \E n \in Problems : Submit(n) \/ LoadProblem(n)
    \/ \E t \in Firings : Plan(t) \/ Step(t) \/ Crash(t)
    \/ \E t \in Firings, handle \in Handles : Request(t, handle)

Spec == Init /\ [][Next]_vars

\* The user keeps logging in, the cron job keeps firing, the workers keep working
\* and BullMQ takes waiting jobs in turn.
FairSpec ==
    /\ Spec
    /\ \A t \in Firings : WF_vars(Plan(t)) /\ SF_vars(Step(t))

-------------------------------------------------------------------------------
(* Properties *)

\* However old the answers are that overlapping syncs write, a row says SOLVED
\* only of a problem that was solved, and FAILED only of one that was tried in
\* vain, by a handle a sync of this user has asked for.  A stranger's handle,
\* planned or requested, is the only way to a row that is not the user's own.
StatesAreTrue ==
    \A n \in Problems :
        /\ state[n] = "SOLVED" => \E handle \in asked : n \in SolvedBy(handle)
        /\ state[n] = "FAILED" =>
              \/ Own \in asked /\ n \in solved \cup failing
              \/ Other \in asked /\ n \in OtherFails

\* A row is never changed: neither does a late answer turn SOLVED into FAILED,
\* nor a new one FAILED into SOLVED.
RowsAreFinal ==
    [][\A n \in Problems : state[n] # "none" => state'[n] = state[n]]_vars

\* solvedCount is what the next sync is compared with.  When it is the user's own
\* and counts all that the user solved, every one of these problems has a row, a
\* sync is on its way to make it, or it is known to be missed: its sync failed
\* behind the count, or it was not in PROBLEM_V2 when the sync looked.
CountedIsRecorded ==
    account = Cardinality(solved) /\ countedBy = Own =>
        \A n \in solved :
            \/ state[n] # "none"
            \/ n \in missed
            \/ \E t \in Firings :
                  flows[t].handle = Own /\ Counted(t) /\ n \in flows[t].solves

\* What a user solves whose own handle is planned gets a row sooner or later, or
\* it is missed, or the sync is stopped by a stranger's count that equals the
\* user's.
SolvedIsRecorded ==
    \A n \in Problems :
        account # NoCount /\ PlannedHandle = Own /\ n \in solved
            ~> \/ state[n] # "none"
               \/ n \in missed
               \/ account = Cardinality(solved) /\ countedBy # Own
=============================================================================
