------------------------------ MODULE UserProofs ------------------------------
(***************************************************************************)
(* Theorems about UserSync, for any problems, firings, workers and faults. *)
(***************************************************************************)
EXTENDS UserSync, TLAPS, FiniteSetTheorems

-------------------------------------------------------------------------------
(* The invariant *)

\* What a flow holds was so when it asked, for its handle; a flow that is at an
\* end of its work holds nothing it counted.
Good(f) ==
    /\ f.handle = Own => f.solves \subseteq solved /\ f.fails \subseteq solved \cup failing
    /\ f.handle = Other => f.solves \subseteq OtherSolves /\ f.fails \subseteq OtherFails
    /\ f.solves # {} \/ f.fails # {} \/ f.pc \notin {"ended", "solved"} => f.handle \in asked
    /\ f.pc \in {"ended", "findFailed", "createFailed", "recorded"} => f.solves = {}
    /\ f.pc = "solved" /\ ~f.again => f.solves = {}

GoodFlows == \A t \in Firings : Good(flows[t])

\* No more is counted for the user's handle than what the user solved.
CountIsOld == account # NoCount /\ countedBy = Own => account =< Cardinality(solved)

\* The sync of t is going to record what the user solved.
Holds(t, n) == flows[t].handle = Own /\ Counted(t) /\ n \in flows[t].solves

\* n is accounted for.
Kept(n) ==
    \/ state[n] # "none"
    \/ n \in missed
    \/ \E t \in Firings : Holds(t, n)

\* A row of n that says new is true.
TrueRow(n, new) ==
    /\ new = "SOLVED" => \E handle \in asked : n \in SolvedBy(handle)
    /\ new = "FAILED" => \/ Own \in asked /\ n \in solved \cup failing
                         \/ Other \in asked /\ n \in OtherFails

UserInv == TypeOK /\ GoodFlows /\ StatesAreTrue /\ CountIsOld /\ CountedIsRecorded

LEMMA OverIsFlow == Over \in FlowType
BY SyncAssumption DEF Over, Flow, FlowType, Handles

LEMMA InitUserInv == Init => UserInv
<1> SUFFICES ASSUME Init PROVE UserInv
  OBVIOUS
<1> USE SyncAssumption
<1>1. Cardinality(Problems) \in Nat /\ Cardinality({}) = 0
  BY FS_CardinalityType, FS_EmptySet
<1>2. TypeOK
  <2>1. account \in 0 .. Cardinality(Problems) \cup {NoCount}
    BY <1>1 DEF Init
  <2>2. flows \in [Firings -> FlowType]
    BY OverIsFlow DEF Init
  <2> QED
    BY <2>1, <2>2 DEF Init, TypeOK, Handles
<1>3. GoodFlows
  BY DEF Init, GoodFlows, Good, Over, Flow
<1>4. StatesAreTrue
  BY DEF Init, StatesAreTrue
<1>5. CountIsOld
  BY <1>1 DEF Init, CountIsOld
<1>6. CountedIsRecorded
  BY DEF Init, CountedIsRecorded
<1> QED
  BY <1>2, <1>3, <1>4, <1>5, <1>6 DEF UserInv

-------------------------------------------------------------------------------
(* Steps of a flow *)

\* A step of t that leaves the count alone keeps the invariant if what t holds
\* is good, what is recorded is true, and nothing t counted is lost.
LEMMA FlowStep ==
    ASSUME UserInv, TypeOK', NEW t \in Firings,
           \A u \in Firings \ {t} : flows'[u] = flows[u],
           UNCHANGED <<solved, failing, account, countedBy>>,
           asked \subseteq asked',
           Good(flows[t])',
           StatesAreTrue',
           \A n \in Problems : state[n] # "none" => state'[n] # "none",
           missed \subseteq missed',
           \A n \in solved : Holds(t, n) => Kept(n)'
    PROVE  UserInv'
<1> USE DEF UserInv
<1>1. GoodFlows'
  <2> SUFFICES ASSUME NEW u \in Firings, u # t PROVE Good(flows[u])'
    BY DEF GoodFlows
  <2>1. flows'[u] = flows[u] /\ Good(flows[u])
    BY DEF GoodFlows
  <2> QED
    BY <2>1 DEF Good
<1>2. CountIsOld'
  BY DEF CountIsOld
<1>3. CountedIsRecorded'
  <2> SUFFICES ASSUME account = Cardinality(solved), countedBy = Own, NEW n \in solved
               PROVE  Kept(n)'
    BY DEF CountedIsRecorded, Kept, Holds
  <2>1. Kept(n)
    BY DEF CountedIsRecorded, Kept, Holds
  <2>2. ASSUME NEW u \in Firings \ {t}, Holds(u, n)
        PROVE  Kept(n)'
    BY <2>2 DEF Kept, Holds, Counted
  <2>3. n \in Problems
    BY DEF TypeOK
  <2> QED
    BY <2>1, <2>2, <2>3 DEF Kept
<1> QED
  BY <1>1, <1>2, <1>3

\* The fields of a flow.
LEMMA Fields ==
    ASSUME TypeOK, NEW t \in Firings
    PROVE  /\ flows[t] \in FlowType
           /\ flows[t].handle \in Handles
           /\ flows[t].solvedCount \in Nat \cup {NoCount}
           /\ flows[t].solves \subseteq Problems /\ flows[t].fails \subseteq Problems
           /\ flows[t].again \in BOOLEAN
<1>1. flows[t] \in FlowType
  BY DEF TypeOK
<1> QED
  BY <1>1 DEF FlowType

\* A step that only gives t new fields keeps the types.
LEMMA FieldsStep ==
    ASSUME TypeOK, NEW t \in Firings, NEW g \in FlowType,
           flows' = [flows EXCEPT ![t] = g],
           UNCHANGED <<solved, failing, known, first>>,
           account' \in 0 .. Cardinality(Problems) \cup {NoCount},
           holder' \in Handles, asked' \subseteq Handles, countedBy' \in Handles,
           state' \in [Problems -> {"none", "SOLVED", "FAILED"}],
           missed' \subseteq Problems, faults' \in Nat
    PROVE  TypeOK' /\ flows'[t] = g /\ \A u \in Firings \ {t} : flows'[u] = flows[u]
<1>1. flows' \in [Firings -> FlowType]
  BY DEF TypeOK
<1>2. TypeOK'
  BY <1>1 DEF TypeOK
<1> QED
  BY <1>2 DEF TypeOK

\* Abandoning a flow keeps the invariant; what it counted becomes missed.
LEMMA AbandonStep ==
    ASSUME UserInv, NEW t \in Firings, NEW counted, Abandon(t, counted),
           Counted(t) => counted,
           UNCHANGED <<site, first, account, holder, asked, countedBy>>,
           faults' \in Nat, state' \in [Problems -> {"none", "SOLVED", "FAILED"}],
           StatesAreTrue',
           \A n \in Problems : state[n] # "none" => state'[n] # "none"
    PROVE  UserInv'
<1> USE DEF UserInv, site
<1>0. flows[t].solves \subseteq Problems
  BY Fields
<1>1. flows' = [flows EXCEPT ![t] = Over]
  BY DEF Abandon
<1>2. flows'[t] = Over
  BY <1>1 DEF TypeOK
<1>3. missed \subseteq missed' /\ missed' \subseteq Problems
  BY <1>0 DEF Abandon, Miss, TypeOK
<1>4. TypeOK'
  <2>1. flows' \in [Firings -> FlowType]
    BY <1>1, OverIsFlow DEF TypeOK
  <2> QED
    BY <1>3, <2>1 DEF TypeOK
<1>5. Good(flows[t])'
  BY <1>2, SyncAssumption DEF Good, Over, Flow
<1>6. \A n \in solved : Holds(t, n) => Kept(n)'
  BY DEF Abandon, Miss, Kept, Holds
<1>7. \A u \in Firings \ {t} : flows'[u] = flows[u]
  BY <1>1 DEF TypeOK
<1> QED
  BY <1>3, <1>4, <1>5, <1>6, <1>7, FlowStep

\* Nothing but the state of rows and what the user has done is in StatesAreTrue.
LEMMA SameStates ==
    ASSUME StatesAreTrue, UNCHANGED <<site, state>>, asked \subseteq asked'
    PROVE  StatesAreTrue'
BY DEF StatesAreTrue, site, SolvedBy

\* A step of t that only rejects.
LEMMA RejectStep ==
    ASSUME UserInv, NEW t \in Firings, Reject(t),
           UNCHANGED <<site, first, tables, asked, countedBy>>
    PROVE  UserInv'
<1>1. faults' \in Nat
  BY DEF Reject, Fault, UserInv, TypeOK
<1>2. StatesAreTrue'
  BY SameStates DEF UserInv, tables
<1> QED
  BY <1>1, <1>2, AbandonStep DEF Reject, UserInv, TypeOK, tables

LEMMA AskSolvedStep ==
    ASSUME UserInv, NEW t \in Firings, AskSolved(t)
    PROVE  UserInv'
<1> DEFINE answer == SolvedBy(flows[t].handle)
           g == [flows[t] EXCEPT !.pc = "upsert", !.solves = answer]
<1> USE DEF UserInv
<1>0. /\ flows[t].pc = "solved"
      /\ UNCHANGED <<site, first, tables, countedBy>>
  BY DEF AskSolved
<1>1. CASE Abandon(t, Counted(t)) /\ UNCHANGED <<asked, faults>>
  <2>1. StatesAreTrue'
    BY <1>0, <1>1, SameStates DEF tables
  <2> QED
    BY <1>0, <1>1, <2>1, AbandonStep DEF TypeOK, tables
<1>2. CASE Reject(t) /\ UNCHANGED asked
  BY <1>0, <1>2, RejectStep
<1>3. CASE /\ flows' = [flows EXCEPT ![t].pc = "upsert", ![t].solves = answer]
           /\ asked' = asked \cup {flows[t].handle}
           /\ UNCHANGED <<missed, faults>>
  <2>1. answer \subseteq Problems
    BY SyncAssumption DEF SolvedBy, TypeOK
  <2>2. g \in FlowType
    BY <2>1, Fields DEF FlowType, Inside
  <2>3. flows' = [flows EXCEPT ![t] = g]
    BY <1>3 DEF TypeOK
  <2>4. TypeOK' /\ flows'[t] = g /\ \A u \in Firings \ {t} : flows'[u] = flows[u]
    <3> HIDE DEF g
    <3> QED
      BY <1>0, <1>3, <2>2, <2>3, Fields, FieldsStep DEF TypeOK, site, tables
  <2>5. /\ g.pc = "upsert" /\ g.solves = answer /\ g.fails = flows[t].fails
        /\ g.handle = flows[t].handle /\ g.again = flows[t].again
    BY Fields DEF FlowType
  <2>6. Good(flows[t])'
    <3>1. Good(flows[t])
      BY DEF GoodFlows
    <3>2. /\ flows[t].handle = Own => answer \subseteq solved
          /\ flows[t].handle = Other => answer \subseteq OtherSolves
          /\ flows[t].handle \in asked'
      BY <1>3, SyncAssumption DEF SolvedBy
    <3>3. solved' = solved /\ failing' = failing
      BY <1>0, <1>3 DEF site
    <3> HIDE DEF g, answer
    <3> QED
      BY <2>4, <2>5, <3>1, <3>2, <3>3 DEF Good
  <2>7. StatesAreTrue'
    BY <1>0, <1>3, SameStates DEF tables
  <2>8. ASSUME NEW n \in solved, Holds(t, n)
        PROVE  Kept(n)'
    <3>1. n \in flows'[t].solves
      BY <1>3, <2>4, <2>5, <2>8 DEF SolvedBy, Holds
    <3>2. flows[t].again
      BY <1>0, <2>8 DEF GoodFlows, Good, Holds
    <3>3. Holds(t, n)'
      BY <2>4, <2>5, <2>8, <3>1, <3>2 DEF Counted, Holds
    <3> QED
      BY <3>3 DEF Kept
  <2> QED
    BY <1>0, <1>3, <2>4, <2>6, <2>7, <2>8, FlowStep DEF site, tables
<1> QED
  BY <1>1, <1>2, <1>3 DEF AskSolved

\* A step that gives t the fields g and keeps the count.
LEMMA MoveStep ==
    ASSUME UserInv, NEW t \in Firings, NEW g \in FlowType,
           flows' = [flows EXCEPT ![t] = g],
           UNCHANGED <<solved, failing, known, first, account, holder, asked, countedBy>>,
           faults' \in Nat, state' \in [Problems -> {"none", "SOLVED", "FAILED"}],
           StatesAreTrue',
           \A n \in Problems : state[n] # "none" => state'[n] # "none",
           missed \subseteq missed', missed' \subseteq Problems,
           Good(g),
           \A n \in solved :
               Holds(t, n) =>
                   \/ state'[n] # "none"
                   \/ n \in missed'
                   \/ /\ g.handle = Own /\ n \in g.solves
                      /\ g.pc # "upsert" \/ g.again
    PROVE  UserInv'
<1>1. TypeOK' /\ flows'[t] = g /\ \A u \in Firings \ {t} : flows'[u] = flows[u]
  BY FieldsStep DEF UserInv, TypeOK
<1>2. Good(flows[t])'
  BY <1>1 DEF Good
<1>3. ASSUME NEW n \in solved, Holds(t, n)
      PROVE  Kept(n)'
  BY <1>1, <1>3 DEF Kept, Counted, Holds
<1> QED
  BY <1>1, <1>2, <1>3, FlowStep

\* The count that is stored is that of what the flow goes on to record.
LEMMA UpsertStep ==
    ASSUME UserInv, NEW t \in Firings, UpsertAccount(t)
    PROVE  UserInv'
<1> USE DEF UserInv
<1>0. /\ flows[t].pc = "upsert"
      /\ UNCHANGED <<site, first, state, asked>>
  BY DEF UpsertAccount
<1>1. CASE Reject(t) /\ UNCHANGED <<account, holder, countedBy>>
  BY <1>0, <1>1, RejectStep DEF tables
<1>2. CASE /\ WriteAccount(t)
           /\ \/ Goto(t, "upserted") /\ UNCHANGED <<missed, faults>>
              \/ Abandon(t, TRUE) /\ Fault
  <2>0. /\ account' = Cardinality(flows[t].solves) /\ countedBy' = flows[t].handle
        /\ holder' \in Handles /\ countedBy' \in Handles
    BY <1>2, Fields DEF WriteAccount, TypeOK
  <2>1. flows[t].solves \subseteq Problems /\ IsFiniteSet(Problems) /\ solved \subseteq Problems
    BY Fields, SyncAssumption DEF TypeOK
  <2>2. /\ Cardinality(flows[t].solves) \in Nat /\ Cardinality(Problems) \in Nat
        /\ Cardinality(flows[t].solves) =< Cardinality(Problems)
    BY <2>1, FS_Subset, FS_CardinalityType
  <2>3. account' \in 0 .. Cardinality(Problems) \cup {NoCount}
    BY <2>0, <2>2
  <2>4. StatesAreTrue'
    BY <1>0, SameStates
  <2>5. Good(flows[t]) /\ (countedBy' = Own => flows[t].solves \subseteq solved)
    BY <2>0 DEF GoodFlows, Good
  <2>6. IsFiniteSet(solved)
    BY <2>1, FS_Subset
  <2>7. CountIsOld'
    <3> SUFFICES ASSUME countedBy' = Own PROVE account' =< Cardinality(solved')
      BY DEF CountIsOld
    <3> QED
      BY <1>0, <2>0, <2>5, <2>6, FS_Subset DEF site
  <2>8. account' = Cardinality(solved) /\ countedBy' = Own
            => flows[t].solves = solved /\ flows[t].handle = Own
    BY <1>0, <2>0, <2>5, <2>6, FS_Subset
  <2>9. CASE Goto(t, "upserted") /\ UNCHANGED <<missed, faults>>
    <3> DEFINE g == [flows[t] EXCEPT !.pc = "upserted"]
    <3>1. g \in FlowType
      BY Fields DEF FlowType, Inside
    <3>2. flows' = [flows EXCEPT ![t] = g]
      BY <2>9 DEF Goto, TypeOK
    <3>3. /\ g.pc = "upserted" /\ g.solves = flows[t].solves /\ g.fails = flows[t].fails
          /\ g.handle = flows[t].handle
      BY Fields DEF FlowType
    <3> HIDE DEF g
    <3>4. TypeOK' /\ flows'[t] = g /\ \A u \in Firings \ {t} : flows'[u] = flows[u]
      BY <1>0, <2>0, <2>3, <2>9, <3>1, <3>2, FieldsStep DEF TypeOK, site
    <3>5. solved' = solved /\ failing' = failing /\ asked' = asked
      BY <1>0 DEF site
    <3>6. GoodFlows'
      BY <1>0, <2>5, <3>3, <3>4, <3>5 DEF GoodFlows, Good
    <3>7. CountedIsRecorded'
      BY <2>8, <3>3, <3>4, <3>5 DEF CountedIsRecorded, Counted
    <3> QED
      BY <2>4, <2>7, <3>4, <3>6, <3>7
  <2>10. CASE Abandon(t, TRUE) /\ Fault
    <3>1. /\ flows' = [flows EXCEPT ![t] = Over] /\ faults' \in Nat
          /\ missed' \subseteq Problems
          /\ flows[t].handle = Own => missed' = missed \cup flows[t].solves
      BY <2>1, <2>10 DEF Abandon, Miss, Fault, TypeOK
    <3>2. TypeOK' /\ flows'[t] = Over /\ \A u \in Firings \ {t} : flows'[u] = flows[u]
      BY <1>0, <2>0, <2>3, <3>1, OverIsFlow, FieldsStep DEF TypeOK, site
    <3>3. solved' = solved /\ failing' = failing /\ asked' = asked
      BY <1>0 DEF site
    <3>4. Good(flows[t])'
      BY <3>2, SyncAssumption DEF Good, Over, Flow
    <3>5. GoodFlows'
      BY <3>2, <3>3, <3>4 DEF GoodFlows, Good
    <3>6. CountedIsRecorded'
      BY <2>8, <3>1, <3>3 DEF CountedIsRecorded
    <3> QED
      BY <2>4, <2>7, <3>2, <3>5, <3>6
  <2> QED
    BY <1>2, <2>9, <2>10
<1> QED
  BY <1>1, <1>2 DEF UpsertAccount

\* Asking acmicpc again finds all that was solved before.
LEMMA AskAcmicpcStep ==
    ASSUME UserInv, NEW t \in Firings, AskAcmicpc(t)
    PROVE  UserInv'
<1> USE DEF UserInv
<1>0. flows[t].pc = "acmicpc" /\ UNCHANGED <<site, first, tables, asked, countedBy>>
  BY DEF AskAcmicpc
<1>1. CASE Reject(t)
  BY <1>0, <1>1, RejectStep
<1>2. CASE /\ flows' = [flows EXCEPT ![t].pc = "findSolved",
                                     ![t].solves = SolvedBy(flows[t].handle),
                                     ![t].fails = FailedBy(flows[t].handle)]
           /\ UNCHANGED <<missed, faults>>
  <2> DEFINE g == [flows[t] EXCEPT !.pc = "findSolved",
                                  !.solves = SolvedBy(flows[t].handle),
                                  !.fails = FailedBy(flows[t].handle)]
  <2>1. SolvedBy(flows[t].handle) \subseteq Problems /\ FailedBy(flows[t].handle) \subseteq Problems
    BY SyncAssumption DEF SolvedBy, FailedBy, TypeOK
  <2>2. g \in FlowType
    BY <2>1, Fields DEF FlowType, Inside
  <2>3. flows' = [flows EXCEPT ![t] = g]
    BY <1>2 DEF TypeOK
  <2>4. /\ g.pc = "findSolved" /\ g.handle = flows[t].handle
        /\ g.solves = SolvedBy(flows[t].handle) /\ g.fails = FailedBy(flows[t].handle)
    BY Fields DEF FlowType
  <2> HIDE DEF g
  <2>5. Good(flows[t])
    BY DEF GoodFlows
  <2>6. Good(g)
    BY <1>0, <2>4, <2>5, SyncAssumption DEF Good, SolvedBy, FailedBy
  <2>7. ASSUME NEW n \in solved, Holds(t, n) PROVE g.handle = Own /\ n \in g.solves
    BY <2>4, <2>7 DEF SolvedBy, Holds
  <2>8. StatesAreTrue'
    BY <1>0, SameStates DEF tables
  <2> QED
    BY <1>0, <1>2, <2>2, <2>3, <2>4, <2>6, <2>7, <2>8, MoveStep DEF TypeOK, site, tables
<1> QED
  BY <1>1, <1>2, <1>0 DEF AskAcmicpc

LEMMA FindSolvedStep ==
    ASSUME UserInv, NEW t \in Firings, FindSolved(t)
    PROVE  UserInv'
<1> USE DEF UserInv
<1>0. flows[t].pc = "findSolved" /\ UNCHANGED <<site, first, tables, asked, countedBy>>
  BY DEF FindSolved
<1>1. CASE Reject(t)
  BY <1>0, <1>1, RejectStep
<1>2. CASE /\ flows' = [flows EXCEPT ![t].pc = "createSolved", ![t].solves = @ \cap known]
           /\ Miss(t, flows[t].solves \ known)
           /\ UNCHANGED faults
  <2> DEFINE g == [flows[t] EXCEPT !.pc = "createSolved", !.solves = @ \cap known]
  <2>2. g \in FlowType
    BY Fields DEF FlowType, Inside
  <2>3. flows' = [flows EXCEPT ![t] = g]
    BY <1>2 DEF TypeOK
  <2>4. /\ g.pc = "createSolved" /\ g.handle = flows[t].handle
        /\ g.solves = flows[t].solves \cap known /\ g.fails = flows[t].fails
    BY Fields DEF FlowType
  <2> HIDE DEF g
  <2>5. Good(flows[t])
    BY DEF GoodFlows
  <2>6. Good(g)
    BY <1>0, <2>4, <2>5 DEF Good
  <2>7. missed \subseteq missed' /\ missed' \subseteq Problems
    BY <1>2, Fields DEF Miss, TypeOK
  <2>9. ASSUME NEW n \in solved, Holds(t, n)
        PROVE  n \in missed' \/ (g.handle = Own /\ n \in g.solves)
    BY <1>2, <2>4, <2>9 DEF Miss, Holds
  <2>8. StatesAreTrue'
    BY <1>0, SameStates DEF tables
  <2> QED
    BY <1>0, <1>2, <2>2, <2>3, <2>4, <2>6, <2>7, <2>8, <2>9, MoveStep DEF TypeOK, site, tables
<1> QED
  BY <1>1, <1>2, <1>0 DEF FindSolved

LEMMA FindFailedStep ==
    ASSUME UserInv, NEW t \in Firings, FindFailed(t)
    PROVE  UserInv'
<1> USE DEF UserInv
<1>0. flows[t].pc = "findFailed" /\ UNCHANGED <<site, first, tables, asked, countedBy>>
  BY DEF FindFailed
<1>1. CASE Reject(t)
  BY <1>0, <1>1, RejectStep
<1>2. CASE /\ flows' = [flows EXCEPT ![t].pc = "createFailed", ![t].fails = @ \cap known]
           /\ UNCHANGED <<missed, faults>>
  <2> DEFINE g == [flows[t] EXCEPT !.pc = "createFailed", !.fails = @ \cap known]
  <2>2. g \in FlowType
    BY Fields DEF FlowType, Inside
  <2>3. flows' = [flows EXCEPT ![t] = g]
    BY <1>2 DEF TypeOK
  <2>4. /\ g.pc = "createFailed" /\ g.handle = flows[t].handle
        /\ g.solves = flows[t].solves /\ g.fails = flows[t].fails \cap known
    BY Fields DEF FlowType
  <2> HIDE DEF g
  <2>5. Good(flows[t])
    BY DEF GoodFlows
  <2>6. Good(g)
    BY <1>0, <2>4, <2>5 DEF Good
  <2>8. StatesAreTrue'
    BY <1>0, SameStates DEF tables
  <2> QED
    BY <1>0, <1>2, <2>2, <2>3, <2>4, <2>6, <2>8, MoveStep DEF Holds, TypeOK, site, tables
<1> QED
  BY <1>1, <1>2, <1>0 DEF FindFailed

LEMMA EndStepStep ==
    ASSUME UserInv, NEW t \in Firings, EndStep(t)
    PROVE  UserInv'
<1> USE DEF UserInv
<1>0. flows[t].pc \in {"upserted", "recorded"} /\ UNCHANGED <<site, first, tables, asked, countedBy>>
  BY DEF EndStep
<1>1. CASE Reject(t)
  BY <1>0, <1>1, RejectStep
<1>3. CASE /\ flows[t].pc = "recorded"
           /\ flows' = [flows EXCEPT ![t] = Over]
           /\ UNCHANGED <<missed, faults>>
  <2>1. flows[t].solves = {}
    BY <1>3 DEF GoodFlows, Good
  <2>2. Good(Over)
    BY SyncAssumption DEF Good, Over, Flow
  <2>3. StatesAreTrue'
    BY <1>0, SameStates DEF tables
  <2> QED
    BY <1>0, <1>3, <2>1, <2>2, <2>3, OverIsFlow, MoveStep DEF Holds, TypeOK, site, tables
<1>2. CASE /\ flows[t].pc = "upserted"
           /\ flows' = [flows EXCEPT ![t].pc = "acmicpc", ![t].again = FALSE,
                                     ![t].solvedCount = NoCount]
           /\ UNCHANGED <<missed, faults>>
  <2> DEFINE g == [flows[t] EXCEPT !.pc = "acmicpc", !.again = FALSE, !.solvedCount = NoCount]
  <2>2. g \in FlowType
    BY Fields DEF FlowType, Inside
  <2>3. flows' = [flows EXCEPT ![t] = g]
    BY <1>2 DEF TypeOK
  <2>4. /\ g.pc = "acmicpc" /\ g.handle = flows[t].handle
        /\ g.solves = flows[t].solves /\ g.fails = flows[t].fails
    BY Fields DEF FlowType
  <2> HIDE DEF g
  <2>5. Good(flows[t])
    BY DEF GoodFlows
  <2>6. Good(g)
    BY <1>0, <2>4, <2>5 DEF Good
  <2>8. StatesAreTrue'
    BY <1>0, SameStates DEF tables
  <2> QED
    BY <1>0, <1>2, <2>2, <2>3, <2>4, <2>6, <2>8, MoveStep DEF Holds, TypeOK, site, tables
<1> QED
  BY <1>1, <1>2, <1>3, <1>0 DEF EndStep

\* createMany with skipDuplicates: only what has no row gets one.
LEMMA CreateManyStep ==
    ASSUME UserInv, NEW t \in Firings, NEW here, NEW next \in FlowType,
           NEW problems \in SUBSET Problems, NEW new \in {"SOLVED", "FAILED"},
           CreateMany(t, here, problems, new, next),
           Good(next), here # "upsert",
           flows[t].solves \subseteq problems,
           \A n \in problems : TrueRow(n, new)
    PROVE  UserInv'
<1> USE DEF UserInv
<1>0. flows[t].pc = here /\ UNCHANGED <<site, first, account, holder, asked, countedBy>>
  BY DEF CreateMany
<1>1. \/ state' = Recorded(problems, new) /\ flows' = [flows EXCEPT ![t] = next]
         /\ UNCHANGED <<missed, faults>>
      \/ Reject(t) /\ (state' = Recorded(problems, new) \/ UNCHANGED state)
  BY DEF CreateMany
<1>2. CASE UNCHANGED state /\ Reject(t)
  BY <1>0, <1>2, RejectStep DEF tables
<1>3. CASE state' = Recorded(problems, new)
  <2>1. state' \in [Problems -> {"none", "SOLVED", "FAILED"}]
    BY <1>3 DEF Recorded, TypeOK
  <2>2. \A n \in Problems : state[n] # "none" => state'[n] # "none"
    BY <1>3 DEF Recorded
  <2>3. \A n \in problems : state'[n] # "none"
    BY <1>3 DEF Recorded
  <2>4. StatesAreTrue'
    <3> SUFFICES ASSUME NEW n \in Problems
                 PROVE TrueRow(n, state'[n])
      BY <1>0 DEF StatesAreTrue, TrueRow, SolvedBy, site
    <3>1. state'[n] = state[n] \/ (n \in problems /\ state'[n] = new)
      BY <1>3 DEF Recorded
    <3> QED
      BY <3>1 DEF StatesAreTrue, TrueRow
  <2>5. CASE Reject(t)
    <3>1. faults' \in Nat
      BY <2>5 DEF Reject, Fault, TypeOK
    <3> QED
      BY <1>0, <2>1, <2>2, <2>4, <2>5, <3>1, AbandonStep DEF Reject
  <2>6. CASE flows' = [flows EXCEPT ![t] = next] /\ UNCHANGED <<missed, faults>>
    BY <1>0, <2>1, <2>2, <2>3, <2>4, <2>6, MoveStep DEF Holds, TypeOK, site
  <2> QED
    BY <1>1, <1>3, <2>5, <2>6, <1>2
<1> QED
  BY <1>1, <1>2, <1>3

LEMMA CreateStatesStep ==
    ASSUME UserInv, NEW t \in Firings, CreateStates(t)
    PROVE  UserInv'
<1> USE DEF UserInv
<1>1. Good(flows[t])
  BY DEF GoodFlows
<1>2. CASE CreateMany(t, "createSolved", flows[t].solves, "SOLVED",
                      [flows[t] EXCEPT !.pc = "findFailed", !.solves = {}])
  <2> DEFINE g == [flows[t] EXCEPT !.pc = "findFailed", !.solves = {}]
  <2>1. g \in FlowType
    BY Fields DEF FlowType, Inside
  <2>2. /\ g.pc = "findFailed" /\ g.handle = flows[t].handle
        /\ g.solves = {} /\ g.fails = flows[t].fails
    BY Fields DEF FlowType
  <2>3. CreateMany(t, "createSolved", flows[t].solves, "SOLVED", g)
    BY <1>2
  <2> HIDE DEF g
  <2>4. flows[t].pc = "createSolved"
    BY <1>2 DEF CreateMany
  <2>5. Good(g)
    BY <1>1, <2>2, <2>4 DEF Good
  <2>6. \A n \in flows[t].solves : TrueRow(n, "SOLVED")
    BY <1>1, Fields DEF Good, Handles, TrueRow, SolvedBy
  <2> QED
    BY <2>1, <2>3, <2>5, <2>6, Fields, CreateManyStep
<1>3. CASE CreateMany(t, "createFailed", flows[t].fails, "FAILED",
                      [flows[t] EXCEPT !.pc = "recorded", !.fails = {}])
  <2> DEFINE g == [flows[t] EXCEPT !.pc = "recorded", !.fails = {}]
  <2>1. g \in FlowType
    BY Fields DEF FlowType, Inside
  <2>2. /\ g.pc = "recorded" /\ g.handle = flows[t].handle
        /\ g.solves = flows[t].solves /\ g.fails = {}
    BY Fields DEF FlowType
  <2>3. CreateMany(t, "createFailed", flows[t].fails, "FAILED", g)
    BY <1>3
  <2> HIDE DEF g
  <2>4. flows[t].pc = "createFailed"
    BY <1>3 DEF CreateMany
  <2>5. flows[t].solves = {} /\ Good(g)
    BY <1>1, <2>2, <2>4 DEF Good
  <2>6. \A n \in flows[t].fails : TrueRow(n, "FAILED")
    BY <1>1, Fields DEF Good, Handles, TrueRow
  <2> QED
    BY <2>1, <2>3, <2>5, <2>6, Fields, CreateManyStep
<1> QED
  BY <1>2, <1>3 DEF CreateStates

\* A step that is delivered again keeps what step 1 counted.
LEMMA CrashStep ==
    ASSUME UserInv, NEW t \in Firings, Crash(t)
    PROVE  UserInv'
<1> USE DEF UserInv
<1>0. /\ flows[t].pc # "ended" /\ faults' \in Nat
      /\ UNCHANGED <<site, first, tables, asked, countedBy>>
  <2>1. flows[t].pc # "ended" /\ Fault /\ UNCHANGED <<site, first, tables, asked, countedBy>>
    BY DEF Crash
  <2> QED
    BY <2>1 DEF Fault, TypeOK
<1>1. StatesAreTrue'
  BY <1>0, SameStates DEF tables
<1>2. CASE Abandon(t, TRUE)
  BY <1>0, <1>1, <1>2, AbandonStep DEF tables, TypeOK
<1>3. ASSUME ~flows[t].again, UNCHANGED missed,
             NEW count \in Nat \cup {NoCount},
             flows' = [flows EXCEPT
                ![t].pc = IF @ \in {"solved", "upsert", "upserted"}
                          THEN "solved" ELSE "acmicpc",
                ![t].solvedCount = count,
                ![t].solves = IF flows[t].pc = "upsert" THEN {} ELSE @,
                ![t].fails = {},
                ![t].again = TRUE]
      PROVE  UserInv'
  <2> DEFINE g == [flows[t] EXCEPT
                !.pc = IF @ \in {"solved", "upsert", "upserted"}
                       THEN "solved" ELSE "acmicpc",
                !.solvedCount = count,
                !.solves = IF flows[t].pc = "upsert" THEN {} ELSE @,
                !.fails = {},
                !.again = TRUE]
  <2>1. g \in FlowType
    BY Fields DEF FlowType, Inside
  <2>2. flows' = [flows EXCEPT ![t] = g]
    BY <1>3 DEF TypeOK
  <2>3. /\ g.pc = IF flows[t].pc \in {"solved", "upsert", "upserted"}
                  THEN "solved" ELSE "acmicpc"
        /\ g.solves = IF flows[t].pc = "upsert" THEN {} ELSE flows[t].solves
        /\ g.handle = flows[t].handle /\ g.fails = {} /\ g.again = TRUE
    BY Fields DEF FlowType
  <2> HIDE DEF g
  <2>4. Good(flows[t])
    BY DEF GoodFlows
  <2>5. Good(g)
    BY <1>0, <2>3, <2>4 DEF Good
  <2>6. ASSUME NEW n \in solved, Holds(t, n)
        PROVE  g.handle = Own /\ n \in g.solves /\ g.again
    BY <1>3, <2>3, <2>6 DEF Counted, Holds
  <2> QED
    BY <1>0, <1>1, <1>3, <2>1, <2>2, <2>3, <2>5, <2>6, MoveStep DEF TypeOK, site, tables
<1>4. flows[t].solvedCount \in Nat \cup {NoCount}
  BY Fields
<1> QED
  BY <1>2, <1>3, <1>4 DEF Crash

-------------------------------------------------------------------------------
(* The steps of others *)

\* A flow that begins holds nothing yet.
LEMMA StartStep ==
    ASSUME UserInv, NEW t \in Firings, NEW handle \in Handles,
           NEW count \in Nat \cup {NoCount},
           Begin(t, handle, count)
    PROVE  UserInv'
<1> USE DEF UserInv, Begin
<1> DEFINE g == Flow(handle, count)
<1>1. g \in FlowType
  BY DEF Flow, FlowType
<1>2. Good(g)
  BY DEF Good, Flow
<1>3. flows[t].solves = {}
  BY DEF GoodFlows, Good
<1>4. StatesAreTrue'
  BY SameStates DEF tables, history
<1>5. flows' = [flows EXCEPT ![t] = g]
  OBVIOUS
<1> HIDE DEF g
<1> QED
  BY <1>1, <1>2, <1>3, <1>4, <1>5, MoveStep DEF Holds, TypeOK, site, tables, history

LEMMA SubmitStep ==
    ASSUME UserInv, NEW n \in Problems, Submit(n)
    PROVE  UserInv'
<1> USE DEF UserInv
<1>1. /\ n \notin solved
      /\ \/ solved' = solved \cup {n} /\ failing' = failing \ {n}
         \/ n \notin failing /\ failing' = failing \cup {n} /\ solved' = solved
      /\ UNCHANGED <<known, first, account, holder, state, flows, faults>>
      /\ UNCHANGED <<missed, asked, countedBy>>
  BY DEF Submit, tables, history
<1>2. TypeOK'
  BY <1>1 DEF TypeOK
<1>3. solved \subseteq solved' /\ solved \cup failing \subseteq solved' \cup failing'
  BY <1>1
<1>4. GoodFlows'
  <2> SUFFICES ASSUME NEW t \in Firings PROVE Good(flows[t])'
    BY DEF GoodFlows
  <2>1. Good(flows[t]) /\ flows' = flows /\ asked' = asked
    BY <1>1 DEF GoodFlows
  <2> QED
    BY <1>3, <2>1 DEF Good
<1>5. StatesAreTrue'
  BY <1>1, <1>3 DEF StatesAreTrue, SolvedBy
<1>6. /\ IsFiniteSet(solved) /\ Cardinality(solved) \in Nat
      /\ Cardinality(solved \cup {n}) = Cardinality(solved) + 1
  BY <1>1, SyncAssumption, FS_Subset, FS_AddElement, FS_CardinalityType DEF TypeOK
<1>7. account = NoCount \/ account \in Nat
  BY DEF TypeOK
<1>8. CountIsOld'
  <2>1. Cardinality(solved) =< Cardinality(solved') /\ Cardinality(solved') \in Nat
    <3>1. CASE solved' = solved
      BY <1>6, <3>1
    <3>2. CASE solved' = solved \cup {n}
      BY <1>6, <3>2
    <3> QED
      BY <1>1, <3>1, <3>2
  <2>2. account' = account /\ countedBy' = countedBy
    BY <1>1
  <2> SUFFICES ASSUME account' # NoCount, countedBy' = Own
               PROVE  account' =< Cardinality(solved')
    BY DEF CountIsOld
  <2>3. account \in Nat /\ account =< Cardinality(solved)
    BY <1>7, <2>2 DEF CountIsOld
  <2> QED
    BY <1>6, <2>1, <2>2, <2>3
<1>9. CountedIsRecorded'
  <2>1. CASE solved' = solved
    BY <1>1, <2>1 DEF CountedIsRecorded, Counted
  <2>2. CASE solved' = solved \cup {n}
    <3>1. countedBy = Own => account # Cardinality(solved')
      BY <1>6, <1>7, <2>2, SyncAssumption DEF CountIsOld
    <3> QED
      BY <1>1, <3>1 DEF CountedIsRecorded
  <2> QED
    BY <1>1, <2>1, <2>2
<1> QED
  BY <1>2, <1>4, <1>5, <1>8, <1>9

LEMMA OtherStep ==
    ASSUME UserInv, UNCHANGED <<solved, failing, first, tables, flows, history, faults>>,
           known' \subseteq Problems
    PROVE  UserInv'
<1> USE DEF UserInv, tables, history
<1>1. TypeOK'
  BY DEF TypeOK
<1>2. GoodFlows'
  BY DEF GoodFlows, Good
<1>3. StatesAreTrue' /\ CountIsOld' /\ CountedIsRecorded'
  BY DEF StatesAreTrue, SolvedBy, CountIsOld, CountedIsRecorded, Counted
<1> QED
  BY <1>1, <1>2, <1>3

-------------------------------------------------------------------------------
(* The theorems *)

LEMMA NextUserInv == UserInv /\ [Next]_vars => UserInv'
<1> SUFFICES ASSUME UserInv, [Next]_vars PROVE UserInv'
  OBVIOUS
<1>1. CASE UNCHANGED vars
  BY <1>1, OtherStep DEF vars, site, UserInv, TypeOK
<1>2. ASSUME NEW n \in Problems, Submit(n) PROVE UserInv'
  BY <1>2, SubmitStep
<1>3. ASSUME NEW n \in Problems, LoadProblem(n) PROVE UserInv'
  BY <1>3, OtherStep DEF LoadProblem, UserInv, TypeOK
<1>4. ASSUME NEW t \in Firings, Plan(t) PROVE UserInv'
  <2>1. PlannedCount \in Nat \cup {NoCount} /\ PlannedHandle \in Handles
    BY SyncAssumption DEF UserInv, TypeOK, PlannedCount, PlannedHandle, Handles
  <2> QED
    BY <1>4, <2>1, StartStep DEF Plan
<1>5. ASSUME NEW t \in Firings, NEW handle \in Handles, Request(t, handle) PROVE UserInv'
  BY <1>5, StartStep DEF Request
<1>6. ASSUME NEW t \in Firings, Step(t) PROVE UserInv'
  BY <1>6, AskSolvedStep, UpsertStep, AskAcmicpcStep, FindSolvedStep, FindFailedStep,
     CreateStatesStep, EndStepStep DEF Step
<1>7. ASSUME NEW t \in Firings, Crash(t) PROVE UserInv'
  BY <1>7, CrashStep
<1> QED
  BY <1>1, <1>2, <1>3, <1>4, <1>5, <1>6, <1>7 DEF Next

LEMMA UserInvHolds == Spec => []UserInv
BY InitUserInv, NextUserInv, PTL DEF Spec

\* What a sync writes was so when it asked, and what a user did cannot be undone:
\* every row tells the truth about a handle that a sync of the user asked for,
\* be it the user's own or a stranger's.
THEOREM RowsTellTheTruth == Spec => []StatesAreTrue
<1>1. UserInv => TypeOK /\ StatesAreTrue
  BY DEF UserInv
<1> QED
  BY <1>1, UserInvHolds, PTL

\* A count that is up to date hides no solved problem from the next sync but
\* those a failed step or a missing row of PROBLEM_V2 has left out.
THEOREM NothingCountedIsForgotten == Spec => []CountedIsRecorded
<1>1. UserInv => CountedIsRecorded
  BY DEF UserInv
<1> QED
  BY <1>1, UserInvHolds, PTL

\* createMany with skipDuplicates is the only writer of USER_PROBLEM_STATE.
THEOREM RowsStay == Spec => RowsAreFinal
<1> DEFINE Stays == \A n \in Problems : state[n] # "none" => state'[n] = state[n]
<1>1. [Next]_vars => [Stays]_vars
  <2>1. \A t, here, problems, new, next : CreateMany(t, here, problems, new, next) => Stays
    BY DEF CreateMany, Recorded
  <2> QED
    BY <2>1 DEF Next, vars, Submit, LoadProblem, Plan, Request, Begin, Step, AskSolved,
       UpsertAccount, AskAcmicpc, FindSolved, FindFailed, CreateStates, EndStep, Crash, tables
<1> QED
  BY <1>1, PTL DEF Spec, RowsAreFinal

\* For any problems, syncs, processes and faults, accounts, rows and flows stay in
\* the states the code knows; a count is never an answer nobody gave.
THEOREM TypeCorrect == Spec => []TypeOK
<1>1. UserInv => TypeOK
  BY DEF UserInv
<1> QED
  BY <1>1, UserInvHolds, PTL
===============================================================================
