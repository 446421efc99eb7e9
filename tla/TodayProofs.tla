------------------------------ MODULE TodayProofs ------------------------------
(***************************************************************************)
(* Theorems about TodayProblem, for any problems, levels, types, horizons, *)
(* firings, workers and faults.                                            *)
(***************************************************************************)
EXTENDS TodayProblem, TLAPS

-------------------------------------------------------------------------------
(* The invariant *)

\* What a flow may not draw, unless it is stale, is all that is served around
\* its day by now.
FreshReads ==
    \A f \in flows \ stale : f.pc = "draw" =>
        \A d \in Days : d >= Day(f) - MaxDays => served[d] \subseteq f.previous

\* A flow that may still draw for a day that has problems is one too many.
LateFlows == \A f \in Pending : served[Day(f)] # {} => Day(f) \in contested

\* So are two flows for one day.
DoubleFlows ==
    \A f, g \in Pending : f # g /\ Day(f) = Day(g) => Day(f) \in contested

TodayInv == TypeOK /\ FreshReads /\ NoRepeats /\ LateFlows /\ DoubleFlows

LEMMA InitTodayInv == Init => TodayInv
BY TodayAssumption
   DEF Init, TodayInv, TypeOK, FreshReads, NoRepeats, LateFlows, DoubleFlows, Pending, Days

\* Days and distances are integers.
LEMMA DayFacts ==
    /\ Distances \subseteq Int /\ Days \subseteq Int
    /\ \A d \in 0 .. LastDay, i \in Distances : d + i \in Days
<1>1. Distances \subseteq Int
  BY TodayAssumption DEF Distances, DateSeries
<1>2. 0 .. LastDay \subseteq Int
  OBVIOUS
<1> QED
  BY <1>1, <1>2 DEF Days

\* Days and fields of a flow.
LEMMA Fields ==
    ASSUME TypeOK, NEW f \in flows
    PROVE  /\ f \in FlowType
           /\ f.firing \in Firings /\ f.distance \in Distances /\ f.distance \in Int
           /\ f.pc \in {"waiting", "draw", "stored"}
           /\ f.again \in BOOLEAN /\ f.previous \subseteq Problems
           /\ Day(f) \in Days /\ today \in Int /\ MaxDays \in Nat /\ Horizon \in Nat
<1>1. f \in FlowType
  BY DEF TypeOK
<1>2. /\ f.firing \in Firings /\ f.distance \in Distances /\ f.again \in BOOLEAN
      /\ f.pc \in {"waiting", "draw", "stored"} /\ f.previous \subseteq Problems
  BY <1>1 DEF FlowType
<1>3. today \in 0 .. LastDay /\ MaxDays \in Nat /\ Horizon \in Nat
  BY TodayAssumption DEF TypeOK
<1>4. today \in Int /\ f.distance \in Int
  <2>1. today \in Int
    BY <1>3
  <2>2. Distances \subseteq Int
    BY DayFacts
  <2>3. f.distance \in Int
    BY <1>2, <2>2
  <2> QED
    BY <2>1, <2>3
<1>5. Day(f) \in Days
  <2>1. \A d \in 0 .. LastDay, i \in Distances : d + i \in Days
    BY DayFacts
  <2>2. today + f.distance \in Days
    BY <1>2, <1>3, <2>1
  <2> QED
    BY <2>2 DEF Day
<1> QED
  BY <1>1, <1>2, <1>3, <1>4, <1>5

-------------------------------------------------------------------------------
(* Steps that store nothing *)

\* Flow f becomes g, of the same day, and nothing is stored.
LEMMA ReplaceStep ==
    ASSUME TodayInv, NEW f \in flows, NEW g \in FlowType,
           Replace(f, g),
           g.distance = f.distance,
           g.pc # "stored",
           f.pc # "stored" \/ Day(f) \in contested',
           g.pc = "draw" =>
               \A d \in Days : d >= Day(f) - MaxDays => served[d] \subseteq g.previous,
           UNCHANGED <<today, served, repeated>>,
           contested \subseteq contested', contested' \subseteq Days, faults' \in Nat
    PROVE  TodayInv'
<1> USE DEF TodayInv
<1>1. flows' = (flows \ {f}) \cup {g} /\ stale' = stale \ {f}
  BY DEF Replace
<1>2. TypeOK'
  BY <1>1 DEF TypeOK
<1>3. \A h : Day(h)' = Day(h)
  BY DEF Day
<1>4. Day(g) = Day(f)
  BY DEF Day
<1>5. FreshReads'
  BY <1>1, <1>3, <1>4 DEF FreshReads
<1>6. NoRepeats'
  BY DEF NoRepeats
<1>7. \A h \in Pending' : h = g \/ (h \in Pending /\ h # f)
  BY <1>1 DEF Pending
<1>8. f \in Pending \/ Day(f) \in contested'
  BY DEF Pending
<1>9. LateFlows'
  BY <1>3, <1>4, <1>7, <1>8 DEF LateFlows
<1>10. DoubleFlows'
  BY <1>3, <1>4, <1>7, <1>8 DEF DoubleFlows
<1> QED
  BY <1>2, <1>5, <1>6, <1>9, <1>10

\* Flow f ends, and nothing is stored.
LEMMA EndOfFlow ==
    ASSUME TodayInv, NEW f \in flows, End(f),
           UNCHANGED <<today, served, repeated>>, faults' \in Nat
    PROVE  TodayInv'
<1> USE DEF TodayInv
<1>1. /\ flows' = flows \ {f} /\ stale' = stale \ {f}
      /\ contested' = contested \cap {Day(g) : g \in Pending \ {f}}
  BY DEF End, Leave
<1>2. TypeOK'
  BY <1>1 DEF TypeOK
<1>3. \A h : Day(h)' = Day(h)
  BY DEF Day
<1>4. FreshReads' /\ NoRepeats'
  BY <1>1, <1>3 DEF FreshReads, NoRepeats
<1>5. Pending' = Pending \ {f}
  BY <1>1 DEF Pending
<1>6. \A g \in Pending' : Day(g) \in contested => Day(g) \in contested'
  BY <1>1, <1>5
<1>7. LateFlows'
  BY <1>3, <1>5, <1>6 DEF LateFlows
<1>8. DoubleFlows'
  BY <1>3, <1>5, <1>6 DEF DoubleFlows
<1> QED
  BY <1>2, <1>4, <1>7, <1>8

\* Waiting flows begin for days of their own, or the day is contested.
LEMMA StartStep ==
    ASSUME TodayInv, NEW new \in SUBSET FlowType,
           \A f \in new : f.pc = "waiting",
           \A f, g \in new : Day(f) = Day(g) => f = g,
           \A f \in new : served[Day(f)] # {} => Day(f) \in contested',
           \A f \in new, g \in Pending : Day(f) = Day(g) => Day(f) \in contested',
           flows' = flows \cup new,
           UNCHANGED <<today, served, stale, repeated>>,
           contested \subseteq contested', contested' \subseteq Days, faults' \in Nat
    PROVE  TodayInv'
<1> USE DEF TodayInv
<1>1. TypeOK'
  BY DEF TypeOK
<1>2. \A h : Day(h)' = Day(h)
  BY DEF Day
<1>3. FreshReads' /\ NoRepeats'
  BY <1>2 DEF FreshReads, NoRepeats
<1>4. Pending' = Pending \cup new
  BY DEF Pending
<1>5. LateFlows'
  BY <1>2, <1>4 DEF LateFlows
<1>6. DoubleFlows'
  BY <1>2, <1>4 DEF DoubleFlows
<1> QED
  BY <1>1, <1>3, <1>5, <1>6

LEMMA MidnightStep ==
    ASSUME TodayInv, Midnight
    PROVE  TodayInv'
<1> USE DEF TodayInv
<1>1. /\ today < LastDay /\ today' = today + 1
      /\ contested' = {Day(f) + 1 : f \in Pending}
      /\ UNCHANGED <<served, flows, stale, repeated, faults>>
  BY DEF Midnight
<1>2. today \in Int /\ LastDay \in Int
  BY TodayAssumption DEF TypeOK
<1>3. \A f \in flows : Day(f) \in Int /\ Day(f)' = Day(f) + 1 /\ Day(f)' \in Days
  <2> SUFFICES ASSUME NEW f \in flows
               PROVE  Day(f) \in Int /\ Day(f)' = Day(f) + 1 /\ Day(f)' \in Days
    OBVIOUS
  <2>1. f.distance \in Distances /\ f.distance \in Int
    BY Fields
  <2>2. Day(f) \in Int /\ Day(f)' = Day(f) + 1
    BY <1>1, <1>2, <2>1 DEF Day
  <2>3. today' \in 0 .. LastDay
    BY <1>1, TodayAssumption DEF TypeOK
  <2>4. \A d \in 0 .. LastDay, i \in Distances : d + i \in Days
    BY DayFacts
  <2>5. today' + f.distance \in Days
    BY <2>1, <2>3, <2>4
  <2>6. Day(f)' \in Days
    BY <2>5 DEF Day
  <2> QED
    BY <2>2, <2>6
<1>4. Pending' = Pending /\ Pending \subseteq flows
  BY <1>1 DEF Pending
<1>5. TypeOK'
  <2>1. contested' \subseteq Days
    BY <1>1, <1>3, <1>4 DEF TypeOK
  <2>2. today' \in 0 .. LastDay
    BY <1>1, TodayAssumption DEF TypeOK
  <2> QED
    BY <1>1, <2>1, <2>2 DEF TypeOK
<1>6. FreshReads'
  <2> SUFFICES ASSUME NEW f \in flows \ stale, f.pc = "draw",
                      NEW d \in Days, d >= Day(f)' - MaxDays
               PROVE  served[d] \subseteq f.previous
    BY <1>1 DEF FreshReads
  <2>1. d >= Day(f) - MaxDays
    BY <1>3, DayFacts, TodayAssumption
  <2> QED
    BY <2>1 DEF FreshReads
<1>7. NoRepeats'
  BY <1>1 DEF NoRepeats
<1>8. \A f \in Pending' : Day(f)' \in contested'
  BY <1>1, <1>3, <1>4
<1>9. LateFlows' /\ DoubleFlows'
  BY <1>8 DEF LateFlows, DoubleFlows
<1> QED
  BY <1>5, <1>6, <1>7, <1>9

-------------------------------------------------------------------------------
(* The actions *)

LEMMA WaitingFlow ==
    ASSUME TypeOK, NEW t \in Firings, NEW i \in Distances
    PROVE  /\ Waiting(t, i) \in FlowType /\ Waiting(t, i).pc = "waiting"
           /\ Waiting(t, i).distance = i
           /\ Day(Waiting(t, i)) = today + i /\ today + i \in Days
BY DayFacts, TodayAssumption DEF Waiting, FlowType, Day, TypeOK

LEMMA PlanStep ==
    ASSUME TodayInv, NEW t \in Firings, Plan(t)
    PROVE  TodayInv'
<1> USE DEF TodayInv
<1>1. PICK started \in SUBSET EmptyDays :
        /\ UNCHANGED faults \/ Fault
        /\ flows' = flows \cup {Waiting(t, i) : i \in started}
        /\ contested' = contested \cup
             ({today + i : i \in started} \cap {Day(f) : f \in Pending})
        /\ UNCHANGED <<today, served, stale, repeated>>
  BY DEF Plan
<1> DEFINE new == {Waiting(t, i) : i \in started}
<1>2. started \subseteq DateSeries /\ started \subseteq Distances
  BY DEF EmptyDays, Distances
<1>3. new \in SUBSET FlowType /\ \A f \in new : f.pc = "waiting"
  BY <1>2, WaitingFlow
<1>4. \A f, g \in new : Day(f) = Day(g) => f = g
  <2> SUFFICES ASSUME NEW i \in started, NEW j \in started, today + i = today + j
               PROVE  i = j
    BY <1>2, WaitingFlow
  <2> QED
    BY <1>2, TodayAssumption DEF DateSeries, TypeOK
<1>5. \A f \in new : served[Day(f)] = {}
  BY <1>2, WaitingFlow DEF EmptyDays
<1>6. \A f \in new, g \in Pending : Day(f) = Day(g) => Day(f) \in contested'
  BY <1>1, <1>2, WaitingFlow
<1>7. contested' \subseteq Days /\ faults' \in Nat
  BY <1>1, <1>2, WaitingFlow DEF TypeOK, Fault
<1> HIDE DEF new
<1>8. flows' = flows \cup new
  BY <1>1 DEF new
<1> QED
  BY <1>1, <1>3, <1>4, <1>5, <1>6, <1>7, <1>8, StartStep

LEMMA RequestStep ==
    ASSUME TodayInv, NEW t \in Firings, NEW i \in Asked, Request(t, i)
    PROVE  TodayInv'
<1> USE DEF TodayInv
<1> DEFINE new == {Waiting(t, i)}
<1>1. /\ flows' = flows \cup new
      /\ contested' = IF served[today + i] = {} /\ today + i \notin {Day(f) : f \in Pending}
                      THEN contested ELSE contested \cup {today + i}
      /\ UNCHANGED <<today, served, stale, repeated, faults>>
  BY DEF Request
<1>2. /\ new \in SUBSET FlowType
      /\ \A f \in new : f.pc = "waiting" /\ Day(f) = today + i
  BY WaitingFlow DEF Distances
<1>3. served[today + i] # {} => today + i \in contested'
  BY <1>1
<1>4. \A g \in Pending : today + i = Day(g) => today + i \in contested'
  BY <1>1
<1>5. contested' \subseteq Days /\ faults' \in Nat
  BY <1>1, WaitingFlow DEF Distances, TypeOK
<1>6. \A f, g \in new : f = g
  OBVIOUS
<1> HIDE DEF new
<1> QED
  BY <1>1, <1>2, <1>3, <1>4, <1>5, <1>6, StartStep

LEMMA GetPreviousStep ==
    ASSUME TodayInv, NEW f \in flows, GetPreviousProblems(f)
    PROVE  TodayInv'
<1> USE DEF TodayInv
<1>0. f.pc = "waiting" /\ UNCHANGED <<today, served, repeated>>
  BY DEF GetPreviousProblems
<1>1. CASE Reject(f)
  <2>1. faults' \in Nat
    BY <1>1 DEF Reject, Fault, TypeOK
  <2> QED
    BY <1>0, <1>1, <2>1, EndOfFlow DEF Reject, TypeOK
<1> DEFINE previous == PreviousProblems(f.distance)
           g == [f EXCEPT !.pc = "draw", !.previous = previous]
<1>2. CASE Replace(f, g) /\ UNCHANGED <<contested, faults>>
  <2>1. previous \subseteq Problems
    BY DEF PreviousProblems, TypeOK
  <2>2. g \in FlowType
    BY <2>1, Fields DEF FlowType
  <2>3. g.distance = f.distance /\ g.pc = "draw" /\ g.previous = previous
    BY Fields DEF FlowType
  <2>4. ASSUME NEW d \in Days, d >= Day(f) - MaxDays
        PROVE  served[d] \subseteq previous
    <3>1. d >= today - MaxDays + f.distance
      BY <2>4, Fields, DayFacts DEF Day
    <3> QED
      BY <3>1 DEF PreviousProblems
  <2> HIDE DEF g
  <2> QED
    BY <1>0, <1>2, <2>2, <2>3, <2>4, ReplaceStep DEF TypeOK
<1> QED
  BY <1>1, <1>2 DEF GetPreviousProblems

\* What a flow that is not stale draws is served on no day around its own.
LEMMA StoreRepeats ==
    ASSUME TodayInv, NEW f \in flows, f.pc = "draw",
           NEW drawn \in SUBSET (Problems \ f.previous), Store(f, drawn)
    PROVE  NoRepeats'
<1> USE DEF TodayInv
<1>1. /\ served' = [served EXCEPT ![Day(f)] = @ \cup drawn]
      /\ repeated \subseteq repeated'
      /\ f \in stale => drawn \cap UNION {served[d] : d \in Days} \subseteq repeated'
  BY DEF Store
<1>2. \A d \in Days : served'[d] = IF d = Day(f) THEN served[d] \cup drawn ELSE served[d]
  BY <1>1 DEF TypeOK
<1>3. ASSUME NEW d \in Days, d >= Day(f) - MaxDays
      PROVE  served[d] \cap drawn \subseteq repeated'
  <2>1. CASE f \in stale
    BY <1>1, <2>1
  <2>2. CASE f \notin stale
    BY <1>3, <2>2 DEF FreshReads
  <2> QED
    BY <2>1, <2>2
<1>4. SUFFICES ASSUME NEW d \in Days, NEW e \in Days, d < e, e - d =< MaxDays
               PROVE  served'[d] \cap served'[e] \subseteq repeated'
  BY DEF NoRepeats
<1>5. served[d] \cap served[e] \subseteq repeated'
  BY <1>1, <1>4 DEF NoRepeats
<1>6. CASE d = Day(f)
  <2>1. e >= Day(f) - MaxDays /\ e # Day(f)
    <3>1. d \in Int /\ e \in Int /\ MaxDays \in Nat
      BY DayFacts, TodayAssumption
    <3> QED
      BY <1>4, <1>6, <3>1
  <2> QED
    BY <1>2, <1>3, <1>5, <1>6, <2>1
<1>7. CASE e = Day(f)
  <2>1. d >= Day(f) - MaxDays /\ d # Day(f)
    BY <1>4, <1>7, Fields, DayFacts
  <2> QED
    BY <1>2, <1>3, <1>5, <1>7, <2>1
<1> QED
  BY <1>2, <1>5, <1>6, <1>7

LEMMA StoreStep ==
    ASSUME TodayInv, NEW f \in flows, f.pc = "draw",
           NEW drawn \in SUBSET (Problems \ f.previous), Store(f, drawn),
           NEW rest, rest \in SUBSET FlowType, \A g \in rest : g.pc = "stored",
           flows' = (flows \ {f}) \cup rest,
           stale' = (stale \cup Overtaken(f)) \ {f}, Leave(f),
           UNCHANGED today, faults' \in Nat
    PROVE  TodayInv'
<1> USE DEF TodayInv
<1>1. /\ served' = [served EXCEPT ![Day(f)] = @ \cup drawn]
      /\ repeated' \subseteq repeated \cup drawn
  BY DEF Store
<1>2. \A d \in Days : served'[d] = IF d = Day(f) THEN served[d] \cup drawn ELSE served[d]
  BY <1>1 DEF TypeOK
<1>3. TypeOK'
  <2>1. served' \in [Days -> SUBSET Problems] /\ repeated' \subseteq Problems
    BY <1>1 DEF TypeOK
  <2>2. stale' \subseteq flows'
    BY DEF TypeOK, Overtaken
  <2> QED
    BY <2>1, <2>2 DEF TypeOK, Leave
<1>4. \A h : Day(h)' = Day(h)
  BY DEF Day
<1>5. FreshReads'
  <2> SUFFICES ASSUME NEW g \in flows' \ stale', g.pc = "draw" PROVE FALSE
    BY DEF FreshReads
  <2> QED
    BY DEF Overtaken
<1>6. \A h \in Pending' : h \in Pending /\ h # f
  BY DEF Pending
<1>7. f \in Pending
  BY DEF Pending
<1>8. \A h \in Pending' : Day(h) \in contested => Day(h) \in contested'
  BY <1>6 DEF Leave
<1>9. LateFlows'
  <2> SUFFICES ASSUME NEW h \in Pending', served'[Day(h)] # {} PROVE Day(h) \in contested
    BY <1>8, <1>4 DEF LateFlows
  <2>1. Day(h) \in Days
    BY <1>6, Fields DEF Pending
  <2>2. CASE Day(h) = Day(f)
    BY <1>6, <1>7, <2>2 DEF DoubleFlows
  <2>3. CASE Day(h) # Day(f)
    BY <1>2, <1>6, <2>1, <2>3 DEF LateFlows
  <2> QED
    BY <2>2, <2>3
<1>10. DoubleFlows'
  BY <1>8, <1>4, <1>6 DEF DoubleFlows
<1> QED
  BY <1>3, <1>5, <1>9, <1>10, StoreRepeats

LEMMA InsertStep ==
    ASSUME TodayInv, NEW f \in flows, InsertTodayProblems(f)
    PROVE  TodayInv'
<1> USE DEF TodayInv
<1> DEFINE targets == Problems \ f.previous
<1>0. f.pc = "draw" /\ UNCHANGED today
  BY DEF InsertTodayProblems
<1>1. CASE \E drawn \in TodayProblems[targets] :
             /\ Store(f, drawn)
             /\ \/ /\ flows' = (flows \ {f}) \cup {[f EXCEPT !.pc = "stored", !.previous = {}]}
                   /\ UNCHANGED faults
                \/ flows' = flows \ {f} /\ Fault
             /\ stale' = (stale \cup Overtaken(f)) \ {f}
             /\ Leave(f)
  <2>1. PICK drawn \in TodayProblems[targets] :
             /\ Store(f, drawn)
             /\ \/ /\ flows' = (flows \ {f}) \cup {[f EXCEPT !.pc = "stored", !.previous = {}]}
                   /\ UNCHANGED faults
                \/ flows' = flows \ {f} /\ Fault
             /\ stale' = (stale \cup Overtaken(f)) \ {f}
             /\ Leave(f)
    BY <1>1
  <2>2. drawn \in SUBSET targets
    BY DEF TodayProblems
  <2>3. faults' \in Nat
    BY <2>1 DEF Fault, TypeOK
  <2> DEFINE g == [f EXCEPT !.pc = "stored", !.previous = {}]
  <2>4. g \in FlowType /\ g.pc = "stored"
    BY Fields DEF FlowType
  <2>5. CASE flows' = flows \ {f}
    <3> DEFINE none == {}
    <3>1. /\ flows' = (flows \ {f}) \cup none
          /\ none \in SUBSET FlowType /\ \A h \in none : h.pc = "stored"
      BY <2>5
    <3> HIDE DEF none, targets
    <3>2. drawn \in SUBSET (Problems \ f.previous)
      BY <2>2 DEF targets
    <3> QED
      BY <1>0, <2>1, <2>3, <3>1, <3>2, StoreStep
  <2>6. CASE flows' = (flows \ {f}) \cup {g}
    <3> HIDE DEF g
    <3> QED
      BY <1>0, <2>1, <2>2, <2>3, <2>4, <2>6, StoreStep
  <2> QED
    BY <2>1, <2>5, <2>6
<1>2. CASE End(f) /\ UNCHANGED <<served, repeated, faults>>
  BY <1>0, <1>2, EndOfFlow DEF TypeOK
<1>3. CASE Reject(f) /\ UNCHANGED <<served, repeated>>
  <2>1. faults' \in Nat
    BY <1>3 DEF Reject, Fault, TypeOK
  <2> QED
    BY <1>0, <1>3, <2>1, EndOfFlow DEF Reject, TypeOK
<1> QED
  BY <1>1, <1>2, <1>3 DEF InsertTodayProblems

LEMMA CrashStep ==
    ASSUME TodayInv, NEW f \in flows, Crash(f)
    PROVE  TodayInv'
<1> USE DEF TodayInv
<1>0. /\ UNCHANGED <<today, served, repeated>> /\ faults' \in Nat
  BY DEF Crash, Fault, TypeOK
<1>2. CASE End(f)
  BY <1>0, <1>2, EndOfFlow
<1> DEFINE g == [f EXCEPT !.pc = "waiting", !.previous = {}, !.again = TRUE]
<1>3. CASE /\ Replace(f, g)
           /\ contested' = IF f.pc = "stored" THEN contested \cup {Day(f)} ELSE contested
  <2>1. contested \subseteq contested' /\ contested' \subseteq Days
    BY <1>3, Fields DEF TypeOK
  <2>2. g \in FlowType /\ g.pc = "waiting" /\ g.distance = f.distance
    BY Fields DEF FlowType
  <2> HIDE DEF g
  <2> QED
    BY <1>0, <1>3, <2>1, <2>2, ReplaceStep
<1> QED
  BY <1>2, <1>3 DEF Crash

LEMMA NextTodayInv == TodayInv /\ [Next]_vars => TodayInv'
<1> SUFFICES ASSUME TodayInv, [Next]_vars PROVE TodayInv'
  OBVIOUS
<1>1. CASE UNCHANGED vars
  BY <1>1 DEF vars, TodayInv, TypeOK, FreshReads, NoRepeats, LateFlows, DoubleFlows, Pending, Day
<1>2. CASE Midnight
  BY <1>2, MidnightStep
<1>3. ASSUME NEW t \in Firings, Plan(t) PROVE TodayInv'
  BY <1>3, PlanStep
<1>4. ASSUME NEW t \in Firings, NEW i \in Asked, Request(t, i) PROVE TodayInv'
  BY <1>4, RequestStep, TodayAssumption DEF DateSeries
<1>5. ASSUME NEW f \in flows, Step(f) PROVE TodayInv'
  <2>1. CASE EndStep(f)
    BY <2>1, EndOfFlow DEF EndStep, TodayInv, TypeOK
  <2> QED
    BY <1>5, <2>1, GetPreviousStep, InsertStep DEF Step
<1>6. ASSUME NEW f \in flows, Crash(f) PROVE TodayInv'
  BY <1>6, CrashStep
<1> QED
  BY <1>1, <1>2, <1>3, <1>4, <1>5, <1>6 DEF Next

LEMMA TodayInvHolds == Spec => []TodayInv
BY InitTodayInv, NextTodayInv, PTL DEF Spec

-------------------------------------------------------------------------------
(* The theorems *)

\* getPreviousProblems looks far enough: whatever is drawn late, in any order or
\* again, only draws that overlap can serve a problem twice.
THEOREM OnlyOverlapsRepeat == Spec => []NoRepeats
<1>1. TodayInv => NoRepeats
  BY DEF TodayInv
<1> QED
  BY <1>1, TodayInvHolds, PTL

\* Each way to fill a day twice is one the history names.
THEOREM OnlyContestedFilledTwice == Spec => FilledOnce
<1> DEFINE Once == \A d \in Days : served[d] # {} /\ served'[d] # served[d] => d \in contested
<1>1. TodayInv /\ [Next]_vars => [Once]_vars
  <2> SUFFICES ASSUME TodayInv, Next, NEW d \in Days,
                      served[d] # {}, served'[d] # served[d]
               PROVE  d \in contested
    OBVIOUS
  <2>1. PICK f \in flows : InsertTodayProblems(f) /\ served' # served
    BY DEF Next, Midnight, Plan, Request, Step, GetPreviousProblems, EndStep, Crash
  <2>2. f.pc = "draw" /\ \E drawn : served' = [served EXCEPT ![Day(f)] = @ \cup drawn]
    BY <2>1 DEF InsertTodayProblems, Store
  <2>3. d = Day(f)
    BY <2>2 DEF TodayInv, TypeOK
  <2> QED
    BY <2>2, <2>3 DEF TodayInv, LateFlows, Pending
<1> QED
  BY <1>1, TodayInvHolds, PTL DEF Spec, FilledOnce

\* For any problems, horizons and faults, a day is served only problems there are,
\* and a flow is for a distance that a plan or a request has, also across midnight.
THEOREM TypeCorrect == Spec => []TypeOK
<1>1. TodayInv => TypeOK
  BY DEF TodayInv
<1> QED
  BY <1>1, TodayInvHolds, PTL
===============================================================================
