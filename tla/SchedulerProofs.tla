--------------------------- MODULE SchedulerProofs ---------------------------
(***************************************************************************)
(* Theorems about BatchScheduler, for any requests, definitions, names and *)
(* restarts.                                                               *)
(***************************************************************************)
EXTENDS BatchScheduler, TLAPS

-------------------------------------------------------------------------------
(* The invariant *)

\* The row of a save call that is about to synchronize, or did, was inserted.
SavedInv ==
    \A c \in Calls :
        calls[c].op = "save" /\ (calls[c].pc = "clear" \/ Cleared(c))
            => calls[c].no \in Defs /\ table[calls[c].no] # "none"

\* The call that emptied the registry last reads every row that a call which
\* emptied it before had saved.
FoundInv ==
    lastClear # NoCall /\ calls[lastClear].pc = "add" =>
        \A c \in Calls :
            Cleared(c) /\ calls[c].op = "save" /\ table[calls[c].no] = "live"
                => calls[c].no \in calls[lastClear].found

MissInv == TypeOK /\ SavedInv /\ FoundInv /\ NoMissedSchedule

\* During the boot nothing else is under way and the registry is empty.
BootInv ==
    /\ ~Up => \A c \in Calls : calls[c].pc \in {"idle"} \cup CallEnds
    /\ calls[Boot].pc \in {"clear", "find", "add"} => crons = [n \in Names |-> NoDef]
    /\ calls[Boot].pc = "add" => calls[Boot].found = Live

\* Boot is not a request, and NoCall is not a call.
LEMMA CallFacts ==
    /\ Boot \in AllCalls /\ \A c \in Calls : c \in AllCalls /\ c # Boot
    /\ NoCall \notin AllCalls
  BY SchedulerAssumption DEF AllCalls

\* A set of rows is added in full only if their names differ.
LEMMA AddedNamesDiffer ==
    ASSUME NEW found \in SUBSET Defs, NEW d \in Added(found), NEW e \in Added(found),
           DefName[d] = DefName[e]
    PROVE  d = e
<1>1. d \in found /\ e \in found /\ d \in Nat /\ e \in Nat
  BY SchedulerAssumption DEF Added
<1>2. Addable(d, found) /\ Addable(e, found)
  BY <1>1 DEF Added
<1>3. ~(d < e) /\ ~(e < d)
  BY <1>1, <1>2 DEF Addable
<1> QED
  BY <1>1, <1>3

\* AddSchedules leaves a cron job that is there alone and, once it is through
\* its rows, has one for each of them.
LEMMA AddedCrons ==
    ASSUME TypeOK, NEW c \in AllCalls, AddSchedules(c)
    PROVE  /\ \A n \in Names : crons[n] # NoDef => crons'[n] = crons[n]
           /\ calls'[c].pc = "done" =>
                \A d \in calls[c].found : crons'[DefName[d]] = d
           /\ \A n \in Names : crons'[n] \in Defs \cup {NoDef}
<1> DEFINE found == calls[c].found
<1>1. found \in SUBSET Defs /\ Added(found) \subseteq found
  BY DEF TypeOK, CallType, Added
<1>2. \A d \in Added(found) : crons[DefName[d]] = NoDef
  BY <1>1, SchedulerAssumption DEF Added, Addable
<1>3. crons' = [n \in Names |-> IF \E d \in Added(found) : DefName[d] = n
                                THEN CHOOSE d \in Added(found) : DefName[d] = n
                                ELSE crons[n]]
  BY DEF AddSchedules
<1>4. ASSUME NEW n \in Names, crons[n] # NoDef
      PROVE  crons'[n] = crons[n]
  BY <1>2, <1>3, <1>4
<1>5. ASSUME calls'[c].pc = "done", NEW d \in found
      PROVE  crons'[DefName[d]] = d
  <2>1. Added(found) = found
    BY <1>5 DEF AddSchedules, Goto, TypeOK, CallType
  <2>2. DefName[d] \in Names
    BY <1>1, SchedulerAssumption
  <2>3. PICK e \in Added(found) : DefName[e] = DefName[d] /\ crons'[DefName[d]] = e
    BY <1>3, <2>1, <2>2
  <2> QED
    BY <1>1, <2>1, <2>3, AddedNamesDiffer
<1>6. ASSUME NEW n \in Names
      PROVE  crons'[n] \in Defs \cup {NoDef}
  <2>1. CASE \E d \in Added(found) : DefName[d] = n
    BY <1>1, <1>3, <2>1
  <2>2. CASE ~\E d \in Added(found) : DefName[d] = n
    BY <1>3, <2>2 DEF TypeOK
  <2> QED
    BY <2>1, <2>2
<1> QED
  BY <1>4, <1>5, <1>6

-------------------------------------------------------------------------------
(* Type correctness *)

\* The initial state has its type.
LEMMA InitTypeOK == Init => TypeOK
  BY SchedulerAssumption
  DEF Init, TypeOK, CallType, Call, CallPCs, CallEnds, AllCalls

\* Every step keeps the type.
LEMMA NextTypeOK == TypeOK /\ [Next]_vars => TypeOK'
<1> SUFFICES ASSUME TypeOK, [Next]_vars PROVE TypeOK'
  OBVIOUS
<1>1. CASE UNCHANGED vars
  BY <1>1 DEF vars, TypeOK
<1>2. ASSUME NEW c \in Calls, Request(c)
      PROVE  TypeOK'
  BY <1>2, CallFacts DEF Request, Call, TypeOK, CallType, CallPCs
<1>3. ASSUME NEW c \in Calls, Save(c)
      PROVE  TypeOK'
  <2>1. calls' \in [AllCalls -> CallType]
    BY <1>3, CallFacts DEF Save, WriteRow, Goto, TypeOK, CallType, CallPCs, CallEnds
  <2>2. table' \in [Defs -> {"none", "live", "deleted"}]
    BY <1>3 DEF Save, WriteRow, TypeOK
  <2> QED
    BY <1>3, <2>1, <2>2 DEF Save, TypeOK
<1>4. ASSUME NEW c \in Calls, Delete(c)
      PROVE  TypeOK'
  <2>1. calls[c] \in CallType
    BY CallFacts DEF TypeOK
  <2>2. calls' \in [AllCalls -> CallType]
    BY <1>4, <2>1, CallFacts DEF Delete, WriteRow, Goto, TypeOK, CallType, CallPCs, CallEnds
  <2>3. table' \in [Defs -> {"none", "live", "deleted"}]
    BY <1>4 DEF Delete, WriteRow, TypeOK
  <2> QED
    BY <1>4, <2>2, <2>3 DEF Delete, TypeOK
<1>5. ASSUME NEW c \in AllCalls, Clear(c)
      PROVE  TypeOK'
  BY <1>5 DEF Clear, Goto, TypeOK, CallType, CallPCs
<1>6. ASSUME NEW c \in AllCalls, FindAll(c)
      PROVE  TypeOK'
  BY <1>6 DEF FindAll, Goto, Live, TypeOK, CallType, CallPCs, CallEnds
<1>7. ASSUME NEW c \in AllCalls, AddSchedules(c)
      PROVE  TypeOK'
  <2>1. calls' \in [AllCalls -> CallType]
    BY <1>7 DEF AddSchedules, Goto, TypeOK, CallType, CallPCs, CallEnds
  <2>2. crons' \in [Names -> Defs \cup {NoDef}]
    <3>1. \A n \in Names : crons'[n] \in Defs \cup {NoDef}
      BY <1>7, AddedCrons
    <3>2. crons' = [n \in Names |-> crons'[n]]
      BY <1>7 DEF AddSchedules
    <3> QED
      BY <3>1, <3>2
  <2> QED
    BY <1>7, <2>1, <2>2 DEF AddSchedules, TypeOK
<1>8. ASSUME Restart
      PROVE  TypeOK'
  <2>1. \A c \in AllCalls : [calls[c] EXCEPT !.pc = "lost"] \in CallType
    BY DEF TypeOK, CallType, CallPCs, CallEnds
  <2>2. Call("clear", "boot", NoDef) \in CallType
    BY DEF Call, CallType, CallPCs
  <2>3. calls' \in [AllCalls -> CallType]
    BY <1>8, <2>1, <2>2 DEF Restart, TypeOK
  <2> QED
    BY <1>8, <2>3 DEF Restart, TypeOK
<1> QED
  BY <1>1, <1>2, <1>3, <1>4, <1>5, <1>6, <1>7, <1>8 DEF Next

-------------------------------------------------------------------------------
(* Nothing is missed *)

\* A step that leaves the registry alone, lets no call pass its clear and
\* brings no row back keeps what was found and scheduled.
LEMMA FoundKept ==
    ASSUME MissInv, UNCHANGED <<crons, lastClear>>,
           \A c \in Calls : Cleared(c)' =>
              Cleared(c) /\ calls'[c].op = calls[c].op /\ calls'[c].no = calls[c].no,
           \A d \in Defs : table[d] # "none" /\ table'[d] = "live" => table[d] = "live",
           lastClear # NoCall =>
              \/ calls'[lastClear] = calls[lastClear]
              \/ calls'[lastClear].pc \notin {"add", "done"}
    PROVE  FoundInv' /\ NoMissedSchedule'
<1>1. \A c \in Calls : /\ Cleared(c)' /\ calls'[c].op = "save"
                       /\ table'[calls'[c].no] = "live"
         => /\ Cleared(c) /\ calls[c].op = "save" /\ table[calls[c].no] = "live"
            /\ calls'[c].no = calls[c].no
  BY DEF MissInv, SavedInv
<1>2. FoundInv'
  BY <1>1 DEF MissInv, FoundInv
<1>3. NoMissedSchedule'
  BY <1>1 DEF MissInv, NoMissedSchedule
<1> QED
  BY <1>2, <1>3

\* Every step keeps the invariant.
LEMMA NextMissInv == MissInv /\ [Next]_vars => MissInv'
<1> SUFFICES ASSUME MissInv, [Next]_vars PROVE MissInv'
  OBVIOUS
<1>1. TypeOK /\ SavedInv /\ FoundInv /\ NoMissedSchedule /\ TypeOK'
  BY NextTypeOK DEF MissInv
<1>2. CASE UNCHANGED vars
  BY <1>1, <1>2 DEF vars, MissInv, SavedInv, FoundInv, NoMissedSchedule, Cleared
<1>3. ASSUME NEW c \in Calls, Request(c)
      PROVE  MissInv'
  <2>1. /\ UNCHANGED <<table, crons, lastClear>>
        /\ calls'[c].pc = "write"
        /\ \A e \in AllCalls : e # c => calls'[e] = calls[e]
    BY <1>1, <1>3, CallFacts DEF Request, Call, TypeOK
  <2>2. SavedInv'
    BY <1>1, <2>1, CallFacts DEF SavedInv, Cleared
  <2>3. FoundInv' /\ NoMissedSchedule'
    BY <1>1, <2>1, CallFacts, FoundKept DEF Cleared, TypeOK
  <2> QED
    BY <1>1, <2>2, <2>3 DEF MissInv
<1>4. ASSUME NEW c \in Calls, Save(c)
      PROVE  MissInv'
  <2>1. /\ UNCHANGED <<crons, lastClear>>
        /\ calls[c].pc = "write" /\ calls'[c].op = calls[c].op
        /\ \A e \in AllCalls : e # c => calls'[e] = calls[e]
        /\ \/ calls'[c].pc = "refused"
           \/ /\ calls'[c].pc = "clear"
              /\ calls'[c].no \in Defs /\ table'[calls'[c].no] = "live"
        /\ \A d \in Defs : table'[d] = table[d] \/ (table[d] = "none" /\ table'[d] = "live")
    <3>1. CASE Goto(c, "refused") /\ UNCHANGED table
      BY <1>1, <1>4, <3>1, CallFacts DEF Save, Goto, TypeOK, CallType
    <3>2. CASE \E d \in Defs : table[d] = "none" /\ WriteRow(c, d, "live")
      <4>1. PICK d \in Defs, pc \in {"clear", "refused"} :
               /\ table[d] = "none" /\ table' = [table EXCEPT ![d] = "live"]
               /\ calls' = [calls EXCEPT ![c].pc = pc, ![c].no = d]
        BY <3>2 DEF WriteRow
      <4>2. /\ calls'[c].pc = pc /\ calls'[c].no = d /\ calls'[c].op = calls[c].op
            /\ \A e \in AllCalls : e # c => calls'[e] = calls[e]
        BY <1>1, <4>1, CallFacts DEF TypeOK, CallType
      <4>3. /\ table'[d] = "live"
            /\ \A e \in Defs : table'[e] = table[e] \/ (table[e] = "none" /\ table'[e] = "live")
        BY <1>1, <4>1 DEF TypeOK
      <4> QED
        BY <1>4, <4>1, <4>2, <4>3 DEF Save
    <3> QED
      BY <1>4, <3>1, <3>2 DEF Save
  <2>2. SavedInv'
    BY <1>1, <2>1, CallFacts DEF SavedInv, Cleared
  <2>3. FoundInv' /\ NoMissedSchedule'
    BY <1>1, <2>1, CallFacts, FoundKept DEF Cleared, TypeOK
  <2> QED
    BY <1>1, <2>2, <2>3 DEF MissInv
<1>5. ASSUME NEW c \in Calls, Delete(c)
      PROVE  MissInv'
  <2>1. /\ UNCHANGED <<crons, lastClear>>
        /\ calls[c].pc = "write" /\ calls'[c].op = "delete"
        /\ \A e \in AllCalls : e # c => calls'[e] = calls[e]
        /\ calls'[c].pc \in {"refused", "clear"}
        /\ \A d \in Defs : table'[d] = table[d] \/ table'[d] = "deleted"
    BY <1>1, <1>5, CallFacts DEF Delete, WriteRow, Goto, TypeOK, CallType
  <2>2. SavedInv'
    BY <1>1, <2>1, CallFacts DEF SavedInv, Cleared
  <2>3. FoundInv' /\ NoMissedSchedule'
    BY <1>1, <2>1, CallFacts, FoundKept DEF Cleared, TypeOK
  <2> QED
    BY <1>1, <2>2, <2>3 DEF MissInv
<1>6. ASSUME NEW c \in AllCalls, Clear(c)
      PROVE  MissInv'
  <2>1. /\ UNCHANGED table /\ lastClear' = c
        /\ calls[c].pc = "clear" /\ calls'[c].pc = "find"
        /\ calls'[c].op = calls[c].op /\ calls'[c].no = calls[c].no
        /\ \A e \in AllCalls : e # c => calls'[e] = calls[e]
    BY <1>1, <1>6 DEF Clear, Goto, TypeOK, CallType
  <2>2. SavedInv'
    BY <1>1, <2>1, CallFacts DEF SavedInv, Cleared
  <2>3. FoundInv' /\ NoMissedSchedule'
    BY <2>1 DEF FoundInv, NoMissedSchedule
  <2> QED
    BY <1>1, <2>2, <2>3 DEF MissInv
<1>7. ASSUME NEW c \in AllCalls, FindAll(c)
      PROVE  MissInv'
  <2>1. /\ UNCHANGED <<table, crons, lastClear>>
        /\ calls[c].pc = "find" /\ Cleared(c)
        /\ calls'[c].op = calls[c].op /\ calls'[c].no = calls[c].no
        /\ \A e \in AllCalls : e # c => calls'[e] = calls[e]
        /\ \/ calls'[c].pc = "refused"
           \/ calls'[c].pc = "add" /\ calls'[c].found = Live
    BY <1>1, <1>7 DEF FindAll, Goto, TypeOK, CallType, Cleared
  <2>2. SavedInv'
    BY <1>1, <2>1, CallFacts DEF SavedInv, Cleared
  <2>3. \A e \in Calls : Cleared(e)' =>
           Cleared(e) /\ calls'[e].op = calls[e].op /\ calls'[e].no = calls[e].no
    BY <2>1, CallFacts DEF Cleared
  <2>4. CASE lastClear = c
    <3>1. NoMissedSchedule'
      BY <2>1, <2>4 DEF NoMissedSchedule
    <3>2. FoundInv'
      BY <1>1, <2>1, <2>3, <2>4 DEF FoundInv, SavedInv, Live
    <3> QED
      BY <1>1, <2>2, <3>1, <3>2 DEF MissInv
  <2>5. CASE lastClear # c
    <3>1. FoundInv' /\ NoMissedSchedule'
      BY <1>1, <2>1, <2>3, <2>5, FoundKept DEF TypeOK
    <3> QED
      BY <1>1, <2>2, <3>1 DEF MissInv
  <2> QED
    BY <2>4, <2>5
<1>8. ASSUME NEW c \in AllCalls, AddSchedules(c)
      PROVE  MissInv'
  <2>1. /\ UNCHANGED <<table, lastClear>>
        /\ calls[c].pc = "add" /\ Cleared(c)
        /\ calls'[c].pc \in {"done", "failed"}
        /\ calls'[c].op = calls[c].op /\ calls'[c].no = calls[c].no
        /\ \A e \in AllCalls : e # c => calls'[e] = calls[e]
    BY <1>1, <1>8 DEF AddSchedules, Goto, TypeOK, CallType, Cleared
  <2>2. SavedInv'
    BY <1>1, <2>1, CallFacts DEF SavedInv, Cleared
  <2>3. \A e \in Calls : Cleared(e)' =>
           Cleared(e) /\ calls'[e].op = calls[e].op /\ calls'[e].no = calls[e].no
    BY <2>1, CallFacts DEF Cleared
  <2>4. FoundInv'
    BY <1>1, <2>1, <2>3 DEF FoundInv, TypeOK
  <2>5. ASSUME lastClear' # NoCall, calls'[lastClear'].pc = "done",
               NEW e \in Calls, Cleared(e)', calls'[e].op = "save",
               table'[calls'[e].no] = "live"
        PROVE  crons'[DefName[calls'[e].no]] = calls'[e].no
    <3>1. /\ Cleared(e) /\ calls[e].op = "save" /\ table[calls[e].no] = "live"
          /\ calls'[e].no = calls[e].no
      BY <2>1, <2>3, <2>5
    <3>2. calls[e].no \in Defs
      BY <1>1, <3>1 DEF SavedInv
    <3>3. CASE lastClear = c
      <4>1. calls[e].no \in calls[c].found
        BY <1>1, <2>1, <2>5, <3>1, <3>3 DEF FoundInv
      <4> QED
        BY <1>1, <1>8, <2>1, <2>5, <3>1, <3>3, <4>1, AddedCrons
    <3>4. CASE lastClear # c
      <4>1. crons[DefName[calls[e].no]] = calls[e].no
        BY <1>1, <2>1, <2>5, <3>1, <3>4 DEF NoMissedSchedule, TypeOK
      <4>2. calls[e].no # NoDef /\ DefName[calls[e].no] \in Names
        BY <3>2, SchedulerAssumption
      <4> QED
        BY <1>1, <1>8, <3>1, <4>1, <4>2, AddedCrons
    <3> QED
      BY <3>3, <3>4
  <2>6. NoMissedSchedule'
    BY <2>5 DEF NoMissedSchedule
  <2> QED
    BY <1>1, <2>2, <2>4, <2>6 DEF MissInv
<1>9. ASSUME Restart
      PROVE  MissInv'
  <2>1. /\ UNCHANGED table /\ lastClear' = NoCall
        /\ \A c \in Calls : \/ calls'[c] = calls[c]
                            \/ calls'[c].pc = "lost"
    BY <1>1, <1>9, CallFacts DEF Restart, TypeOK, CallType
  <2>2. SavedInv'
    BY <1>1, <2>1 DEF SavedInv, Cleared
  <2>3. FoundInv' /\ NoMissedSchedule'
    BY <2>1 DEF FoundInv, NoMissedSchedule
  <2> QED
    BY <1>1, <2>2, <2>3 DEF MissInv
<1> QED
  BY <1>2, <1>3, <1>4, <1>5, <1>6, <1>7, <1>8, <1>9 DEF Next

\* However the requests overlap and whenever the process restarts, a definition
\* that was saved and not deleted is in the registry when the synchronization
\* that emptied it last has ended well.
THEOREM NothingMissed == Spec => []NoMissedSchedule
<1>1. Init => MissInv
  <2> SUFFICES ASSUME Init PROVE MissInv
    OBVIOUS
  <2>1. TypeOK /\ lastClear = NoCall /\ \A c \in Calls : calls[c].pc = "idle"
    BY InitTypeOK, CallFacts DEF Init, Call
  <2> QED
    BY <2>1 DEF MissInv, SavedInv, FoundInv, NoMissedSchedule, Cleared
<1>2. MissInv => NoMissedSchedule
  BY DEF MissInv
<1> QED
  BY <1>1, <1>2, NextMissInv, PTL DEF Spec
-------------------------------------------------------------------------------
(* The boot *)

PoisonInv == TypeOK /\ BootInv /\ BootFailsOnlyOnPoison

\* Every step keeps the invariant.
LEMMA NextPoisonInv == PoisonInv /\ [Next]_vars => PoisonInv'
<1> SUFFICES ASSUME PoisonInv, [Next]_vars PROVE PoisonInv'
  OBVIOUS
<1>1. TypeOK /\ BootInv /\ BootFailsOnlyOnPoison /\ TypeOK'
  BY NextTypeOK DEF PoisonInv
<1>2. CASE UNCHANGED vars
  BY <1>1, <1>2 DEF vars, PoisonInv, BootInv, BootFailsOnlyOnPoison, Up, Live
<1>3. ASSUME Up, calls'[Boot] = calls[Boot]
      PROVE  PoisonInv'
  BY <1>1, <1>3 DEF Up, PoisonInv, BootInv, BootFailsOnlyOnPoison
<1>4. ASSUME ~Up, NEW c \in Calls
      PROVE  ~(Request(c) \/ Save(c) \/ Delete(c) \/ Clear(c) \/ FindAll(c) \/ AddSchedules(c))
  BY <1>1, <1>4
  DEF BootInv, CallEnds, Request, Save, Delete, Clear, FindAll, AddSchedules
<1>5. ASSUME NEW c \in Calls, Request(c) \/ Save(c) \/ Delete(c)
      PROVE  PoisonInv'
  <2>1. Up
    BY <1>4, <1>5
  <2>2. calls'[Boot] = calls[Boot]
    BY <1>1, <1>5, CallFacts DEF Request, Save, Delete, WriteRow, Goto, TypeOK
  <2> QED
    BY <1>3, <2>1, <2>2
<1>6. ASSUME NEW c \in Calls, Clear(c) \/ FindAll(c) \/ AddSchedules(c)
      PROVE  PoisonInv'
  <2>1. Up
    BY <1>4, <1>6
  <2>2. calls'[Boot] = calls[Boot]
    BY <1>1, <1>6, CallFacts DEF Clear, FindAll, AddSchedules, Goto, TypeOK
  <2> QED
    BY <1>3, <2>1, <2>2
<1>7. ASSUME ~Up, UNCHANGED table, \A e \in Calls : calls'[e] = calls[e]
      PROVE  /\ \A e \in Calls : calls'[e].pc \in {"idle"} \cup CallEnds
             /\ Live' = Live
  BY <1>1, <1>7 DEF BootInv, Live
<1>8. CASE Clear(Boot)
  <2>1. /\ ~Up /\ UNCHANGED table /\ crons' = [n \in Names |-> NoDef]
        /\ calls'[Boot].pc = "find" /\ \A e \in Calls : calls'[e] = calls[e]
    BY <1>1, <1>8, CallFacts DEF Clear, Goto, Up, TypeOK, CallType
  <2> QED
    BY <1>1, <1>7, <2>1 DEF PoisonInv, BootInv, BootFailsOnlyOnPoison
<1>9. CASE FindAll(Boot)
  <2>1. /\ ~Up /\ UNCHANGED <<table, crons>> /\ calls[Boot].pc = "find"
        /\ \A e \in Calls : calls'[e] = calls[e]
        /\ \/ calls'[Boot].pc = "refused"
           \/ calls'[Boot].pc = "add" /\ calls'[Boot].found = Live
    BY <1>1, <1>9, CallFacts DEF FindAll, Goto, Up, TypeOK, CallType
  <2> QED
    BY <1>1, <1>7, <2>1 DEF PoisonInv, BootInv, BootFailsOnlyOnPoison
<1>10. CASE AddSchedules(Boot)
  <2> DEFINE found == calls[Boot].found
  <2>1. /\ ~Up /\ UNCHANGED table /\ calls[Boot].pc = "add"
        /\ \A e \in Calls : calls'[e] = calls[e]
        /\ calls'[Boot].pc = IF Added(found) = found THEN "done" ELSE "failed"
    BY <1>1, <1>10, CallFacts DEF AddSchedules, Goto, Up, TypeOK, CallType
  <2>2. found = Live /\ found \subseteq Defs /\ crons = [n \in Names |-> NoDef]
    BY <1>1, <2>1 DEF BootInv, Live
  <2>3. ASSUME Added(found) # found
        PROVE  \E d \in Live : d \in BadCron \/ \E e \in Live : e # d /\ DefName[e] = DefName[d]
    <3>1. PICK d \in found : ~Addable(d, found)
      BY <2>3 DEF Added
    <3>2. crons[DefName[d]] = NoDef /\ d \in Nat
      BY <2>2, SchedulerAssumption
    <3>3. \A e \in found : e < d => e # d
      BY <2>2, <3>2, SchedulerAssumption
    <3> QED
      BY <2>2, <3>1, <3>2, <3>3 DEF Addable
  <2>4. BootFailsOnlyOnPoison'
    BY <1>7, <2>1, <2>3 DEF BootFailsOnlyOnPoison
  <2>5. BootInv'
    BY <1>7, <2>1 DEF BootInv, Up
  <2> QED
    BY <1>1, <2>4, <2>5 DEF PoisonInv
<1>11. CASE Restart
  <2>1. /\ crons' = [n \in Names |-> NoDef]
        /\ calls'[Boot].pc = "clear"
        /\ \A c \in Calls : calls'[c].pc \in {"idle"} \cup CallEnds
    <3>1. ASSUME NEW c \in Calls
          PROVE  calls'[c].pc \in {"idle"} \cup CallEnds
      <4>1. calls[c] \in CallType
        BY <1>1, CallFacts DEF TypeOK
      <4>2. calls'[c] = IF calls[c].pc \in {"write", "clear", "find", "add"}
                        THEN [calls[c] EXCEPT !.pc = "lost"] ELSE calls[c]
        BY <1>11, CallFacts DEF Restart
      <4> QED
        BY <4>1, <4>2 DEF CallType, CallPCs, CallEnds
    <3> QED
      BY <1>11, <3>1, CallFacts DEF Restart, Call
  <2> QED
    BY <1>1, <2>1 DEF PoisonInv, BootInv, BootFailsOnlyOnPoison
<1> QED
  BY <1>2, <1>5, <1>6, <1>8, <1>9, <1>10, <1>11 DEF Next, AllCalls

\* Whatever was saved, deleted or interrupted before, the boot fails over its
\* schedules only if a definition that is in the table and not deleted cannot
\* be scheduled, alone or beside another.
THEOREM BootFailsOnPoison == Spec => []BootFailsOnlyOnPoison
<1>1. Init => PoisonInv
  <2> SUFFICES ASSUME Init PROVE PoisonInv
    OBVIOUS
  <2>1. /\ TypeOK /\ calls[Boot].pc = "clear" /\ crons = [n \in Names |-> NoDef]
        /\ \A c \in Calls : calls[c].pc = "idle"
    BY InitTypeOK, CallFacts DEF Init, Call
  <2> QED
    BY <2>1 DEF PoisonInv, BootInv, BootFailsOnlyOnPoison
<1>2. PoisonInv => BootFailsOnlyOnPoison
  BY DEF PoisonInv
<1> QED
  BY <1>1, <1>2, NextPoisonInv, PTL DEF Spec

\* However requests overlap, fail and are cut off by a restart, the table, the
\* registry and every request stay in a state the code knows.
THEOREM TypeCorrect == Spec => []TypeOK
  BY InitTypeOK, NextTypeOK, PTL DEF Spec
=============================================================================
