------------------------------ MODULE LinearFlow ------------------------------
(***************************************************************************)
(* What the engine promises of one flow: the steps are done one after the  *)
(* other in the order of the definition, nothing is done after a failure,  *)
(* and SUCCESS is reported only when every step is done.  A report of      *)
(* FAILED promises nothing: it may come without any failure and before the *)
(* flow stopped.                                                           *)
(***************************************************************************)
EXTENDS Integers

CONSTANTS Flows, NumSteps

VARIABLES
    done,      \* done[f]: the steps of f that are done
    stopped,   \* stopped[f]: a step of f failed for good
    report     \* report[f]: what the caller was told

vars == <<done, stopped, report>>

Init ==
    /\ done = [f \in Flows |-> {}]
    /\ stopped = [f \in Flows |-> FALSE]
    /\ report = [f \in Flows |-> "NONE"]

Steps(f) == 1 .. NumSteps[f]

\* The next step is i when the steps done so far are the ones before i.
CompleteStep(f) ==
    /\ ~stopped[f]
    /\ \E i \in Steps(f) :
          /\ done[f] = 1 .. i - 1
          /\ done' = [done EXCEPT ![f] = 1 .. i]
    /\ UNCHANGED <<stopped, report>>

FailStep(f) ==
    /\ ~stopped[f]
    /\ done[f] # Steps(f)
    /\ stopped' = [stopped EXCEPT ![f] = TRUE]
    /\ UNCHANGED <<done, report>>

ReportSuccess(f) ==
    /\ report[f] = "NONE"
    /\ done[f] = Steps(f)
    /\ report' = [report EXCEPT ![f] = "SUCCESS"]
    /\ UNCHANGED <<done, stopped>>

ReportFailed(f) ==
    /\ report[f] = "NONE"
    /\ report' = [report EXCEPT ![f] = "FAILED"]
    /\ UNCHANGED <<done, stopped>>

Next ==
    \E f \in Flows :
        \/ CompleteStep(f)
        \/ FailStep(f)
        \/ ReportSuccess(f)
        \/ ReportFailed(f)

Spec == Init /\ [][Next]_vars
=============================================================================
