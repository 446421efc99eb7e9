\* One flow of three steps, two processes, two crashes; locks are held as long
\* as their process lives.
CONSTANTS
    f1 = f1
    f2 = f2
    p1 = p1
    p2 = p2
    NoProc = NoProc
    Flows <- OneFlow
    Procs <- TwoProcs
    StepNames <- ThreeNames
    Registered <- ThreeNames
    StepList <- ThreeSteps
    MaxStalledCount = 1
    LocksMayExpire = FALSE
    MaxCrashes = 2
SPECIFICATION Spec
SYMMETRY ProcSymmetry
INVARIANTS OneAttemptAtATime CompletedMeansPersisted
PROPERTY FinishedRowsFrozen
CHECK_DEADLOCK FALSE
