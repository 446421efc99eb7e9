\* One flow of two steps, two processes, locks that may be lost at any time,
\* and a crash.
CONSTANTS
    f1 = f1
    f2 = f2
    p1 = p1
    p2 = p2
    NoProc = NoProc
    Flows <- OneFlow
    Procs <- TwoProcs
    StepNames <- TwoNames
    Registered <- TwoNames
    StepList <- TwoSteps
    MaxStalledCount = 1
    LocksMayExpire = TRUE
    MaxCrashes = 1
SPECIFICATION Spec
SYMMETRY ProcSymmetry
INVARIANTS TypeOK ChainInOrder FailedStepStopsFlow FirstAttemptGetsPreviousResult AttemptsBounded
PROPERTY ImplementsLinearFlow
CHECK_DEADLOCK FALSE
