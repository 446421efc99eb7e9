\* One flow of three steps on one process without a crash.
CONSTANTS
    f1 = f1
    f2 = f2
    p1 = p1
    p2 = p2
    NoProc = NoProc
    Flows <- OneFlow
    Procs = {p1}
    StepNames <- ThreeNames
    Registered <- ThreeNames
    StepList <- ThreeSteps
    MaxStalledCount = 1
    LocksMayExpire = FALSE
    MaxCrashes = 0
SPECIFICATION Spec
INVARIANT FailedReportHasFailedStep
CHECK_DEADLOCK FALSE
