\* One flow of three steps on one process that crashes once.
CONSTANTS
    f1 = f1
    f2 = f2
    p1 = p1
    p2 = p2
    NoProc = NoProc
    Flows <- OneFlow
    Procs = {p1}
    StepNames <- ThreeNames
    Registered <- ThreeNames
    StepList <- ThreeSteps
    MaxStalledCount = 1
    LocksMayExpire = FALSE
    MaxCrashes = 1
SPECIFICATION Spec
INVARIANT LaterStepGetsPreviousResult
CHECK_DEADLOCK FALSE
