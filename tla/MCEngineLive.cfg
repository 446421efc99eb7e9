\* A flow of two steps beside a flow of one, one process (the deployment
\* README.md describes) that may crash.
CONSTANTS
    f1 = f1
    f2 = f2
    p1 = p1
    p2 = p2
    NoProc = NoProc
    Flows <- TwoFlows
    Procs = {p1}
    StepNames <- BatchNames
    Registered <- BatchNames
    StepList <- TwoBatches
    MaxStalledCount = 1
    LocksMayExpire = FALSE
    MaxCrashes = 1
SPECIFICATION FairSpec
PROPERTIES EveryCallSettles EveryFlowEnds
CHECK_DEADLOCK FALSE
