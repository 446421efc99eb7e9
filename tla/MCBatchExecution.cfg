\* One firing with a plan of up to two items, flows of two steps, a crash.
CONSTANTS
    t1 = t1
    Firings = {t1}
    MaxPlan = 2
    FlowLength = 2
    MaxCrashes = 1
SPECIFICATION FairSpec
INVARIANTS TypeOK SuccessMeansAllStepsDone PlanStartsAsAWhole
PROPERTIES FailedIsFinal EveryRunSettles
CHECK_DEADLOCK FALSE
