\* Every definition of up to three steps, repeated steps and orders included; two
\* orchestrate calls, of which one is followed through the loops.
CONSTANTS
    collect = collect
    load = load
    c1 = c1
    c2 = c2
    None = None
    StepNames = {collect, load}
    Orders = {0, 1}
    MaxSteps = 3
    Callers = {c1, c2}
    Flow = c1
SPECIFICATION Spec
INVARIANTS TreeIsChainOfSteps WaitsForEveryStep NotFoundMeansAbsent
PROPERTIES RunsTheDefinition
CHECK_DEADLOCK FALSE
