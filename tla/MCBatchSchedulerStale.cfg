\* Requests on two definitions, no restart.
CONSTANTS
    c1 = c1
    c2 = c2
    c3 = c3
    c4 = c4
    Calls <- ThreeCalls
    Boot = Boot
    NoCall = NoCall
    Defs = {1, 2}
    NoDef = NoDef
    Names <- MCNames
    DefName <- TwoDefNames
    BadCron = {}
    MaxCrashes = 0
SPECIFICATION Spec
SYMMETRY CallSymmetry
INVARIANT NoStaleSchedule
CHECK_DEADLOCK FALSE
