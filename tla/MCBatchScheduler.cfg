\* Three overlapping requests on four definitions, a restart at any time.
CONSTANTS
    c1 = c1
    c2 = c2
    c3 = c3
    c4 = c4
    Calls <- ThreeCalls
    Boot = Boot
    NoCall = NoCall
    Defs = {1, 2, 3, 4}
    NoDef = NoDef
    Names <- MCNames
    DefName <- MCDefName
    BadCron = {4}
    MaxCrashes = 1
SPECIFICATION Spec
SYMMETRY CallSymmetry
INVARIANTS TypeOK NoMissedSchedule BootFailsOnlyOnPoison
CHECK_DEADLOCK FALSE
