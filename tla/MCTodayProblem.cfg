\* Two days are in sight and a midnight passes; problems are barred from two days
\* around.  b1 or b3 is drawn as a pair with b2, the other one is left for another
\* day, alone: a1, the only problem of the group before them, is barred by then.
CONSTANTS
    t1 = t1
    t2 = t2
    a1 = a1
    b1 = b1
    b2 = b2
    b3 = b3
    Problems = {a1, b1, b2, b3}
    Level <- MCLevel
    TypeList <- MCTypeList
    Handler <- MCHandler
    Horizon = 1
    MaxDays = 2
    PairIndex = 1
    Firings = {t1, t2}
    Requests = {t2}
    Asked <- MCAsked
    Workers = 2
    LastDay = 1
    MaxFaults = 1
SPECIFICATION FairSpec
INVARIANTS TypeOK NoRepeats
PROPERTIES FilledOnce NoDayStaysEmpty
CHECK_DEADLOCK FALSE
