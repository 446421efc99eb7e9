\* Plans of two out of four numbers: one excluded, one impossible to collect,
\* two rows of another source; two firings, one of which
\* may give way to a request, two processes, one fault.
CONSTANTS
    t1 = t1
    t2 = t2
    MinNo = 10
    EndNo = 14
    TargetCount = 2
    Excluded = {11}
    Firings = {t1, t2}
    Requests = {t2}
    Asked = {12}
    Loaded = {10, 12, 13}
    Workers = 2
    Foreign <- MCForeign
    Poison = {10}
    MaxCopies = 2
    MaxFaults = 1
SPECIFICATION FairSpec
INVARIANTS TypeOK PlansSmallestMissing OneCopyOfEach WholeUnlessHurt
PROPERTY EveryProblemIsCollected
