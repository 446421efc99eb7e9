\* Two problems, two syncs on two processes, one fault; the other account is
\* planned with a count of three; its handle, which a request may name as well,
\* belongs to somebody who solved p2 and failed at p1.
CONSTANTS
    p1 = p1
    p2 = p2
    t1 = t1
    t2 = t2
    Own = Own
    Other = Other
    NoCount = NoCount
    Problems = {p1, p2}
    Firings = {t1, t2}
    Late = {p1}
    Hard = {p1}
    Requests = {t2}
    Workers = 2
    OtherCount = 3
    OtherSolves = {p2}
    OtherFails = {p1}
    MaxFaults = 1
SPECIFICATION FairSpec
INVARIANTS TypeOK StatesAreTrue CountedIsRecorded
PROPERTIES RowsAreFinal SolvedIsRecorded
CHECK_DEADLOCK FALSE
