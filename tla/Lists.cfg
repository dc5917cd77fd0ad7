CONSTANTS
    None = None
    Members = {p1, p2}
    MaxRows = 2
    MaxAmount = 2
    Workers = {w1, w2}
    MaxAdds = 3
    MaxTimes = 2
    MaxFaults = 2
SPECIFICATION ListsSpec
INVARIANTS
    ListsSafety
PROPERTIES
    RowsAreKept
    EventuallyTold
    DueIsSent
CHECK_DEADLOCK FALSE
