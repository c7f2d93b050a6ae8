SPECIFICATION Spec
CONSTANTS
    Ids = {1, 2}
    Requests = {q1, q2}
    Items <- MCDates
    PageSize = 1
    Ttl = 720
    Start <- MCStart
    Tick = 720
    MaxNow <- MCEnd
    MaxWrites = 2
CHECK_DEADLOCK FALSE
INVARIANT ClosingDaysAreKept
