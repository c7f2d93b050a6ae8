SPECIFICATION Spec
CONSTANTS
    Ids = {1, 2, 3}
    Requests = {q1, q2}
    Items <- MCItems
    PageSize = 1
    Ttl = 720
    Start <- MCStart
    Tick = 720
    MaxNow <- MCEnd
    MaxWrites = 3
CHECK_DEADLOCK FALSE
INVARIANTS
    QuietWalksAreExact
    StatisticsAreRecent
