\* One source; two workers and an operator overlap freely; the code's thresholds.
CONSTANTS
    Sources = {s1}
    Workers = {w1, w2}
    Operators = {o1}
    Batches = {}
    Targets = {"ACTIVE", "PAUSED"}
    Priority <- MCPriority
    Limit = 1
    FailingAt = 4
    OfflineAt = 10
    MaxFailures = 10
    MaxAge = 2
    NoSource = none
SPECIFICATION Spec
SYMMETRY Symmetry
INVARIANTS
    TypeOK
    ActiveWasVerified
PROPERTIES
    RunsReportHealth
    OrdersTakeEffect
