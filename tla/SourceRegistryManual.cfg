\* One source; an operator and a manual batch overlap freely.
CONSTANTS
    Sources = {s1}
    Workers = {}
    Operators = {o1}
    Batches = {b1}
    Targets = {"ACTIVE", "PAUSED"}
    Priority <- MCPriority
    Limit = 1
    FailingAt = 2
    OfflineAt = 3
    MaxFailures = 2
    MaxAge = 1
    NoSource = none
SPECIFICATION Spec
INVARIANT ActiveWasVerified
PROPERTY RunsReportHealth
