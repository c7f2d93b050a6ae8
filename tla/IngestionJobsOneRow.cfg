\* One job, two slots: the tick and the worker it feeds run side by side.
CONSTANTS
    JobIds = {j1}
    Sources = {s1}
    Ticks = {t1}
    MaxTries = 2
    MaxJobs = 2
    Limit = 1
    NoSource = none
SPECIFICATION Spec
INVARIANT OneRowPerMessage
