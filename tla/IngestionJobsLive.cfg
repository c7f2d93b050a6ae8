\* One source and slot, two messages of two tries, under fairness; no symmetry.
CONSTANTS
    JobIds = {j1, j2}
    Sources = {s1}
    Ticks = {t1}
    MaxTries = 2
    MaxJobs = 1
    Limit = 1
    NoSource = none
SPECIFICATION FairSpec
PROPERTIES
    EveryMessageFinishes
    QueuedRowsAreTried
