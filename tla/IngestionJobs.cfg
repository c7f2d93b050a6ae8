\* Two overlapping ticks, two rows and messages, two tries each, two slots.
CONSTANTS
    JobIds = {j1, j2}
    Sources = {s1, s2}
    Ticks = {t1, t2}
    MaxTries = 2
    MaxJobs = 2
    Limit = 2
    NoSource = none
SPECIFICATION Spec
SYMMETRY Symmetry
INVARIANTS
    TypeOK
    QueuedRowsHaveMessage
    RecordMatchesQueue
    AttemptsNeverOvercount
PROPERTIES
    SettledRowsStaySettled
    LedgerSpec
