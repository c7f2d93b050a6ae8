SPECIFICATION Spec
CONSTANTS
    MaxTime = 1
    MaxEntries = 1
    Replicas = {r1}
    Callers = {c1}
    Keys = {k1, k2}
    Presented = {k1}
    Operators = {o1}
    NoKey = NoKey
    Redis = Redis
    Areas <- MCAreas
    Grants <- MCGrants
    Buckets <- MCBuckets
    Budget <- MCBudget
CHECK_DEADLOCK FALSE
INVARIANTS
    TypeOK
    GrantsWithinBudget
    FallbackIsBounded
    NoServiceAfterRevocation
    OneChargePerRequest
    RotationIsAtomic
PROPERTY RevokedIsForever
