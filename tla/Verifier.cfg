\* A site is verified and then crawled, or crawled at once.
CONSTANTS
    Urls <- MCUrls
    HostOf <- MCHostOf
    Sites <- MCSites
    MinGap = 1
    MaxGap = 1
    MaxRetries = 1
    MaxRedirects = 1
    MaxItems = 3
    Sample = 2
SPECIFICATION VerifySpec
\* A verification or a run is over once and for all.
CHECK_DEADLOCK FALSE
INVARIANTS
    TypeOK
    CleanRunIsComplete
    PassingIsEvidenced
    
PROPERTIES
    AttemptsArePaced
    StreamSpec
    VerificationEnds
