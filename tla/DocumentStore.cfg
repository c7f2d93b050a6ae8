\* Two overlapping batches over two documents of partly the same bytes, one
\* of which the database refuses for d2; one batch dies.
CONSTANTS
    d1 = d1
    d2 = d2
    c1 = c1
    c2 = c2
    None = None
    Documents = {d1, d2}
    Batches = {b1, b2}
    Contents = {c1, c2}
    Site <- MCSite
    Rank <- MCRank
    Key <- MCKey
    Limit = 2
    Failures = {"transient"}
    Refused <- MCRefused
    MaxLosses = 1
SPECIFICATION FairSpec
INVARIANTS
    TypeOK
    RecordsNameVersions
    BlobsAreWhole
PROPERTY BacklogDrains
