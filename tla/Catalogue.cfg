\* Two overlapping runs of two items; two sources of one municipality and one
\* of none; two rows of two versions.
CONSTANTS
    s1 = s1
    s2 = s2
    s3 = s3
    m1 = m1
    None = None
    Ids = {o1, o2}
    Runs = {r1, r2}
    Sources = {s1, s2, s3}
    Muni <- MCMuni
    Records <- Records5
    NormRef <- MCNormRef
    Similarity <- MCSimilarity
    MaxItems = 2
    MaxVersion = 2
SPECIFICATION Spec
SYMMETRY Symmetry
INVARIANTS
    TypeOK
    HistoryIsComplete
    ReferenceMatchesNorm
PROPERTIES
    HistorySpec
    IssuersNeverMix
