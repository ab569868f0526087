SPECIFICATION Spec
SYMMETRY TagSymmetry
CONSTRAINT Followed
CONSTANTS
    Tag = {a, b}
    NoTag = NoTag
    Unknown = Unknown
    Status = {"Accepted", "ConcurrentTx", "Expired"}
    MaxCacheEntries = 1
    AuthStop = TRUE
    MaxUnderWay = 2
INVARIANTS
    TypeOK
    CacheMatchesVerdict
    MessageClosedOnce
PROPERTY
    StartedByApproved
