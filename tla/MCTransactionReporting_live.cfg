SPECIFICATION TimelyBoundedSpec
CHECK_DEADLOCK FALSE
CONSTANTS
    s1 = s1
    s2 = s2
    s3 = s3
    Session = {s1, s2, s3}
    NoTag = NoTag
    NoSession = NoSession
    IdTag <- OneUntagged
    MaxTrans = 2
    MaxMeterVals = 1
    MaxPending = 1
    MaxRestarts = 1
PROPERTIES
    OldestReported
