SPECIFICATION Spec
CHECK_DEADLOCK FALSE
CONSTANTS
    s1 = s1
    s2 = s2
    Session = {s1, s2}
    NoTag = NoTag
    NoSession = NoSession
    IdTag <- OneUntagged
    MaxTrans = 3
    MaxMeterVals = 1
    MaxPending = 2
    MaxRestarts = 2
INVARIANTS
    TypeOK
    CursorRegistered
    ReportStage
    AwaitedCallInFlight
    FinishedOnFile
    StopMeansEnded
