SPECIFICATION Spec
CHECK_DEADLOCK FALSE
CONSTANTS
    s1 = s1
    s2 = s2
    Session = {s1, s2}
    NoTag = NoTag
    NoSession = NoSession
    IdTag <- OneUntagged
    MaxTrans = 2
    MaxMeterVals = 3
    MaxPending = 2
    MaxRestarts = 1
INVARIANTS
    NoLostWakeup
PROPERTIES
    MeterWithoutGap
