SPECIFICATION FairSpec
CONSTANTS
    HeartbeatTriggerCount = 1
    MaxLate = 1
INVARIANTS
    TypeOK
    StateFollowsSocket
    AnswerCounts
    FailureHasCause
PROPERTY
    KeepsConnecting
