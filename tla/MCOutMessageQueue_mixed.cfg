\* A transactional call, an Authorize and a call result.
CONSTANTS
    start = start  meter1 = meter1  meter2 = meter2  auth1 = auth1  result = result
    Msg = {start, auth1, result}
    Call = {start, auth1}
    Transactional = {start}
    Authorize = {auth1}
    Replacing = {}
    Action <- MCAction
    MaxRetries = 1
    MaxWaitReplyRetries = 1
SPECIFICATION Spec
INVARIANTS
    TypeOK
    HeadPresent
    HeldExactlyOnce
    TimerArmed
    NoStall
    FullRetryBudget
CHECK_DEADLOCK FALSE
