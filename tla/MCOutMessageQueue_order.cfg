\* Three transactional calls, two of which may replace each other.
CONSTANTS
    start = start  meter1 = meter1  meter2 = meter2  auth1 = auth1  result = result
    Msg = {start, meter1, meter2}
    Call = {start, meter1, meter2}
    Transactional = {start, meter1, meter2}
    Authorize = {}
    Replacing = {meter1, meter2}
    Action <- MCAction
    MaxRetries = 1
    MaxWaitReplyRetries = 1
SPECIFICATION FairSpec
PROPERTIES
    ImplementsOutbox
    EventuallyDelivered
CHECK_DEADLOCK FALSE
