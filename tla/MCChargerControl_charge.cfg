\* Every setting that lets more happen, without the safe-mode current (its default).
SPECIFICATION Spec
CONSTANTS
    StopTransactionOnEVSideDisconnect = TRUE
    EnablePauseCharging = TRUE
    useSafeModeCurrentWhenOffline = FALSE
INVARIANTS
    TypeOK
    ChargeIsRecorded
    UnavailableDoesNotCharge
    PauseCanBeLeft
