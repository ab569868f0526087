\* The settings of the first run.
SPECIFICATION Spec
CONSTANTS
    StopTransactionOnEVSideDisconnect = TRUE
    EnablePauseCharging = TRUE
    useSafeModeCurrentWhenOffline = FALSE
INVARIANTS
    CancelsActive
