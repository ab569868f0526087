SPECIFICATION Spec
CONSTANTS
    s1 = s1
    s2 = s2
    Session = {s1, s2}
    NoSession = NoSession
    NotWhole = NotWhole
    MaxClock = 3
    MaxOutages = 2
SYMMETRY SessionSymmetry
INVARIANTS
    TypeOK
    NewestIsRead
    ResumedOnce
CHECK_DEADLOCK FALSE
