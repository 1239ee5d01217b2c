SPECIFICATION FairSpec
CONSTANTS
    Procs = {p1, p2}
    Nobody = Nobody
    Orphan = Orphan
    MaxRaw = 2
    MayCrash = {p2}
    Wrappers = {p2}
    LeaseTTL = 1
    MarkerTTL = 2
    ProtectedTail = 0
    Slack = 0
    Punctual = {p1}
    ClockMayStepBack = FALSE
PROPERTIES WrapupsEnd EventuallyCompacted
CHECK_DEADLOCK FALSE
