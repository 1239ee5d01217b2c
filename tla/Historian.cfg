SPECIFICATION Spec
CONSTANTS
    Procs = {p1, p2}
    Nobody = Nobody
    Orphan = Orphan
    MaxRaw = 3
    MayCrash = {p1, p2}
    Wrappers = {p1}
    LeaseTTL = 1
    MarkerTTL = 1
    ProtectedTail = 1
    Slack = 0
    Punctual = {}
    ClockMayStepBack = TRUE
INVARIANTS TypeOK ContiguousHistory PublishIsFresh FloorTracksHistory TailProtected LeaseHasOwner MarkerHasOwner
PROPERTIES HistoryRefined WrapupOwnsPublication
CHECK_DEADLOCK FALSE
