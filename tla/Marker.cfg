SPECIFICATION Spec
CONSTANTS
    p1 = p1
    p2 = p2
    Procs = {p1}
    Transforming = {p1}
    Rendering = {}
    MayCrash = {p1}
    MayFail = {p1}
    MaxMessage = 3
    Users <- UserMessages
    Reverts = TRUE
    Shorter = FALSE
    Forked = FALSE
INVARIANTS OneLineagePerBoundary HiddenIsSummarised
PROPERTIES PendingNotLost
