SPECIFICATION FairSpec
CONSTANTS
    p1 = p1
    p2 = p2
    Procs = {p1, p2}
    Transforming = {p1}
    Rendering = {p1}
    MayCrash = {p1}
    MayFail = {}
    MaxMessage = 3
    Users <- UserMessages
    Reverts = FALSE
    Shorter = FALSE
    Forked = TRUE
PROPERTIES PendingIsSettled FirstMissIsRepaired
