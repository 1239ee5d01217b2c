SPECIFICATION FairSpec
CONSTANTS
    Depth = 1
    Arena = 4
    PageSize = 2
    MaxLeases = 1
    Sizes = {1}
    MaxFrames = 2
    Blocking = TRUE
    Nested = FALSE
    Fails = TRUE
INVARIANTS ParkedIsCalled
PROPERTIES ParkedIsWoken
CHECK_DEADLOCK FALSE
