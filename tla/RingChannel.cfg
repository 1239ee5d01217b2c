SPECIFICATION Spec
CONSTANTS
    Depth = 2
    Arena = 4
    PageSize = 2
    MaxLeases = 2
    Sizes = {1, 3}
    MaxFrames = 4
    Blocking = FALSE
    Nested = FALSE
    Fails = TRUE
INVARIANTS SharedStateIsValid BytesConserved
PROPERTIES DeliversFrames
CHECK_DEADLOCK FALSE
