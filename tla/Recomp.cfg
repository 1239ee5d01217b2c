SPECIFICATION Spec
CONSTANTS
    Procs = {p1, p2}
    Nobody = Nobody
    Orphan = Orphan
    MaxRaw = 3
    Kinds = {"full", "partial"}
    MayCrash = {p1, p2}
    Punctual = {p1, p2}
    LeaseTTL = 1
    Reminder = TRUE
SYMMETRY Symmetry
INVARIANTS RecompContiguous PromotedIsCandidate
PROPERTIES PartialPreserves PartialKeepsCoverage
