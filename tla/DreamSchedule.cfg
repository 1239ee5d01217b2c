SPECIFICATION FairSpec
CONSTANTS
    Passes = {p1, p2}
    Disabling = {}
    NTasks = 1
    MaxRetries = 1
    MaxFaults = 2
    Faults = {"crash", "lapse"}
    Nobody = Nobody
    Orphan = Orphan
INVARIANTS RetriesBounded
PROPERTIES SlotNotWasted DueIsServed
