SPECIFICATION Spec
CONSTANTS
    Runs = {r1, r2, r3}
    Nobody = Nobody
    TTL = 2
    MaxBack = 1
    GroupSize = 2
    Fenced = {r1, r2}
INVARIANTS WriterIsCurrentOrTold
PROPERTIES OnlyNewestWrites
SYMMETRY RunSymmetry
