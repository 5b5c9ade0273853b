SPECIFICATION Spec
CONSTANTS
    Slots = {s1, s2}
    MaxFrames = 4
    MaxFrees = 2
    MaxFences = 3
INVARIANTS
    OutstandingExact
    CacheCoherent
PROPERTIES
    FencesReturned
SYMMETRY Symmetry
CHECK_DEADLOCK FALSE
