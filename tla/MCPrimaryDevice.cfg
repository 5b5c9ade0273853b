SPECIFICATION FairPrimarySpec
CONSTANTS
    Threads = {t1}
    Streams = {s1, s2}
    Handles = {h1, h2}
    NoStream = NoStream
    MaxModes = 2
    MaxChanges = 2
INVARIANTS
    CountExact
    HandlesMatch
    InCallIsActive
PROPERTIES
    SetModeReturns
CHECK_DEADLOCK FALSE
