SPECIFICATION Spec
CONSTANTS
    Sites = 2
    Threads = {t1, t2}
    t1 = t1
    t2 = t2
    ParameterLists <- Lists
    Flags = {"bt_wbs", "HACSetting"}
    MaxSets = 3
    PatchHandles = {1, 2}
    SinkLists <- Sinks
SYMMETRY Interchangeable
INVARIANTS
    NeverHalfPatched
    WidebandFollowsCodec
    ReadsBack
    SoundTurnsWithScreen
    PatchesMatch
CHECK_DEADLOCK FALSE
