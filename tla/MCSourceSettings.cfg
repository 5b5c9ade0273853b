SPECIFICATION Spec
CONSTANTS
    CodecBuffers = {c1, c2}
    kRepeatLastFrameCount = 1
    MaxAcquired = 3
    MaxDequeued = 2
    kMaxJitterUs = 0
    UnitsPerSecond = 4
    FrameTimes <- TimesBack3
    RepeatDelays = {1}
    MaxFpsArgs = {2}
    StartTimes = {}
    ActionTimes <- TwoOrThree
    MaxActions = 2
    MaxSessions = 1
    SubmitMayFail = FALSE
INVARIANTS
    EosIsLast
    ActionQueueOrdered
PROPERTIES
    StreamInOrder
    ActionsRespected
CHECK_DEADLOCK FALSE
