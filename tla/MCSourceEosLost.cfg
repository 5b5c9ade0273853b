SPECIFICATION FairSpec
CONSTANTS
    CodecBuffers = {c1, c2}
    kRepeatLastFrameCount = 2
    MaxAcquired = 2
    MaxDequeued = 2
    kMaxJitterUs = 0
    UnitsPerSecond = 4
    FrameTimes <- TimesDense4
    RepeatDelays = {}
    MaxFpsArgs = {1}
    StartTimes = {}
    ActionTimes = {}
    MaxActions = 0
    MaxSessions = 1
    SubmitMayFail = FALSE
PROPERTIES
    EosReachesComponent
CHECK_DEADLOCK FALSE
