SPECIFICATION Spec
CONSTANTS
    CodecBuffers = {c1, c2}
    kRepeatLastFrameCount = 2
    MaxAcquired = 2
    MaxDequeued = 3
    kMaxJitterUs = 0
    UnitsPerSecond = 4
    FrameTimes <- Times4
    RepeatDelays = {1}
    MaxFpsArgs = {}
    StartTimes = {}
    ActionTimes = {3}
    MaxActions = 1
    MaxSessions = 1
    SubmitMayFail = FALSE
INVARIANTS
    NeverAborts
CHECK_DEADLOCK FALSE
