SPECIFICATION Spec
CONSTANTS
    CodecBuffers = {c1, c2}
    kRepeatLastFrameCount = 1
    MaxAcquired = 1
    MaxDequeued = 2
    kMaxJitterUs = 0
    UnitsPerSecond = 4
    FrameTimes <- Times3
    RepeatDelays = {1}
    MaxFpsArgs = {}
    StartTimes = {2}
    ActionTimes <- NowAndTwo
    MaxActions = 1
    MaxSessions = 2
    SubmitMayFail = TRUE
INVARIANTS
    CodecBuffersConserved
    QueueAccounted
CHECK_DEADLOCK FALSE
