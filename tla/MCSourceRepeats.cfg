SPECIFICATION FairSpec
CONSTANTS
    CodecBuffers = {c1, c2}
    kRepeatLastFrameCount = 2
    MaxAcquired = 2
    MaxDequeued = 2
    kMaxJitterUs = 0
    UnitsPerSecond = 4
    FrameTimes <- TimesApart3
    RepeatDelays = {1}
    MaxFpsArgs = {}
    StartTimes = {}
    ActionTimes = {}
    MaxActions = 0
    MaxSessions = 2
    SubmitMayFail = FALSE
INVARIANTS
    SingleRepeatChain
    NoHandlerAfterRelease
    WorkConserved
PROPERTIES
    EncoderFed
    ReleaseTerminates
    EosReachesComponent
CHECK_DEADLOCK FALSE
