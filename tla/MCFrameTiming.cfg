SPECIFICATION TimingSpec
CONSTANTS
    kMaxJitterUs = 1
    UnitsPerSecond = 12
    MaxFrameRates <- MCRates
    FrameTimes <- MCFrameTimes
    MaxKept = 4
    TimeLapseConfigs <- MCConfigs
    TimeOffsets <- MCOffsets
    TimestampFluctuation = 5
INVARIANTS
    RateBound
    AverageRate
    TimesAdvance
    SnappedToGrid
CHECK_DEADLOCK FALSE
