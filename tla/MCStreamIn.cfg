SPECIFICATION FairSpec
CONSTANTS
    MaxSamples = 4
    QueueSize = 2
    MaxRequest = 3
    MaxQueries = 1
    ReadMayFail = TRUE
INVARIANTS
    OneReplyPerCommand
PROPERTIES
    SamplesTransferred
    CommandsAnswered
    DestructionEnds
CHECK_DEADLOCK FALSE
