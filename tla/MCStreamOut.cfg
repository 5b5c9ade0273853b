SPECIFICATION FairSpec
CONSTANTS
    MaxSamples = 4
    QueueSize = 2
    MaxQueries = 2
    CallbackKinds = {"write"}
    WriteMayFail = TRUE
INVARIANTS
    OneReplyPerCommand
    OutlivesItsThreads
PROPERTIES
    SamplesTransferred
    CommandsAnswered
    DestructionEnds
CHECK_DEADLOCK FALSE
