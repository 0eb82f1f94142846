SPECIFICATION Spec
CONSTANTS
    Symbols = {btc}
    QueueCapacity = 2
    CheckpointInterval = 2
    AttemptLimit = 2
    MaxConnections = 2
    MaxTrades = 1
    MaxMalformed = 1
    MaxId = 4
    MaxBuffered = 2
    Unsound = {3}
    MaxHistory = 1
    Horizon = 1
    InterruptsInside = FALSE
INVARIANT
    CompleteRecordingVerifies
CHECK_DEADLOCK FALSE
