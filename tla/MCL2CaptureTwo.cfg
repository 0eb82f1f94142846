SPECIFICATION FairSpec
CONSTANTS
    Symbols = {btc, eth}
    QueueCapacity = 2
    CheckpointInterval = 1
    AttemptLimit = 1
    MaxConnections = 1
    MaxTrades = 0
    MaxMalformed = 1
    MaxId = 3
    MaxBuffered = 1
    Unsound = {}
    MaxHistory = 1
    Horizon = 1
    InterruptsInside = TRUE
INVARIANTS
    CompleteMeansNothingLost
PROPERTIES
    CaptureEnds
CHECK_DEADLOCK FALSE
