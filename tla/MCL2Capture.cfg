SPECIFICATION Spec
CONSTANTS
    Symbols = {btc}
    QueueCapacity = 2
    CheckpointInterval = 2
    AttemptLimit = 2
    MaxConnections = 2
    MaxTrades = 1
    MaxMalformed = 0
    MaxId = 5
    MaxBuffered = 2
    Unsound = {5}
    MaxHistory = 1
    Horizon = 1
    InterruptsInside = FALSE
INVARIANTS
    TypeOK
    RecordingIsLiveBook
    RowsAreContinuous
    CheckpointsHold
    LoopSettles
CHECK_DEADLOCK FALSE
