SPECIFICATION FairSpec
CONSTANTS
    QueueCapacity = 2
    WriteBatchSize = 2
    MaxArrivals = 5
    MaxConnections = 1
    MaxSessions = 2
    NoFile = NoFile
    MaxHistory = 1
    Horizon = 1
INVARIANTS SegmentsHoldNoGap ReaderAgrees OnlineMatchesOffline
PROPERTY StopReturns
CHECK_DEADLOCK FALSE
