SPECIFICATION FairSpec
CONSTANTS
    Owner = owner
    Others = {other}
    NoThread = NoThread
    Capacity = 2
    BatchSize = 2
    Files <- MCFiles
    MaxSessions = 2
    MaxMessages = 2
    MaxReconnects = 1
    MaxCalls = 1
INVARIANTS CopiesStayValid ReplayIsLossless EndIsHonest
PROPERTY CallsReturn
CHECK_DEADLOCK FALSE
