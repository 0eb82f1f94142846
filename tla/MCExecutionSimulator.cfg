SPECIFICATION Spec
CONSTANTS
    Orders <- MCOrders
    CancelTimes = {1, 2, 3}
    Latency = 1
    CancelLatency = 0
    QueueModel = "optimistic_depth"
    Unit = 1
    QueueAheadFraction = 1
    DepletionFraction = 1
    MaxPosition = 2
    LossLimit = 3
    Horizons = {1}
    Prices <- MCPrices
    Books <- MCBooks
    Updates <- MCUpdates
    Trades <- MCTrades
    MaxTime = 3
    MaxEvents = 4
    MaxOrders = 2
    MaxCancels = 1
INVARIANTS
    TypeOK
    FillsAreTimely
    WithinLimits
    EveryOrderSettles
PROPERTIES
    OutcomesAreFinal
    NothingCrossesBoundary
CHECK_DEADLOCK FALSE
