CONSTANTS
    MinimumPartitionRows = 2
    MinimumRows = 4
    Warmup = 1
    Markets <- MCMarkets
    Followed <- MCFollowed
    Selections <- MCSelections
    Names = {1, 2}
    Horizons = {1, 2}
    MaxTrainings = 3
    MaxFailures = 2
SPECIFICATION Spec
INVARIANTS TypeOK EvaluationIsForward TradesDoNotOverlap ReportsAreUsable HoldoutRemembered
PROPERTY RollbackRestores
CHECK_DEADLOCK FALSE
