CONSTANTS
    MinimumPartitionRows = 2
    MinimumRows = 4
    Warmup = 1
    Markets <- MCFollowed
    Followed <- MCFollowed
    Selections <- MCSelections
    Names = {1, 2}
    Horizons = {1, 2}
    MaxTrainings = 2
    MaxFailures = 1
SPECIFICATION Spec
INVARIANT ReportsAreWhole
CHECK_DEADLOCK FALSE
