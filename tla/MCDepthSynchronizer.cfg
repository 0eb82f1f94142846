SPECIFICATION Spec
CONSTANTS
    MaxId = 5
    MaxBuffered = 3
    Unsound = {3}
INVARIANTS
    TypeOK
    BookIsExact
    LiveMeansDrained
PROPERTIES
    NoUpdateLost
    MirrorSpec
CHECK_DEADLOCK FALSE
