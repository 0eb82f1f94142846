SPECIFICATION RingSpec
CONSTANTS
    Capacity = 2
    IndexRange = 4
    BatchSize = 3
    Value = {v1, v2, v3}
    Torn = Torn
INVARIANT NoDataRace
PROPERTY FifoSpec
