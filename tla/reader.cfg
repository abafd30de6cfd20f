SPECIFICATION Spec
CONSTANTS
    MaxSize = 3
    BufSize = 2
    MaxSent = 6
    MaxLayers = 2
INVARIANTS
    LimitHolds
    TLSReadsTLS
PROPERTIES
    NothingLost
    ReadsOn
CHECK_DEADLOCK FALSE
