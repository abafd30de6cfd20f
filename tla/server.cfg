SPECIFICATION FairSpec
CONSTANTS
    Conns = {c1, c2}
    Callers = {k1, k2}
    MaxStarts = 2
    MaxFaults = 1
INVARIANTS
    CountersMatch
    ShutdownNilMeansDrained
    StopIsFinal
PROPERTIES
    StopCompletes
    ClosesOnlyWhenDrained
    LifecycleImplemented
CHECK_DEADLOCK FALSE
