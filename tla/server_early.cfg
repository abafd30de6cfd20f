SPECIFICATION FairSpec
CONSTANTS
    Conns = {c1}
    Callers = {k1}
    MaxStarts = 1
    MaxFaults = 0
PROPERTY ShutdownEndsServing
CHECK_DEADLOCK FALSE
