SPECIFICATION SignSpec
CONSTANTS
    Options <- MCOptions
    MaxLines = 4
    MaxChunk = 2
    MaxCloses = 3
    MaxEmptyReads = 2
INVARIANTS
    SignatureCoversMessage
    CallsTruthful
    SignedOrNothing
PROPERTIES
    NoGoroutineLeft
    SignTerminates
CHECK_DEADLOCK FALSE
