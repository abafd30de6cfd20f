SPECIFICATION Spec
CONSTANTS
    Messages <- MCMessages
    Tokens <- MCTokens
    NewFields <- MCNewFields
    Charsets = {"iso-8859-1"}
    MaxPrepends = 1
INVARIANTS
    SplitRight
    TreeReadBack
    PartsDecode
    CutTold
CHECK_DEADLOCK FALSE
