SPECIFICATION Spec
CONSTANTS
    Names <- MCNames
    Messages <- MCMessages
    MaxAdded = 2
INVARIANTS
    WritesDoNotMatter
    VerifierHashesTheSame
CHECK_DEADLOCK FALSE
