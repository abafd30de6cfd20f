SPECIFICATION Spec
CONSTANTS
    Kinds <- MCKinds
    Limits <- MCLimits
    MaxSignatures = 3
    MaxBody = 2
INVARIANTS
    VerdictsDeserved
    NoGoroutineLeft
PROPERTIES
    VerifyReturns
CHECK_DEADLOCK FALSE
