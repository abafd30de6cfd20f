SPECIFICATION Spec
CONSTANTS
    d1 = d1
    Domains = {d1, d2}
    Allowed <- MCAllowed
    MaxChain = 3
    MaxRcpts = 2
INVARIANTS
    HandlerSeesAllowed
    AcceptedIsHandled
    RecoverContains
    NewestOnTop
    NamedRecipientIsHandled
CHECK_DEADLOCK FALSE
