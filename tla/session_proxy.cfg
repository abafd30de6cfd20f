SPECIFICATION Spec
CONSTANTS
    TLSMode = "always"
    XClientOn = TRUE
    ProxyOn = TRUE
    MaxRecipients = 1
    MaxUnrecognizedCommands = 2
    Addrs = {a1}
    NoAddr = NoAddr
    Hosts = {h1}
    NoHost = NoHost
    Peers = {p1, p2}
    Client = p1
    MaxMessages = 1
    MaxErrors = 3
    MaxLayers = 1
INVARIANTS
    EnvelopeTellsPeer
    AcksMatch
    UnrecognizedBounded
PROPERTIES
    LifecycleImplemented
CHECK_DEADLOCK FALSE
