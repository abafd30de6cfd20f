SPECIFICATION Spec
CONSTANTS
    TLSMode = "starttls"
    XClientOn = FALSE
    ProxyOn = FALSE
    MaxRecipients = 1
    MaxUnrecognizedCommands = 2
    Addrs = {a1}
    NoAddr = NoAddr
    Hosts = {}
    NoHost = NoHost
    Peers = {p1}
    Client = p1
    MaxMessages = 1
    MaxErrors = 2
    MaxLayers = 1
INVARIANTS
    TLSFlagTrue
CHECK_DEADLOCK FALSE
