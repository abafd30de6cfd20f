SPECIFICATION Spec
CONSTANTS
    TLSMode = "starttls"
    XClientOn = FALSE
    ProxyOn = FALSE
    MaxRecipients = 1
    MaxUnrecognizedCommands = 2
    Addrs = {a1}
    NoAddr = NoAddr
    Hosts = {}
    NoHost = NoHost
    Peers = {p1}
    Client = p1
    MaxMessages = 2
    MaxErrors = 1
    MaxLayers = 2
INVARIANTS
    DeliveredComplete
    ToldOverOneLayer
PROPERTIES
    DeliveredStable
    TransactionImplemented
CHECK_DEADLOCK FALSE
