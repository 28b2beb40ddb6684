SPECIFICATION FairSpec
CONSTANTS
    c1 = c1
    c2 = c2
    Closers <- MCClosers
    Ports <- MCPorts
    LocalPort = 0
    defaultReconnectAttempts = 2
    MaxFaults = 5
INVARIANTS
    OneSession
PROPERTIES
    ImplementsTunnel
    CloseAlwaysReturns
    ComesBack
CHECK_DEADLOCK FALSE
