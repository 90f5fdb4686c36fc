SPECIFICATION FairSpec
CONSTANTS
    Policies <- MCPolicies
    Secure = TRUE
    MaxClients = 2
    MaxStarts = 1
INVARIANTS
    TypeOK
    OneThreadSignals
    EndedLeavesList
    ConnectedComesFirst
    KeepsListening
    ThreadPerConnection
PROPERTIES
    NextClientIsConnected
    StopEndsThreads
CHECK_DEADLOCK FALSE
