SPECIFICATION Spec
CONSTANTS
    Policies <- MCPerConnection
    Secure = FALSE
    MaxClients = 2
    MaxStarts = 1
INVARIANTS
    ClosedIsSignalled
CHECK_DEADLOCK FALSE
