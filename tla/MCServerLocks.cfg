SPECIFICATION FairSpec
CONSTANTS
    Connections = {1, 2}
    Workers = {w}
    Users = {u}
    UserMay <- MCUserMay
    MaxPackages = 1
    MaxCalls = 2
    Free = Free
INVARIANTS
    TypeOK
    NoCircularWait
    IdleHoldsNothing
PROPERTIES
    EverythingReturns
CHECK_DEADLOCK FALSE
