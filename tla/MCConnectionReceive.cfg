SPECIFICATION FairSpec
CONSTANTS
    a = a
    b = b
    c = c
    Packages <- MCPackages
    HeaderLength = 2
    BodyLength <- MCBodyLength
    Uid <- MCUid
    MaxStreams = 2
INVARIANTS
    TypeOK
    DeliveredIntact
PROPERTIES
    EndIsSignalled
    ArrivedIsDelivered
CHECK_DEADLOCK FALSE
