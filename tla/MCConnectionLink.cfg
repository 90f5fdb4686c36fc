SPECIFICATION FairSpec
CONSTANTS
    a = a
    b = b
    Packages <- MCPackages
    HeaderLength = 1
    BodyLength <- MCBodyLength
    Uid <- MCUid
    MaxStreams = 0
    NoHolder = NoHolder
PROPERTIES
    ImplementsChannel
    CloseReachesReceiver
CHECK_DEADLOCK FALSE
