SPECIFICATION FairSpec
CONSTANTS
    a = a
    b = b
    c = c
    Packages <- MCPackages
    FrameLength <- MCFrameLength
    NoHolder = NoHolder
INVARIANTS
    TypeOK
    OneWriteInFlight
    NothingLost
    QueueIsDrained
    FramesContiguous
    AtMostOneError
PROPERTIES
    SilentAfterFailure
    ImplementsChannel
CHECK_DEADLOCK FALSE
