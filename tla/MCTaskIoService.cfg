SPECIFICATION Spec
CONSTANTS
    Ops = {accept, read, write}
    Descriptor <- MCDescriptor
    Kind <- MCKind
    Starts <- MCStarts
    Closes <- MCCloses
    Threads = {t1, t2, t3}
    User = user
    Free = Free
    Interrupter = interrupter
    accept = accept
    read = read
    write = write
    listener = listener
    socket = socket
SYMMETRY MCThreads
INVARIANTS
    TypeOK
    WorkIsCounted
    DequeuedBeforePoll
    NoLostWakeup
    NoLostEvent
PROPERTIES
    KeepsContract
CHECK_DEADLOCK FALSE
