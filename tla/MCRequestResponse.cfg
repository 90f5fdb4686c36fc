SPECIFICATION FairSpec
CONSTANTS
    p = p
    q = q
    r = r
    Requests = {p, q, r}
    Threads = {1}
    ThreadOf <- OneThread
    SideOf <- ClientOnly
    MaxResponses = 3
INVARIANTS
    TypeOK
    OwnResponse
    CalledOnce
PROPERTIES
    ResponseReachesCallback
CHECK_DEADLOCK FALSE
