SPECIFICATION Spec
CONSTANTS
    p = p
    q = q
    r = r
    Requests = {p, q}
    Threads = {1, 2}
    ThreadOf <- TwoThreads
    SideOf <- BothSides
    MaxResponses = 2
INVARIANTS
    OwnResponse
CHECK_DEADLOCK FALSE
