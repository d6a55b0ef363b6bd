\* A delete closes the connection a handler is using.
SPECIFICATION Spec
CONSTANTS
    t1 = t1
    t2 = t2
    s1 = s1
    s2 = s2
    None = None
    Threads <- TwoThreads
    Ids <- OneId
    TTL = 1
    MaxTime = 1
    MaxRequests = 2
INVARIANTS
    ClosedUnderLock
