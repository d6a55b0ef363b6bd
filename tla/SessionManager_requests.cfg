\* Two threads, two sessions, two requests each, on both sides of one TTL.
SPECIFICATION FairSpec
CONSTANTS
    t1 = t1
    t2 = t2
    s1 = s1
    s2 = s2
    None = None
    Threads <- TwoThreads
    Ids <- TwoIds
    TTL = 1
    MaxTime = 2
    MaxRequests = 2
INVARIANTS
    RegisteredIsOpen
    ClosedByOne
    ConnUseExclusive
    GoneStaysGone
PROPERTIES
    NoEarlyEviction
    LifecycleRefined
    RequestsAnswered
    RemovedIsClosed
