SPECIFICATION FairSpec
CONSTANTS
    t1 = t1
    t2 = t2
    t3 = t3
    Threads <- ThreeThreads
    MaxSize = 2
    MaxIdle = 1
    Depth <- FirstNests
    MaxConn = 5
INVARIANTS SlotsAreExact ConnectionsAreExclusive NoStrandedWaiter
PROPERTIES EveryAcquireEnds
