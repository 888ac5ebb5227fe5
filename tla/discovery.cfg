SPECIFICATION FairSpec
CONSTANTS
    c1 = c1
    p1 = p1
    p2 = p2
    s1 = s1
    Cron = Cron
    Clicks <- OneClick
    Plans <- TwoPlans
    Sweeps <- OneSweep
    EnqWindow = 1
    ProcWindow = 2
    JobTimeout = 1
    MaxTries = 2
    MaxFaults = 1
INVARIANTS OnePassWithinWindow OnePlanWithinWindow
PROPERTIES StepsAreDispatchedOnce SlotIsFreed
CHECK_DEADLOCK FALSE
