SPECIFICATION Spec
CONSTANTS
    j1 = j1
    j2 = j2
    j3 = j3
    p1 = p1
    Cron = cron
    Jobs <- WithUnmetered
    Metered <- TwoJobs
    Pollers <- OnePoller
    RunsAllowed = 1
    SpendCap = 1
    EnqWindow = 1
    ProcWindow = 2
    JobTimeout = 1
    MaxTries = 2
    WorkerSlots = 1
    PushOutcomes <- AllPushes
    Faults <- AllFaults
    MaxFaults = 1
    MaxMonth = 2
CONSTRAINT UnmeteredApart
SYMMETRY JobSymmetry
INVARIANTS
    RefundedAtMostOnce
    DeliveredIsCharged
    FailureIsRefunded
    CounterFollowsRuns
