SPECIFICATION FairSpec
CONSTANTS
    j1 = j1
    j2 = j2
    j3 = j3
    p1 = p1
    Cron = cron
    Jobs <- TwoJobs
    Metered <- TwoJobs
    Pollers <- NoPoller
    RunsAllowed = 1
    SpendCap = 1
    EnqWindow = 1
    ProcWindow = 2
    JobTimeout = 1
    MaxTries = 2
    WorkerSlots = 1
    PushOutcomes <- CleanPushes
    Faults <- NoRequestFaults
    MaxFaults = 2
    MaxMonth = 2
PROPERTIES
    EveryBookingSettles
    ImplementsLedger
