SPECIFICATION FairSpec
CONSTANTS
    pipe = pipe
    plan = plan
    p1 = p1
    Cron = cron
    Jobs <- BothKinds
    PlanJobs <- OnePlan
    Exempt <- OnePlan
    Pollers <- OnePoller
    Pushes <- AllPushes
    Faults <- AllFaults
    Steps = 2
    RunsAllowed = 2
    MaxTries = 2
    MaxRequests = 1
    MaxFaults = 2
INVARIANTS
    CountersTrackBookings
    FailedIsNotBilled
    CompletedBillsDeliveries
PROPERTIES
    EveryCompositeEnds
