SPECIFICATION FairSpec
CONSTANTS
    sync = sync
    queued = queued
    w1 = w1
    w2 = w2
    Never = Never
    Runs <- BothRuns
    Queued <- OneQueued
    Watchdogs <- OneWatchdog
    MaxTries = 2
    StaleAfter = 2
    StartupStale = 1
    Ceiling = 1
    ListLimit = 1
    Faults <- AllFaults
    MaxFaults = 1
INVARIANTS LiveRunIsNotReaped ExecutorHasLastWord ChargedForResults
PROPERTIES EveryRunEnds
