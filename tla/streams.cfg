SPECIFICATION FairSpec
CONSTANTS
    r1 = r1
    r2 = r2
    r3 = r3
    d1 = d1
    u1 = u1
    u2 = u2
    u3 = u3
    a = a
    b = b
    RunStreams <- ThreeRunStreams
    WorkspaceStreams <- OneDashboard
    Users <- ThreeUsers
    UserOf <- Owner
    GlobalLimit = 2
    UserLimit = 1
    Lifetime = 1
    Grace = 1
    Rows <- TwoRows
    MaxTxns = 2
CONSTRAINT TableApart
INVARIANTS CapHolds SlotsAreReturned
PROPERTIES MissesAreLateOrUnstamped EveryStreamCloses
CHECK_DEADLOCK FALSE
