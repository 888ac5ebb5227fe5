SPECIFICATION FairSpec
CONSTANTS
    r1 = r1
    s1 = s1
    NumCards = 1
    Kinds <- OnlySite
    Channels <- AnyChannel
    Columns <- OneColumn
    Requests <- OneRequest
    Sweepers <- OneSweeper
    AutoApply = TRUE
    ApprovalGate = FALSE
    Faults <- AllFaults
    MaxFaults = 1
    MaxSends = 2
INVARIANTS
    OneExecutor
    TransmissionHasEvidence
PROPERTIES
    ReceiptIsRecorded
