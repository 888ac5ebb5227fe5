SPECIFICATION Spec
CONSTANTS
    r1 = r1
    s1 = s1
    NumCards = 2
    Kinds <- OnlyMail
    Channels <- OnlyMail
    Columns <- NoColumn
    Requests <- OneRequest
    Sweepers <- NoSweeper
    AutoApply = TRUE
    ApprovalGate = FALSE
    Faults <- NoFaults
    MaxFaults = 0
    MaxSends = 1
PROPERTIES
    DoubleSendImpossible
