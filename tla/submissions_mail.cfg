SPECIFICATION Spec
CONSTANTS
    r1 = r1
    s1 = s1
    NumCards = 2
    Kinds <- MailKinds
    Channels <- OnlyMail
    Columns <- NoColumn
    Requests <- OneRequest
    Sweepers <- OneSweeper
    AutoApply = TRUE
    ApprovalGate = FALSE
    Faults <- AllFaults
    MaxFaults = 1
    MaxSends = 2
INVARIANTS
    MailedOnce
    MarkerExcludesEvidence
    SubmittedIsExplained

