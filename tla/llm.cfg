SPECIFICATION LlmSpec
CONSTANTS
    r1 = r1
    r2 = r2
    claude = claude
    deepseek = deepseek
    free = free
    None = None
    Runs <- TwoRuns
    Roles <- UserAndOperator
    Admins <- OneRun
    Models <- ThreeModels
    Provider <- Billing
    Primary <- Mixed
    Fallback = claude
    OperatorModels <- OneNext
    FreeModels <- OneFree
    Threshold = 2
    MaxCalls <- TwoThenOne
INVARIANTS
    SubstitutionIsAllowed
    BlameIsTrue
PROPERTIES
    ReasonIsOfThisCall
    QuotaOutlivesCircuit
