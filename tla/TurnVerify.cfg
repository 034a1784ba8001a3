CHECK_DEADLOCK FALSE
SPECIFICATION FairSpec
CONSTANTS
    Operations = {"write"}
    Safe = {}
    Mutating = {"write"}
    Outcomes = {"ok", "nonzero", "err_invalid"}
    MaxIterations = 4
    MaxCalls = 1
    AtBlockingLimit = FALSE
    ReplanOnFailure = TRUE
    FailureBudget = 2
    SelfVerify = TRUE
    SelfCritique = TRUE
    VerifyIterations = 2
    NumChecks = 1
    TestCommand = FALSE
    Histories <- FreshOnly
INVARIANTS
    VerifiedBeforeDone
    
PROPERTIES
    TurnEnds
