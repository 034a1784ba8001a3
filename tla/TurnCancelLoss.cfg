CHECK_DEADLOCK FALSE
SPECIFICATION Spec
CONSTANTS
    Operations = {"write"}
    Safe = {}
    Mutating = {"write"}
    Outcomes = {"ok"}
    MaxIterations = 2
    MaxCalls = 1
    AtBlockingLimit = FALSE
    ReplanOnFailure = TRUE
    FailureBudget = 2
    SelfVerify = FALSE
    SelfCritique = FALSE
    VerifyIterations = 0
    NumChecks = 0
    TestCommand = FALSE
    Histories <- FreshOnly
INVARIANTS
    CancelPreservesSession
