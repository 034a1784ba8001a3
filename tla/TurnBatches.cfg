CHECK_DEADLOCK FALSE
SPECIFICATION Spec
CONSTANTS
    Operations = {"read", "write"}
    Safe = {"read"}
    Mutating = {"write"}
    Outcomes = {"ok", "err"}
    MaxIterations = 2
    MaxCalls = 2
    AtBlockingLimit = TRUE
    ReplanOnFailure = TRUE
    FailureBudget = 2
    SelfVerify = FALSE
    SelfCritique = FALSE
    VerifyIterations = 0
    NumChecks = 0
    TestCommand = FALSE
    Histories <- MCHistories
INVARIANTS
    TypeOK
    EveryCallAnswered
    OnlyGrantedCallsRun
    OnlySafeToolsOverlap
    RecordedInCallOrder
    CancelStopsTools
    IterationsReported
    EventsMatchResults
