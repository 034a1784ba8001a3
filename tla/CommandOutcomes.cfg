SPECIFICATION Spec
CONSTANTS
    MaxWork = 8
    PipeSize = 4
    MaxOutput = 5
    Leaves = TRUE
    Slow = TRUE
INVARIANTS
    TypeOK
    OutcomeIsFaithful
PROPERTIES
    CallReturns
