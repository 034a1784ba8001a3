SPECIFICATION Spec
CONSTANTS
    MaxWork = 6
    PipeSize = 4
    MaxOutput = 8
    Leaves = FALSE
    Slow = FALSE
INVARIANTS
    PromptProgramsFinish
