SPECIFICATION LiveSpec
CONSTANTS
    MaxProcs = 1
    Streams = {"stdout", "stderr"}
    Output <- MCOutput
    PipeSize = 2
    StreamCap = 3
    MaxBytes = 2
    Leaves = TRUE
    MaxTurns = 2
    MaxCalls = 2
INVARIANTS
    TypeOK
    ExitedMeansDrained
    PollsReturnBytesOnce
PROPERTIES
    ExitIsFinal
    FullPipeIsRead
    CallsReturn
