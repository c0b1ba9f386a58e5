\* -load, -run and both, with -s, a rate file and secskip; Init and operations may throw
CONSTANTS
    N = 2
    RecordCount = 3
    OperationCount = 3
    Modes = {"load", "run", "both"}
    ReInits = {TRUE, FALSE}
    ShowStatus = TRUE
    Timeds = {TRUE, FALSE}
    Skip = TRUE
    RateLines = 1
    InitOutcomes = {"ok", "exception", "foreign"}
    OpOutcomes = {"ok", "fail", "exception", "foreign"}
    CleanupOutcomes = {"ok", "exception"}
SPECIFICATION FairSpec
INVARIANTS
    DriverInv
    AllOpsExecuted
    LastStatusComplete
    LatchesOutliveThreads
    ReturnsOpsAfterSkip
    DbBracketed
PROPERTY EndsOrStuck
CHECK_DEADLOCK FALSE
