\* rocksdb_cli, sqlite_cli: Init and Cleanup never overlap
CONSTANTS
    N = 3
    RecordCount = 1
    OperationCount = 3
    Modes = {"both"}
    ReInits = {TRUE, FALSE}
    ShowStatus = FALSE
    Timeds = {TRUE}
    Skip = FALSE
    RateLines = 0
    InitOutcomes = {"ok"}
    OpOutcomes = {"ok"}
    CleanupOutcomes = {"ok"}
    Locks = {TRUE}
    IdRange = 256
SPECIFICATION ESpec
INVARIANT IdsIfNoOverlap
CHECK_DEADLOCK FALSE
