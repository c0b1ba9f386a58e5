\* rocksdb, leveldb, sqlocal, wiredtiger (pointer) and lmdb (count)
CONSTANTS
    N = 3
    RecordCount = 3
    OperationCount = 4
    Modes = {"load", "run", "both"}
    ReInits = {FALSE}
    ShowStatus = FALSE
    Timeds = {TRUE}
    Skip = FALSE
    RateLines = 0
    InitOutcomes = {"ok", "exception"}
    OpOutcomes = {"ok"}
    CleanupOutcomes = {"ok", "exception"}
    Guards = {"pointer", "count"}
SPECIFICATION RcSpec
INVARIANTS
    HandleLiveUnlessReopened
    ReferencesBalanced
CHECK_DEADLOCK FALSE
