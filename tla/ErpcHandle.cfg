\* rocksdb_cli, sqlite_cli (locked) and lazy_kv; as many clients as ids
CONSTANTS
    N = 3
    RecordCount = 1
    OperationCount = 2
    Modes = {"both"}
    ReInits = {TRUE, FALSE}
    ShowStatus = FALSE
    Timeds = {TRUE}
    Skip = FALSE
    RateLines = 0
    InitOutcomes = {"ok"}
    OpOutcomes = {"ok"}
    CleanupOutcomes = {"ok"}
    Locks = {TRUE, FALSE}
    IdRange = 3
SPECIFICATION ESpec
INVARIANTS
    SafeIfPhased
CHECK_DEADLOCK FALSE
