\* Two clients, a load of three records and runs of up to five operations.
CONSTANTS
    NumThreads = 2
    RecordCount = 3
    W = 8
    Scenarios <- MCScenarios
SPECIFICATION FairSpec
INVARIANTS
    WTypeOK
    KeysWereInserted
    InsertsDistinct
    OksMatchMeasured
    ZetaExact
    CheckedCount
    TraceReplayed
PROPERTY WorkloadEnds
CHECK_DEADLOCK FALSE
