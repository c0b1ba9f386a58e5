\* Three clients, a window of two slots that wraps twice.
CONSTANTS
    t1 = t1
    t2 = t2
    t3 = t3
    Threads <- MCThreads
    W = 2
    RecordCount = 1
    NewKeys = 3
    Dist = "zipfian"
    InsertStatuses = {"ok", "error"}
    MaxKey = 4
SPECIFICATION Spec
SYMMETRY Symmetry
INVARIANTS
    IInv
    ChosenKeySettled
    ThrowsOnlyOnOverrun
\* exit(1) stops the process
CHECK_DEADLOCK FALSE
