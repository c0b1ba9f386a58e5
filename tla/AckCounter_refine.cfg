\* A window of four slots, wrapped; inserts succeed; readers follow "latest".
CONSTANTS
    t1 = t1
    t2 = t2
    t3 = t3
    Threads <- MCThreads
    W = 4
    RecordCount = 3
    NewKeys = 0
    Dist = "latest"
    InsertStatuses = {"ok"}
    MaxKey = 8
SPECIFICATION FairSpec
INVARIANTS
    LagAtMostOne
PROPERTIES
    ImplementsPrefix
    KeysBecomeReadable
CHECK_DEADLOCK FALSE
