\* Two clients, two keys, every binding and workload.
CONSTANTS
    c1 = c1
    c2 = c2
    NoClient = NoClient
    Clients <- MCClients
    K = 2
    F = 2
    Bindings = {"rocksdb", "leveldb", "wiredtiger", "lmdb", "sqlocal", "postgres"}
    Mixes <- MCMixes
    ScanLen = 2
    MaxCalls = 3
SPECIFICATION Spec
SYMMETRY Symmetry
INVARIANTS
    StoreInv
    RowsWhole
PROPERTY ImplementsContract
CHECK_DEADLOCK FALSE
