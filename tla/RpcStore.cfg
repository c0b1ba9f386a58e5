\* Two clients, two keys, both bindings; messages that fit and that do not.
CONSTANTS
    Clients = {c1, c2}
    K = 2
    F = 2
    Configs <- MCConfigs
    ScanLen = 1
    MaxCalls = 3
SPECIFICATION Spec
INVARIANTS
    RpcTypeOK
    FitsIfLargeEnough
PROPERTIES
    RpcImplementsContract
    CallsReturn
CHECK_DEADLOCK FALSE
