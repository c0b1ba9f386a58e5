\* limit.ops = 5, or too small for two clients; a rate file with two effective lines
CONSTANTS
    N = 2
    Limits = {1, 5}
    Lines <- SlowDown
    ExtraRates = {0, 2}
    P = 2
    Q = 4
    H = 1000
    MaxNow = 4
    MaxOps = 5
SPECIFICATION Spec
INVARIANTS
    TypeOK
    LimitRespected
    BurstBounded
    DebtBounded
CHECK_DEADLOCK FALSE
