\* Two phases with -s and secskip.
CONSTANTS
    c1 = c1
    c2 = c2
    Clients <- MCClients
    Reports <- TwoThenOne
    Latencies = {1, 2}
    ShowStatus = TRUE
    SecSkip = 1
    Grace = 2
    MaxNow = 4
    Infinity = 9
    U32 = 3
    U64 = 64
SPECIFICATION Spec
SYMMETRY Symmetry
INVARIANTS
    EmitExact
    SkipRespected
    PeriodIsDeltaInPhase
CHECK_DEADLOCK FALSE
