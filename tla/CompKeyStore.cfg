\* Two clients, two keys, both formats, every workload and combination of field options.
CONSTANTS
    c1 = c1
    c2 = c2
    Clients <- MCClients
    Numbers <- MCNumbers
    Paddings = {1, 2}
    MaxF = 2
    Mixes <- MCMixes
    ScanLen = 2
    MaxCalls = 3
SPECIFICATION Spec
SYMMETRY Symmetry
PROPERTIES
    EntriesImplementTable
    LeaksOnlyOnMiss
CHECK_DEADLOCK FALSE
