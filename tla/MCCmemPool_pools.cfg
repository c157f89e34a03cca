\* Two files, five sets of module parameters; a file may register twice.
SPECIFICATION Spec
CONSTANTS
    f1 = f1  f2 = f2  None = None  Gone = Gone
    Files <- MCFiles
    Params <- MCParams
    Addrs <- MCAddrs
    Page = 2
    MaxPools = 3
    UseHeap = TRUE
    MaxReg = 2
SYMMETRY MCSymmetry
INVARIANTS
    CarvedApart
    BusyIffRegistered
    RegisteredWhileOpen
    GetPoolBestFit
PROPERTIES
    PendingEntryStays
CHECK_DEADLOCK FALSE
