\* A handle for each thread; invalid pins are asked for and the GPIO library fails.
SPECIFICATION FairSpec
CONSTANTS
    t1 = t1  t2 = t2  h1 = h1  h2 = h2
    NoThread = NoThread  NoHandle = NoHandle
    Threads <- MCThreads
    Handles <- MCHandles
    HandleOf <- MCOwnHandle
    NAdapters = 3
    Valid <- MCPins
    Asked <- MCPinsAndInvalid
    DirectionFails = TRUE
INVARIANTS
    LockHeldInTransfer
    OnlyAddressedChip
    ModuleOwnsWhatItUses
PROPERTIES
    TransferEnds
