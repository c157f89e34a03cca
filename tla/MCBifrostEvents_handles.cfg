\* Two files and two addresses, so that an address can be used again while events
\* of its former owner are under way.  DMA events only.
SPECIFICATION Spec
CONSTANTS
    f1 = f1  f2 = f2  a1 = a1  a2 = a2  irq1 = irq1  c1 = c1
    NULL = NULL
    Files <- MCFiles2
    Addrs <- MCAddrs2
    Sources <- MCNoSources
    Channels <- MCChannels
    BufferSize = 1
    PoolMin = 1
    MaxEvents = 2
SYMMETRY MCSymmetry
INVARIANTS
    FreedIsUnreachable
    DoneReachesStarterOrClosed
CHECK_DEADLOCK FALSE
