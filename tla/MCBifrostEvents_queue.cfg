\* One handle, lists of two events, a reserve of one and three interrupts of two
\* vectors, so that the list and the pool both fill up and handlers overlap.
\* Without users and interrupts the system may stop.
SPECIFICATION FairSpec
CONSTANTS
    f1 = f1  f2 = f2  a1 = a1  a2 = a2  irq1 = irq1  c1 = c1
    NULL = NULL
    Files <- MCFiles1
    Addrs <- MCAddrs1
    Sources <- MCSources
    Channels <- MCChannels
    BufferSize = 2
    PoolMin = 1
    MaxEvents = 3
INVARIANTS
    BoundedList
    HandledInOrder
PROPERTIES
    PollerWakes
CHECK_DEADLOCK FALSE
