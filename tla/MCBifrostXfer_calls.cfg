\* Two threads on one channel, so that calls queue behind each other; sizes 1
\* and 2 make the bounce buffer grow.  MaxTicket ends the run.
SPECIFICATION XSpec
CONSTANTS
    t1 = t1  t2 = t2
    r1 = r1  r2 = r2
    b1 = b1  b2 = b2
    NULL = NULL
    Threads <- MCThreads
    Reqs <- MCReqs
    Bufs <- MCBufs
    NumCh = 1
    BusyAtProbe <- MCNone
    TicketMask = 2147483647
    MaxTicket = 3
    MaxSize = 2
SYMMETRY MCSymmetry
INVARIANTS
    WakesItsCaller
    UndisturbedMovesItsData
    SavedBufIsTheBuffer
PROPERTIES
    SuccessMeansDone
CHECK_DEADLOCK FALSE
