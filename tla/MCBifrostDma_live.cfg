\* One channel is busy at probe; the other serves every transfer.
SPECIFICATION FairSpec
CONSTANTS
    t1 = t1  t2 = t2  t3 = t3
    r1 = r1  r2 = r2  r3 = r3  r4 = r4
    NULL = NULL
    Threads <- MCThreads2
    Reqs <- MCReqs3
    NumCh = 2
    BusyAtProbe <- MCBusy
    TicketMask = 2147483647
    MaxTicket = 3
PROPERTIES
    DoneOnce
    SubmittedIsAnnounced
    ImplementsService
CHECK_DEADLOCK FALSE
