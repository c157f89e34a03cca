\* Two channels, three callers, two requests more than channels.
\* MaxTicket ends the run, so the engine may stop at the end.
SPECIFICATION Spec
CONSTANTS
    t1 = t1  t2 = t2  t3 = t3
    r1 = r1  r2 = r2  r3 = r3  r4 = r4
    NULL = NULL
    Threads <- MCThreads3
    Reqs <- MCReqs4
    NumCh = 2
    BusyAtProbe <- MCNone
    TicketMask = 2147483647
    MaxTicket = 4
SYMMETRY MCSymmetry
INVARIANTS
    TypeOK
    OneOwner
    ChannelsConserved
    WaitsOnlyWhenBusy
    KickIsOwned
    RunsWhatIsInProgress
CHECK_DEADLOCK FALSE
