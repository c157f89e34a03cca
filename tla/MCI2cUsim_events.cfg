\* Two senders and two simulator threads; the simulator is killed once.
SPECIFICATION FairSpec
CONSTANTS
    s1 = s1  s2 = s2  r1 = r1  r2 = r2
    Senders <- MCSenders
    Threads <- MCThreads
    MaxMsgs = 2
    MaxTicket = 2
    MaxKills = 1
    MaxLoads = 2
    Behaved = TRUE
    BusLock = TRUE
    EarlyUse = FALSE
INVARIANTS
    NoUseAfterFree
    SuccessMeansServed
PROPERTIES
    SenderReturns
CHECK_DEADLOCK FALSE
