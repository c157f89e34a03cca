\* Four pages of two bytes, the first one not aligned for a request of alignment 4.
SPECIFICATION FairSpec
CONSTANTS
    NULL = NULL
    HeapAlign = 2
    Base = 2
    HeapSize = 8
    ReqSizes <- MCSizes
    ReqAligns <- MCAligns
PROPERTIES
    AllocAnswers
    ImplementsHeap
    CallReturns
