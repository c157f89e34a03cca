\* Two CPUs.  On the memory bus transfers compete with each other and with register
\* calls; on a platform whose DMA bank (BAR2) is closed to users the register calls
\* compete with the DMA engine and two of its interrupts.
SPECIFICATION MembusSpec
CONSTANTS
    c1 = c1  c2 = c2  b1 = b1
    NULL = NULL
    Cpus <- MCCpus
    Platforms <- MCPlatforms
    Bits <- MCBits
    PciBars <- MCPciBars
    Size = 8
    Offsets <- MCOffsets
    MaxIrqs = 2
    LoSize = 4
    HiSize = 2
    Xfers <- MCXfers
    MaxCalls = 1
SYMMETRY MCSymmetry
INVARIANTS
    AtomicModify
    StartsWhatItSelected
    SpinLockIsEnough
    MembusMovesItsData
