\* Two CPUs and two interrupts on the platform whose DMA bank (BAR3) users may access.
SPECIFICATION Spec
CONSTANTS
    c1 = c1  c2 = c2  b1 = b1
    NULL = NULL
    Cpus <- MCCpus
    Platforms <- MCRocky
    Bits <- MCBits
    PciBars <- MCPciBars
    Size = 8
    Offsets <- MCOffsets
    MaxIrqs = 2
INVARIANTS
    SpinLockIsEnough
