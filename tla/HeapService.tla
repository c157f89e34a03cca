------------------------------ MODULE HeapService ------------------------------
(***************************************************************************)
(* What a heap of contiguous memory promises, without its free list: the   *)
(* memory is either free or part of exactly one live block.                *)
(***************************************************************************)
EXTENDS Integers, FiniteSets

CONSTANT Memory    \* the addresses of the heap

VARIABLES free,    \* free addresses
          live     \* blocks handed out: [addr, size]

Bytes(b) == b.addr .. (b.addr + b.size - 1)

HInit == free = Memory /\ live = {}

Alloc(b) ==
    /\ b.size > 0 /\ Bytes(b) \subseteq free
    /\ free' = free \ Bytes(b)
    /\ live' = live \union {b}

Free(b) ==
    /\ b \in live
    /\ free' = free \union Bytes(b)
    /\ live' = live \ {b}

Blocks == [addr : Memory, size : 1..Cardinality(Memory)]

HNext == \E b \in Blocks \union live : Alloc(b) \/ Free(b)

HSpec == HInit /\ [][HNext]_<<free, live>>
===============================================================================
