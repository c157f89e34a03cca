-------------------------------- MODULE HeapMem --------------------------------
(***************************************************************************)
(* HeapMem_alloc and HeapMem_free of cmemk.c: a first-fit allocator whose  *)
(* free list, ordered by address, is threaded through the free memory.     *)
(* Both run under cmem_mutex, so one call is active at a time; the loops   *)
(* over the free list are modelled step by step.                           *)
(***************************************************************************)
EXTENDS Integers, FiniteSets

CONSTANTS HeapAlign, \* HEAP_ALIGN, a power of 2
          Base,      \* address of the heap, a multiple of HeapAlign
          HeapSize,  \* bytes, a multiple of HeapAlign
          ReqSizes,  \* sizes that callers ask for
          ReqAligns, \* alignments that callers ask for, powers of 2
          NULL

ASSUME HeapAssumption ==
    /\ HeapAlign \in Nat \ {0} /\ Base \in Nat /\ HeapSize \in Nat \ {0}
    /\ Base % HeapAlign = 0 /\ HeapSize % HeapAlign = 0
    /\ ReqSizes \subseteq Nat /\ ReqAligns \subseteq Nat \ {0}
    /\ NULL \notin Nat

HEAD == -1   \* the address of heap_head[bi], which is not in the heap
Memory == Base .. (Base + HeapSize - 1)
Headers == {a \in Memory : a % HeapAlign = 0}

VARIABLES
    next, size,  \* the list headers in the memory
    pc,          \* "idle", "alloc", "free"
    req,         \* the call's arguments
    prev, cur,   \* prevHeader and curHeader, or curHeader and nextHeader
    res,         \* what the last HeapMem_alloc returned
    live         \* blocks handed out and not freed: [addr, size], size as asked for

vars == <<next, size, pc, req, prev, cur, res, live>>
NoReq == [addr |-> 0, asked |-> 0, size |-> 0, align |-> 1, dryrun |-> FALSE]

\* cmem_init: one free block.
Init ==
    /\ next = [a \in Headers \union {HEAD} |-> IF a = HEAD THEN Base ELSE NULL]
    /\ size = [a \in Headers \union {HEAD} |-> IF a = Base THEN HeapSize ELSE 0]
    /\ pc = "idle" /\ req = NoReq /\ prev = HEAD /\ cur = NULL
    /\ res = NULL /\ live = {}

\* The next multiple of HEAP_ALIGN.
RoundUp(n) == IF n % HeapAlign # 0 THEN n + (HeapAlign - (n % HeapAlign)) ELSE n

AdjAlign(al) == IF al % HeapAlign # 0 THEN HeapAlign ELSE al

-------------------------------------------------------------------------------
(* HeapMem_alloc *)

AllocBegin(n, al, dry) ==
    /\ pc = "idle"
    /\ req' = [addr |-> 0, asked |-> n, size |-> RoundUp(n), align |-> AdjAlign(al),
               dryrun |-> dry]
    /\ prev' = HEAD /\ cur' = next[HEAD]
    /\ pc' = "alloc"
    /\ UNCHANGED <<next, size, res, live>>

\* Bytes from the start of block a to the first aligned address.
Offset(a) == IF a % req.align # 0 THEN req.align - (a % req.align) ELSE 0

Fits(a) == size[a] >= req.size + Offset(a)

AllocAdvance ==
    /\ pc = "alloc" /\ cur # NULL /\ ~Fits(cur)
    /\ prev' = cur /\ cur' = next[cur]
    /\ UNCHANGED <<next, size, pc, req, res, live>>

AllocFail ==
    /\ pc = "alloc" /\ cur = NULL
    /\ res' = NULL /\ pc' = "idle" /\ req' = NoReq
    /\ prev' = HEAD
    /\ UNCHANGED <<next, size, cur, live>>

\* Cut req.size bytes out of block cur, at offset off; what is left in front and
\* behind stays on the list.
CutDropsFront(off, rest, new) ==
    /\ next' = IF rest # 0 THEN [next EXCEPT ![new] = next[cur], ![prev] = new]
               ELSE [next EXCEPT ![prev] = next[cur]]
    /\ size' = IF rest # 0 THEN [size EXCEPT ![new] = rest] ELSE size

Cut(off, rest, new) ==
    IF off # 0
    THEN /\ next' = IF rest # 0 THEN [next EXCEPT ![new] = next[cur], ![cur] = new]
                    ELSE next
         /\ size' = IF rest # 0 THEN [size EXCEPT ![cur] = off, ![new] = rest]
                    ELSE [size EXCEPT ![cur] = off]
    ELSE /\ next' = IF rest # 0 THEN [next EXCEPT ![new] = next[cur], ![prev] = new]
                    ELSE [next EXCEPT ![prev] = next[cur]]
         /\ size' = IF rest # 0 THEN [size EXCEPT ![new] = rest] ELSE size

AllocTake ==
    /\ pc = "alloc" /\ cur # NULL /\ Fits(cur)
    /\ LET off == Offset(cur)
           addr == cur + off
       IN  /\ res' = addr
           /\ IF req.dryrun
              THEN UNCHANGED <<next, size, live>>
              ELSE /\ Cut(off, size[cur] - req.size - off, addr + req.size)
                   /\ live' = live \union {[addr |-> addr, size |-> req.asked]}
    /\ pc' = "idle" /\ req' = NoReq /\ prev' = HEAD /\ cur' = NULL

-------------------------------------------------------------------------------
(* HeapMem_free *)

\* Callers free what they allocated, with the size they asked for.
FreeBegin(b) ==
    /\ pc = "idle" /\ b \in live
    /\ req' = [addr |-> b.addr, asked |-> b.size, size |-> RoundUp(b.size), align |-> 1,
               dryrun |-> FALSE]
    /\ prev' = HEAD /\ cur' = next[HEAD]
    /\ pc' = "free"
    /\ UNCHANGED <<next, size, res, live>>

Before(a) == a # NULL /\ a < req.addr

FreeAdvanceStuck ==
    /\ pc = "free" /\ Before(cur)
    /\ prev' = cur
    /\ UNCHANGED <<next, size, pc, req, cur, res, live>>

FreeAdvance ==
    /\ pc = "free" /\ Before(cur)
    /\ prev' = cur /\ cur' = next[cur]
    /\ UNCHANGED <<next, size, pc, req, res, live>>

JoinUpperNever(new, n) == FALSE
JoinUpper(new, n) == cur # NULL /\ new + n = cur

JoinLower(sz, new) == prev # HEAD /\ prev + sz[prev] = new

\* Link the block in between prev and cur, join it with the free block behind it
\* and with the one in front of it.
FreeLink ==
    /\ pc = "free" /\ ~Before(cur)
    /\ LET new == req.addr
           n1 == [next EXCEPT ![new] = cur, ![prev] = new]
           s1 == [size EXCEPT ![new] = req.size]
           up == JoinUpper(new, req.size)
           n2 == IF up THEN [n1 EXCEPT ![new] = n1[cur]] ELSE n1
           s2 == IF up THEN [s1 EXCEPT ![new] = @ + s1[cur]] ELSE s1
           low == JoinLower(s2, new)
       IN  /\ next' = IF low THEN [n2 EXCEPT ![prev] = n2[new]] ELSE n2
           /\ size' = IF low THEN [s2 EXCEPT ![prev] = @ + s2[new]] ELSE s2
    /\ live' = live \ {[addr |-> req.addr, size |-> req.asked]}
    /\ pc' = "idle" /\ req' = NoReq /\ prev' = HEAD /\ cur' = NULL
    /\ UNCHANGED res

-------------------------------------------------------------------------------
Begin ==
    \/ \E n \in ReqSizes, al \in ReqAligns, dry \in BOOLEAN : AllocBegin(n, al, dry)
    \/ \E b \in live : FreeBegin(b)

Work == AllocAdvance \/ AllocFail \/ AllocTake \/ FreeAdvance \/ FreeLink

Next == Begin \/ Work

Spec == Init /\ [][Next]_vars

\* A call that runs under the mutex is not stopped.
FairSpec == Spec /\ WF_vars(Work)

-------------------------------------------------------------------------------
(* Properties *)

\* The blocks on the free list.
Reach[n \in Nat] ==
    IF n = 0 THEN {next[HEAD]} \ {NULL}
    ELSE Reach[n - 1] \union ({next[a] : a \in Reach[n - 1]} \ {NULL})
FreeBlocks == Reach[Cardinality(Headers)]

FreeBytes == UNION {a .. (a + size[a] - 1) : a \in FreeBlocks}

\* Headers stay inside the heap and sizes multiples of HEAP_ALIGN
\* ("Maintaining this requirement throughout", cmemk.c:330).
TypeOK ==
    /\ next \in [Headers \union {HEAD} -> Headers \union {NULL}]
    /\ size \in [Headers \union {HEAD} -> {n \in 0..HeapSize : n % HeapAlign = 0}]
    /\ pc \in {"idle", "alloc", "free"}
    /\ prev \in Headers \union {HEAD} /\ cur \in Headers \union {NULL}
    /\ res \in Headers \union {NULL}
    /\ live \in SUBSET [addr : Headers, size : 0..HeapSize]

\* The memory that a block handed out for n bytes takes up.
LiveBytes(b) == b.addr .. (b.addr + RoundUp(b.size) - 1)

\* Free blocks and live blocks make up the whole heap: no byte is lost and none
\* is both free and handed out, or handed out twice.
Partition ==
    /\ FreeBytes \union UNION {LiveBytes(b) : b \in live} = Memory
    /\ \A b \in live : LiveBytes(b) \intersect FreeBytes = {}
    /\ \A b, d \in live : b # d => LiveBytes(b) \intersect LiveBytes(d) = {}

\* An aligned run of free bytes for the current request starts at a.
RoomAt(a) == a % req.align = 0 /\ (a .. (a + req.size - 1)) \subseteq FreeBytes

\* HeapMem_alloc returns an address aligned as asked for; it fails only if no
\* aligned run of free bytes is long enough, so that HeapMem_free must join blocks
\* that touch; a dry run answers alike.
AllocAnswers ==
    [][pc = "alloc" /\ pc' = "idle" =>
         IF res' = NULL THEN ~\E a \in Memory : RoomAt(a) ELSE RoomAt(res')]_vars

\* HeapMem implements the abstract heap.
Heap == INSTANCE HeapService
          WITH free <- FreeBytes, live <- {[b EXCEPT !.size = RoundUp(@)] : b \in live}

ImplementsHeap == Heap!HSpec

\* "a general purpose heap block is created from which allocations of any size can
\* be requested" (cmemk.h:116): every call, whatever was asked for before, returns.
CallReturns == pc # "idle" ~> pc = "idle"
===============================================================================
