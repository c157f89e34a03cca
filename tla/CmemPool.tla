-------------------------------- MODULE CmemPool --------------------------------
(***************************************************************************)
(* The buffers of cmemk: blocks of memory are carved into pools of buffers *)
(* of one size and a heap of what is left, and each buffer has the list of *)
(* file descriptors registered for it.  Every section under cmem_mutex is  *)
(* one step; release() takes the mutex anew for every pool, so other calls *)
(* run between its steps; cmem_init takes no lock, and the device is there *)
(* before the pools are.                                                   *)
(*                                                                         *)
(* A buffer is named by its physical address.  A free list is a set: ALLOC *)
(* takes any free buffer of the pool, where the code takes the first.  The *)
(* heap is the abstract one of HeapService, with blocks of one page.       *)
(***************************************************************************)
EXTENDS Integers, Sequences, FiniteSets

CONSTANTS Files,     \* struct file pointers, each opened once
          Params,    \* sets of module parameters
          Addrs,     \* addresses of pages
          Page,      \* PAGE_SIZE
          MaxPools,  \* MAX_POOLS
          UseHeap,   \* useHeapIfPoolUnavailable
          MaxReg,    \* bound: registrations of a file for a buffer
          None, Gone

Blocks == {0, 1}
PageAlign(n) == ((n + Page - 1) \div Page) * Page

\* Parameters: the range of each block that is given, the pools of each block.  The
\* pages of the blocks are among the addresses.
ASSUME PoolAssumption ==
    /\ Page \in Nat \ {0} /\ MaxPools \in Nat /\ MaxReg \in Nat /\ UseHeap \in BOOLEAN
    /\ Addrs \subseteq Nat /\ \A b \in Addrs : b % Page = 0
    /\ None # Gone /\ {None, Gone} \cap Addrs = {}
    /\ \A a \in Params :
         /\ DOMAIN a.mem \subseteq Blocks
         /\ \A x \in DOMAIN a.mem :
              /\ a.mem[x].start \in Nat /\ a.mem[x].end \in Nat
              /\ \A b \in PageAlign(a.mem[x].start)..(PageAlign(a.mem[x].end) - 1) :
                   b % Page = 0 => b \in Addrs
         /\ a.pools \in [Blocks -> Seq([num : Nat, size : Nat \ {0}])]
         /\ \A x \in Blocks : Len(a.pools[x]) <= MaxPools

VARIABLES
    phase, at,   \* where cmem_init is, and the block and the pool it is at
    par,         \* the module's parameters
    avail,       \* block_avail_size
    mapped,      \* blocks with BLOCK_MEMREGION and BLOCK_IOREMAP
    listed,      \* the elements of p_objs whose lists are initialised
    hasHeap,     \* blocks with heap_pool # -1
    heapFree,    \* per block: the free blocks of the heap
    fstate,      \* per file: "new", "open", "closing", "closed"
    refs,        \* reference_count
    free, busy,  \* per element of p_objs: freelist, busylist
    users,       \* per buffer and file: registrations
    rpool,       \* per file: the pool release() visits next
    lastClose,   \* per file: last_close of its release()
    late,        \* per file: the heap entry a call of it goes on to read without the lock
    held,        \* ghost: registrations a file made and did not give back
    raced,       \* ghost: files opened while a last close was running
    interrupted, \* ghost: files whose release() returned -ERESTARTSYS
    wild,        \* ghost: a list was walked that is not initialised; nothing follows
    leaked       \* ghost: cmem_init failed and kept entries

initVars == <<phase, at, par, avail, mapped, listed, hasHeap>>
poolVars == <<heapFree, free, busy, users>>
relVars  == <<rpool, lastClose>>
ghosts   == <<raced, interrupted, wild, leaked>>
vars == <<initVars, poolVars, fstate, refs, relVars, late, held, ghosts>>

-------------------------------------------------------------------------------
(* Pools *)

NPools(x) == Len(par.pools[x])
BlockStart(x) == PageAlign(par.mem[x].start)
BlockEnd(x) == PageAlign(par.mem[x].end)

\* Pool i of block x is <<x, i>>; the pool after the last is the heap of the block.
\* Its lists are p_objs[x][i], where p_objs has MaxPools elements for each block.
Pools == {p \in Blocks \X (0..MaxPools) : p[2] <= NPools(p[1])}
IsHeap(p) == p[2] = NPools(p[1])
Slot(p) == p[1] * MaxPools + p[2]
Slots == 0..(2 * MaxPools)
PoolSize(p) == IF IsHeap(p) THEN Page ELSE PageAlign(par.pools[p[1]][p[2] + 1].size)

\* The pools that find_busy_entry, release() and cmem_exit() walk, in this order.
Walked == {p \in Pools : IsHeap(p) => p[1] \in hasHeap}
Before(p, q) == p[1] < q[1] \/ (p[1] = q[1] /\ p[2] < q[2])
Reached(p) == \A q \in Walked : Before(q, p) \/ q = p => Slot(q) \in listed
AllListed == \A p \in Walked : Slot(p) \in listed

Init ==
    /\ phase = "out" /\ at = <<0, 0>> /\ par \in Params
    /\ avail = [x \in Blocks |-> 0] /\ mapped = {} /\ listed = {} /\ hasHeap = {}
    /\ heapFree = [x \in Blocks |-> {}]
    /\ free = [s \in Slots |-> {}] /\ busy = [s \in Slots |-> {}]
    /\ users = [b \in Addrs |-> [f \in Files |-> 0]]
    /\ fstate = [f \in Files |-> "new"] /\ refs = 0
    /\ rpool = [f \in Files |-> <<0, 0>>] /\ lastClose = [f \in Files |-> FALSE]
    /\ late = [f \in Files |-> None]
    /\ held = [b \in Addrs |-> [f \in Files |-> 0]]
    /\ raced = {} /\ interrupted = {} /\ wild = FALSE /\ leaked = FALSE

InUse == \E f \in Files : fstate[f] \in {"open", "closing"}

-------------------------------------------------------------------------------
(* cmem_init and cmem_exit *)

others == <<fstate, refs, relVars, late, held, raced, interrupted>>

\* register_chrdev: from here on the device can be opened.
RegisterChrdev ==
    /\ phase = "out"
    /\ phase' = "block" /\ at' = <<0, 0>>
    /\ UNCHANGED <<par, avail, mapped, listed, hasHeap, poolVars, others, wild, leaked>>

\* A block whose range is not given ends the loop, unless it is the first and pools
\* are asked for.
BlockNotGiven ==
    /\ phase = "block" /\ at[1] \notin DOMAIN par.mem
    /\ phase' = IF at[1] = 0 /\ NPools(0) > 0 THEN "fail" ELSE "live"
    /\ UNCHANGED <<at, par, avail, mapped, listed, hasHeap, poolVars, others, wild, leaked>>

\* request_mem_region and ioremap; a range that is empty, ends before it starts, or
\* overlaps one that is taken is refused by the former.  (The code's test for a negative
\* length compares an unsigned with 0.)
SetUpBlock ==
    LET x == at[1]
    IN  /\ phase = "block" /\ x \in DOMAIN par.mem
        /\ \/ /\ BlockStart(x) > 0 /\ BlockEnd(x) > BlockStart(x)
              /\ \A y \in mapped : BlockEnd(y) <= BlockStart(x) \/ BlockEnd(x) <= BlockStart(y)
              /\ phase' = "pool" /\ mapped' = mapped \union {x}
              /\ avail' = [avail EXCEPT ![x] = BlockEnd(x) - BlockStart(x)]
           \/ phase' = "fail" /\ UNCHANGED <<mapped, avail>>
        /\ UNCHANGED <<at, par, listed, hasHeap, poolVars, others, wild, leaked>>

\* alloc_pool_buffer: buffer j of pool p, counted from 1, from the top of what is left.
CarveUp(p, j) == BlockStart(p[1]) + (j - 1) * PoolSize(p)
Carve(p, j) == BlockStart(p[1]) + avail[p[1]] - j * PoolSize(p)

\* alloc_pool gets k of the buffers and goes on, or stops for want of memory.
AllocPool ==
    LET x == at[1]
        num == par.pools[x][at[2] + 1].num
    IN  /\ phase = "pool" /\ at[2] < NPools(x)
        /\ \E k \in 0..num :
             /\ k * PoolSize(at) <= avail[x]
             /\ free' = [free EXCEPT ![Slot(at)] = {Carve(at, j) : j \in 1..k}]
             /\ avail' = [avail EXCEPT ![x] = @ - k * PoolSize(at)]
             /\ IF k = num THEN at' = <<x, at[2] + 1>> /\ UNCHANGED phase
                ELSE phase' = "fail" /\ UNCHANGED at
        /\ busy' = [busy EXCEPT ![Slot(at)] = {}]
        /\ listed' = listed \union {Slot(at)}
        /\ UNCHANGED <<par, mapped, hasHeap, heapFree, users, others, wild, leaked>>

\* The rest of the block is the heap; alloc_pool lists it as one buffer.
HeapPages(x) == {b \in Addrs : BlockStart(x) <= b /\ b < BlockStart(x) + avail[x]}

AllocHeap ==
    LET x == at[1]
        NextBlock == /\ at' = <<1, 0>> /\ phase' = IF x = 0 THEN "block" ELSE "live"
    IN  /\ phase = "pool" /\ at[2] = NPools(x)
        /\ \/ /\ avail[x] = 0 /\ NextBlock
              /\ UNCHANGED <<avail, free, busy, listed, hasHeap, heapFree>>
           \/ /\ avail[x] > 0
              /\ busy' = [busy EXCEPT ![Slot(at)] = {}]
              /\ listed' = listed \union {Slot(at)}
              /\ \/ /\ NextBlock
                    /\ free' = [free EXCEPT ![Slot(at)] = {BlockStart(x)}]
                    /\ hasHeap' = hasHeap \union {x}
                    /\ heapFree' = [heapFree EXCEPT ![x] = HeapPages(x)]
                    /\ avail' = [avail EXCEPT ![x] = 0]
                 \/ /\ phase' = "fail" /\ free' = [free EXCEPT ![Slot(at)] = {}]
                    /\ UNCHANGED <<at, avail, hasHeap, heapFree>>
        /\ UNCHANGED <<par, mapped, users, others, wild, leaked>>

\* The module's memory is gone.
Unloaded ==
    /\ phase' = "out" /\ at' = <<0, 0>>
    /\ avail' = [x \in Blocks |-> 0] /\ listed' = {} /\ hasHeap' = {}
    /\ heapFree' = [x \in Blocks |-> {}]
    /\ free' = [s \in Slots |-> {}] /\ busy' = [s \in Slots |-> {}]
    /\ users' = [b \in Addrs |-> [f \in Files |-> 0]]
    /\ held' = [b \in Addrs |-> [f \in Files |-> 0]]
    /\ UNCHANGED <<par, fstate, refs, relVars, late, raced, interrupted>>

\* fail_after_create: regions and device go, the entries on the lists do not.  A file
\* that was opened in the meantime is left without a driver.
FailInit ==
    /\ phase = "fail" /\ Unloaded /\ mapped' = {}
    /\ leaked' = (leaked \/ \E s \in Slots : free[s] # {}) /\ wild' = InUse

\* cmem_exit: only when no file is open.
Exit ==
    /\ phase = "live" /\ ~InUse /\ AllListed /\ Unloaded /\ mapped' = {}
    /\ UNCHANGED <<leaked, wild>>

\* A call, or cmem_exit, walks a list that is not initialised.
WalkWild ==
    /\ ~AllListed /\ (InUse \/ phase = "live")
    /\ wild' = TRUE
    /\ UNCHANGED <<initVars, poolVars, others, leaked>>

-------------------------------------------------------------------------------
(* open and ioctls *)

Open(f) ==
    /\ phase # "out" /\ fstate[f] = "new"
    /\ fstate' = [fstate EXCEPT ![f] = "open"]
    /\ refs' = refs + 1
    /\ raced' = IF \E g \in Files : fstate[g] = "closing" /\ lastClose[g]
                THEN raced \union {f} ELSE raced
    /\ UNCHANGED <<initVars, poolVars, relVars, late, held, interrupted, wild, leaked>>

NoUsers(b) == \A f \in Files : users[b][f] = 0

Register(f, b) ==
    /\ users' = [users EXCEPT ![b][f] = @ + 1]
    /\ held' = [held EXCEPT ![b][f] = @ + 1]

\* ALLOC from pool p; -ENOMEM when there is no free buffer.
Alloc(f, p) ==
    /\ fstate[f] = "open" /\ ~IsHeap(p) /\ Slot(p) \in listed
    /\ \E b \in free[Slot(p)] :
         /\ free' = [free EXCEPT ![Slot(p)] = @ \ {b}]
         /\ busy' = [busy EXCEPT ![Slot(p)] = @ \union {b}]
         /\ Register(f, b)
    /\ UNCHANGED <<initVars, heapFree, fstate, refs, relVars, late, ghosts>>

\* ALLOCHEAP from block x
AllocFromHeap(f, x) ==
    /\ fstate[f] = "open" /\ x \in hasHeap
    /\ \E b \in heapFree[x] :
         /\ heapFree' = [heapFree EXCEPT ![x] = @ \ {b}]
         /\ busy' = [busy EXCEPT ![Slot(<<x, NPools(x)>>)] = @ \union {b}]
         /\ Register(f, b)
    /\ UNCHANGED <<initVars, free, fstate, refs, relVars, late, ghosts>>

\* ALLOC whose copy_to_user fails, or ALLOCHEAP whose kmalloc of the entry does,
\* leaves everything as it was and is no step.

\* find_busy_entry: the first pool with busy buffer b.
FoundIn(b, p) ==
    /\ p \in Walked /\ b \in busy[Slot(p)] /\ Reached(p)
    /\ \A q \in Walked : Before(q, p) => b \notin busy[Slot(q)]

\* What has no user goes back to the free list, or to the heap; then its entry is freed.
GiveBack(p, gone) ==
    /\ busy' = [busy EXCEPT ![Slot(p)] = @ \ gone]
    /\ IF IsHeap(p)
       THEN /\ heapFree' = [heapFree EXCEPT ![p[1]] = @ \union gone] /\ UNCHANGED free
            /\ late' = [g \in Files |-> IF late[g] \in gone THEN Gone ELSE late[g]]
       ELSE /\ free' = [free EXCEPT ![Slot(p)] = @ \union gone]
            /\ UNCHANGED <<heapFree, late>>

\* FREE: one registration of the caller goes; with the last one of all, the
\* buffer.  -EFAULT for a buffer that is not busy or not the caller's.
LastUserHere(b, f) == TRUE
LastUser(b, f) == \A g \in Files : users[b][g] = IF g = f THEN 1 ELSE 0

Free(f, b) ==
    /\ fstate[f] = "open" /\ users[b][f] > 0
    /\ users' = [users EXCEPT ![b][f] = @ - 1]
    /\ held' = [held EXCEPT ![b][f] = @ - 1]
    /\ \E p \in Pools : FoundIn(b, p) /\ GiveBack(p, IF LastUser(b, f) THEN {b} ELSE {})
    /\ UNCHANGED <<initVars, fstate, refs, relVars, ghosts>>

\* The call goes on with entry b after it dropped the lock.  (The entry of a pool
\* buffer stays as long as the module.)
GoesOnWith(f, b, p) ==
    late' = [late EXCEPT ![f] = IF IsHeap(p) THEN b ELSE None]

\* REGUSER: a file may register several times; then put_user(entry->size).
RegUser(f, b) ==
    /\ fstate[f] = "open" /\ late[f] = None /\ users[b][f] < MaxReg
    /\ \E p \in Pools : FoundIn(b, p) /\ GoesOnWith(f, b, p)
    /\ Register(f, b)
    /\ UNCHANGED <<initVars, heapFree, free, busy, fstate, refs, relVars, ghosts>>

\* mmap, of any busy buffer; then entry->flags.
Mmap(f, b) ==
    /\ fstate[f] = "open" /\ late[f] = None
    /\ \E p \in Pools : FoundIn(b, p) /\ IsHeap(p) /\ GoesOnWith(f, b, p)
    /\ UNCHANGED <<initVars, poolVars, fstate, refs, relVars, held, ghosts>>

LateRead(f) ==
    /\ late[f] # None /\ late' = [late EXCEPT ![f] = None]
    /\ UNCHANGED <<initVars, poolVars, fstate, refs, relVars, held, ghosts>>

FirstFit(x, reqsize) ==
    LET Fit == {i \in 0..(NPools(x) - 1) : /\ PoolSize(<<x, i>>) >= reqsize
                                           /\ free[Slot(<<x, i>>)] # {}}
    IN  IF Fit = {} THEN -1 ELSE CHOOSE i \in Fit : \A j \in Fit : i <= j

\* GETPOOL, the loop over the pools of block x: the pool found, or -1.
BestFit(x, reqsize) ==
    LET Delta(i) == PoolSize(<<x, i>>) - reqsize
        Scan[n \in 0..MaxPools] ==
            IF n = 0 THEN -1
            ELSE LET best == Scan[n - 1]
                     i == n - 1
                 IN  IF /\ Delta(i) >= 0
                        /\ best = -1 \/ Delta(i) < Delta(best)
                        /\ free[Slot(<<x, i>>)] # {}
                     THEN i ELSE best
    IN  Scan[NPools(x)]

\* GETPOOL's answer: a pool, -2 for the heap (a dry run of HeapMem_alloc succeeds),
\* -1 for none.
GetPool(x, reqsize) ==
    IF BestFit(x, reqsize) # -1 THEN BestFit(x, reqsize)
    ELSE IF UseHeap /\ x \in hasHeap /\ heapFree[x] # {} THEN -2 ELSE -1

-------------------------------------------------------------------------------
(* release() *)

\* atomic_dec_and_test(&reference_count), before any lock.  (A call keeps the file.)
ReleaseBegin(f) ==
    /\ fstate[f] = "open" /\ late[f] = None
    /\ fstate' = [fstate EXCEPT ![f] = "closing"]
    /\ refs' = refs - 1
    /\ lastClose' = [lastClose EXCEPT ![f] = (refs' = 0)]
    /\ UNCHANGED <<initVars, poolVars, rpool, late, held, ghosts>>

\* The registrations release() removes.
DropsEverybody(f, b, g) == 0
Remaining(f, b, g) == IF lastClose[f] \/ g = f THEN 0 ELSE users[b][g]

\* One pool, under the mutex: remove the registrations, free what has none left.
ReleasePool(f) ==
    LET p == rpool[f]
        left == [b \in Addrs |-> IF b \in busy[Slot(p)]
                                 THEN [g \in Files |-> Remaining(f, b, g)] ELSE users[b]]
        gone == {b \in busy[Slot(p)] : \A g \in Files : left[b][g] = 0}
    IN  /\ fstate[f] = "closing" /\ p \in Walked /\ Slot(p) \in listed
        /\ users' = left
        /\ held' = [b \in Addrs |-> IF b \in busy[Slot(p)] THEN [held[b] EXCEPT ![f] = 0]
                                    ELSE held[b]]
        /\ GiveBack(p, gone)
        /\ rpool' = [rpool EXCEPT ![f] = IF IsHeap(p) THEN <<p[1] + 1, 0>>
                                         ELSE <<p[1], p[2] + 1>>]
        /\ UNCHANGED <<initVars, fstate, refs, lastClose, ghosts>>

\* No heap in this block: the next one.
ReleaseNoHeap(f) ==
    /\ fstate[f] = "closing" /\ rpool[f] \in Pools \ Walked
    /\ rpool' = [rpool EXCEPT ![f] = <<@[1] + 1, 0>>]
    /\ UNCHANGED <<initVars, poolVars, fstate, refs, lastClose, late, held, ghosts>>

Returns(f) ==
    /\ fstate' = [fstate EXCEPT ![f] = "closed"]
    /\ rpool' = [rpool EXCEPT ![f] = <<0, 0>>]
    /\ lastClose' = [lastClose EXCEPT ![f] = FALSE]
    /\ UNCHANGED <<initVars, poolVars, refs, late, held, raced, wild, leaked>>

ReleaseEnd(f) ==
    /\ fstate[f] = "closing" /\ rpool[f][1] = 2
    /\ Returns(f) /\ UNCHANGED interrupted

\* A signal ends the wait for the mutex, which another file's call holds:
\* -ERESTARTSYS, which nobody retries.
ReleaseInterrupted(f) ==
    /\ fstate[f] = "closing" /\ rpool[f] \in Walked
    /\ \E g \in Files \ {f} : fstate[g] \in {"open", "closing"}
    /\ Returns(f) /\ interrupted' = interrupted \union {f}

-------------------------------------------------------------------------------
ReleaseStep(f) ==
    \/ ReleaseBegin(f) \/ ReleasePool(f) \/ ReleaseNoHeap(f)
    \/ ReleaseEnd(f) \/ ReleaseInterrupted(f)

Next ==
    /\ ~wild
    /\ \/ RegisterChrdev \/ BlockNotGiven \/ SetUpBlock \/ AllocPool \/ AllocHeap
       \/ FailInit \/ Exit \/ WalkWild
       \/ \E f \in Files :
            \/ Open(f) \/ LateRead(f) \/ ReleaseStep(f)
            \/ \E p \in Pools : Alloc(f, p)
            \/ \E x \in Blocks : AllocFromHeap(f, x)
            \/ \E b \in Addrs : Free(f, b) \/ RegUser(f, b) \/ Mmap(f, b)

Spec == Init /\ [][Next]_vars

-------------------------------------------------------------------------------
(* Properties *)

\* Every variable stays in its type; the reference count is that of open files.
TypeOK ==
    /\ phase \in {"out", "block", "pool", "fail", "live"} /\ par \in Params
    /\ avail \in [Blocks -> Nat] /\ mapped \subseteq Blocks /\ hasHeap \subseteq Blocks
    /\ listed \subseteq Slots /\ heapFree \in [Blocks -> SUBSET Addrs]
    /\ fstate \in [Files -> {"new", "open", "closing", "closed"}]
    /\ refs = Cardinality({f \in Files : fstate[f] = "open"})
    /\ free \in [Slots -> SUBSET Addrs] /\ busy \in [Slots -> SUBSET Addrs]
    /\ users \in [Addrs -> [Files -> Nat]] /\ held \in [Addrs -> [Files -> Nat]]
    /\ lastClose \in [Files -> BOOLEAN] /\ late \in [Files -> Addrs \union {None, Gone}]
    /\ raced \subseteq Files /\ interrupted \subseteq Files
    /\ wild \in BOOLEAN /\ leaked \in BOOLEAN

\* The buffers of a pool, or the blocks of a heap, free or not.
BufsOf(p) == busy[Slot(p)] \union IF IsHeap(p) THEN heapFree[p[1]] ELSE free[Slot(p)]

\* What cmem_init carves from the top of a block, pool by pool, and what a heap gets
\* of the rest, stays apart: whatever is allocated, freed and given back by closes,
\* also while cmem_init still runs, no two buffers overlap and each lies in its own
\* block, which is mapped as long as the module is loaded and no longer.
CarvedApart ==
    /\ \A p \in Walked : \A b \in BufsOf(p) :
         /\ p[1] \in mapped /\ b >= BlockStart(p[1]) /\ b + PoolSize(p) <= BlockEnd(p[1])
         /\ \A q \in Walked : \A c \in BufsOf(q) :
              p # q \/ b # c => b + PoolSize(p) <= c \/ c + PoolSize(q) <= b
    /\ phase = "out" => mapped = {}

\* Whatever mix of allocations, registrations, frees and (interrupted) closes, a
\* buffer is busy exactly as long as someone is registered for it, and never busy
\* and free.
BusyIffRegistered ==
    /\ \A b \in Addrs : ~NoUsers(b) <=> \E p \in Walked : b \in busy[Slot(p)]
    /\ \A p \in Walked : /\ IsHeap(p) => busy[Slot(p)] \cap heapFree[p[1]] = {}
                         /\ ~IsHeap(p) => busy[Slot(p)] \cap free[Slot(p)] = {}

\* "Only when the last registered file descriptor frees a buffer (either
\* explictily, or by auto-cleanup) does a buffer actually get freed" (cmemk.h:136):
\* an open file keeps every registration it made and did not give back.  It does not
\* hold for a file that is opened during a last close.
KeepsRegistered ==
    \A f \in Files, b \in Addrs : fstate[f] = "open" => users[b][f] = held[b][f]

\* "when a process exits or dies without having explicitly freed/unregistered its
\* buffers, they get automatically unregistered" (cmemk.h:132): a closed file has
\* no registration left.  It does not hold when release() is interrupted.
ClosedIsUnregistered ==
    \A f \in Files, b \in Addrs : fstate[f] = "closed" => users[b][f] = 0

\* What the code guarantees of both: a file that was not opened during a last close
\* keeps its registrations as long as it is open, and when its release() was not
\* interrupted it has none left once it is closed.
RegisteredWhileOpen ==
    \A b \in Addrs :
      /\ \A f \in Files \ raced : fstate[f] = "open" => users[b][f] = held[b][f]
      /\ \A f \in Files \ interrupted : fstate[f] = "closed" => users[b][f] = 0

\* REGUSER and mmap read an entry after they dropped the lock (cmemk.c:1799, 1832).
\* It is freed under them only when their own file has no registration left for the
\* buffer, or was opened during a last close.
PendingEntryStays ==
    [][\A f \in Files : late[f] \in Addrs /\ late'[f] = Gone =>
         f \in raced \/ held'[late[f]][f] = 0]_vars

\* No call reads an entry that was freed.  It does not hold: mmap does not ask for a
\* registration, and another thread may free the file's own.
NoLateRead == \A f \in Files : late[f] # Gone

\* No call walks a list before cmem_init has set it up.  It does not hold.
NoWildWalk == ~wild

\* A cmem_init that fails leaves nothing behind.  It does not hold.
FailedInitKeepsNothing == ~leaked

\* GETPOOL ("the pool which best fits the requested size is automatically chosen",
\* cmemk.h:108): no pool of the block with a free buffer fits better, and it offers
\* the heap or nothing only when no pool fits.
GetPoolBestFit ==
    \A x \in Blocks : \A n \in UNION {{PoolSize(q), PoolSize(q) + 1} : q \in Pools} :
      LET Fit == {i \in 0..(NPools(x) - 1) : /\ PoolSize(<<x, i>>) >= n
                                             /\ free[Slot(<<x, i>>)] # {}}
          ans == GetPool(x, n)
      IN  IF Fit = {} THEN ans \in {-1, -2}
          ELSE /\ ans \in Fit
               /\ \A i \in Fit : PoolSize(<<x, ans>>) <= PoolSize(<<x, i>>)
===============================================================================
