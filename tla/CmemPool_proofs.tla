---------------------------- MODULE CmemPool_proofs ----------------------------
(***************************************************************************)
(* The buffers of cmemk, for any files, module parameters and addresses:   *)
(* how cmem_init carves them, who is registered for them, and what a close *)
(* takes back.  Where pools of the two blocks would share an element of    *)
(* p_objs the lists are not what they seem, so the theorems about them ask *)
(* that no block has MAX_POOLS pools; what GETPOOL answers needs no such   *)
(* condition.                                                              *)
(***************************************************************************)
EXTENDS CmemPool, TLAPS, SequenceTheorems, FiniteSetTheorems, WellFoundedInduction

\* The hypothesis of those theorems: an element of p_objs is left for the heap.
NotFull == \A a \in Params : \A x \in Blocks : Len(a.pools[x]) < MaxPools

-------------------------------------------------------------------------------
(* Pages *)

LEMMA DivFacts ==
  ASSUME NEW n \in Nat
  PROVE  /\ n \div Page \in Nat
         /\ (n \div Page) * Page <= n /\ n < (n \div Page) * Page + Page
         /\ n % Page = 0 => n = (n \div Page) * Page
BY PoolAssumption

LEMMA MultipleFacts ==
  ASSUME NEW k \in Int
  PROVE  (k * Page) % Page = 0
BY PoolAssumption

\* Two different multiples are a whole number of units apart.
LEMMA StepFacts ==
  ASSUME NEW u \in Nat, NEW i \in Int, NEW j \in Int, i < j
  PROVE  i * u + u <= j * u
<1>1. j * u - i * u - u = (j - i - 1) * u
  OBVIOUS
<1>2. (j - i - 1) * u >= 0
  OBVIOUS
<1> QED BY <1>1, <1>2

LEMMA PageAlignFacts ==
  ASSUME NEW n \in Nat
  PROVE  /\ PageAlign(n) \in Nat /\ PageAlign(n) >= n /\ PageAlign(n) % Page = 0
         /\ n > 0 => PageAlign(n) > 0
         /\ \E k \in Nat : PageAlign(n) = k * Page
<1>1. n + Page - 1 \in Nat
  BY PoolAssumption
<1>2. PICK k \in Nat : k = (n + Page - 1) \div Page
  BY <1>1, DivFacts
<1>3. k * Page <= n + Page - 1 /\ n + Page - 1 < k * Page + Page
  BY <1>1, <1>2, DivFacts
<1>4. PageAlign(n) = k * Page
  BY <1>2 DEF PageAlign
<1>5. k * Page \in Nat
  BY PoolAssumption
<1>6. k * Page >= n
  BY <1>3, <1>5, PoolAssumption
<1> QED BY <1>4, <1>5, <1>6, MultipleFacts

\* Pages that are not the same do not overlap, and end before a page that begins later.
LEMMA PagesApart ==
  ASSUME NEW b \in Nat, NEW c \in Nat, b % Page = 0, c % Page = 0, b < c
  PROVE  b + Page <= c
<1>1. PICK i \in Nat : i = b \div Page
  BY DivFacts
<1>2. PICK j \in Nat : j = c \div Page
  BY DivFacts
<1>3. b = i * Page /\ c = j * Page
  BY <1>1, <1>2, DivFacts
<1>4. CASE i < j
  BY <1>3, <1>4, StepFacts, PoolAssumption
<1>5. CASE j <= i
  <2>1. i * Page - j * Page = (i - j) * Page
    BY PoolAssumption
  <2>2. (i - j) * Page >= 0
    BY <1>5, PoolAssumption
  <2>3. QED
    BY <1>3, <2>1, <2>2, PoolAssumption
<1> QED BY <1>4, <1>5

LEMMA PageSums ==
  ASSUME NEW b \in Nat, NEW c \in Nat, b % Page = 0, c % Page = 0
  PROVE  /\ (b + c) % Page = 0
         /\ (b - c) % Page = 0
<1>1. PICK i \in Nat : i = b \div Page
  BY DivFacts
<1>2. PICK j \in Nat : j = c \div Page
  BY DivFacts
<1>3. b = i * Page /\ c = j * Page
  BY <1>1, <1>2, DivFacts
<1>4. b + c = (i + j) * Page /\ b - c = (i - j) * Page
  BY <1>3, PoolAssumption
<1> QED BY <1>4, MultipleFacts

\* k buffers of a whole number of pages are a whole number of pages.
LEMMA PageProduct ==
  ASSUME NEW k \in Nat, NEW b \in Nat, b % Page = 0
  PROVE  k * b \in Nat /\ (k * b) % Page = 0
<1>1. PICK i \in Nat : i = b \div Page
  BY DivFacts
<1>2. b = i * Page
  BY <1>1, DivFacts
<1>3. k * b = (k * i) * Page
  BY <1>2, PoolAssumption
<1>4. k * i \in Nat /\ k * b \in Nat
  OBVIOUS
<1> QED BY <1>3, <1>4, MultipleFacts

-------------------------------------------------------------------------------
(* The inductive invariant *)

Ranges == DOMAIN par.mem
OpenFiles == {f \in Files : fstate[f] = "open"}

PoolType ==
    /\ TypeOK /\ at \in Blocks \X (0..MaxPools)
    /\ rpool \in [Files -> Pools \union {<<2, 0>>}] /\ IsFiniteSet(OpenFiles)
    /\ \A b \in Addrs, f \in Files : users[b][f] <= held[b][f]

\* Where cmem_init is: the lists before it are set up, the rest of the block it carves
\* is whole pages.
InitAt ==
    /\ phase = "out" => at = <<0, 0>> /\ mapped = {}
    /\ phase = "block" => at[2] = 0 /\ \A y \in mapped : y < at[1]
    /\ phase = "pool" => /\ at \in Pools /\ at[1] \in mapped /\ \A y \in mapped : y <= at[1]
                         /\ avail[at[1]] % Page = 0
                         /\ avail[at[1]] <= BlockEnd(at[1]) - BlockStart(at[1])
    /\ \A p \in Pools : Slot(p) \in listed =>
         /\ p[1] \in mapped
         /\ phase \in {"out", "block", "pool"} => Before(p, at)
    /\ \A x \in hasHeap : Slot(<<x, NPools(x)>>) \in listed

\* Lists that are not set up have no buffers, and neither has a heap that is not there.
Cleared ==
    /\ \A s \in Slots \ listed : free[s] = {} /\ busy[s] = {}
    /\ \A x \in Blocks \ hasHeap : heapFree[x] = {} /\ busy[Slot(<<x, NPools(x)>>)] = {}

BlocksApart ==
    /\ mapped \subseteq Ranges
    /\ \A x, y \in mapped : x # y => BlockEnd(x) <= BlockStart(y) \/ BlockEnd(y) <= BlockStart(x)

InitInv == InitAt /\ Cleared /\ BlocksApart

\* Buffer b of pool p and buffer c of pool q do not overlap.
ApartFrom(p, b, q, c) == b + PoolSize(p) <= c \/ c + PoolSize(q) <= b

\* What is carved lies in its block, above what cmem_init has left of it, and apart.
Carved ==
    \A p \in Pools : \A b \in BufsOf(p) :
      /\ p[1] \in mapped /\ b >= BlockStart(p[1]) /\ b + PoolSize(p) <= BlockEnd(p[1])
      /\ phase = "pool" /\ p[1] = at[1] => b >= BlockStart(p[1]) + avail[p[1]]
      /\ \A q \in Pools : \A c \in BufsOf(q) : p # q \/ b # c => ApartFrom(p, b, q, c)

\* release() of the last open file takes all registrations: no other file is open then,
\* but those that were opened during it.
NoOpenAtLastClose ==
    \A g \in Files : lastClose[g] =>
      fstate[g] = "closing" /\ \A f \in Files : fstate[f] = "open" => f \in raced

\* A file has registrations from its first call until release() has been to the pool.
ReleasedSoFar ==
    /\ \A f \in Files : fstate[f] # "closing" => rpool[f] = <<0, 0>>
    /\ \A f \in Files : fstate[f] = "closing" =>
         \A p \in Pools : Before(p, rpool[f]) => \A b \in busy[Slot(p)] : users[b][f] = 0
NewHasNone ==
    \A b \in Addrs, f \in Files : fstate[f] = "new" => users[b][f] = 0 /\ held[b][f] = 0
LateIsOpen == \A f \in Files : late[f] # None => fstate[f] = "open"

FilesInv ==
    /\ NoOpenAtLastClose /\ ReleasedSoFar /\ NewHasNone /\ LateIsOpen /\ RegisteredWhileOpen

-------------------------------------------------------------------------------
(* The module's parameters *)

LEMMA ParFacts ==
  ASSUME par \in Params
  PROVE  /\ \A x \in Blocks : NPools(x) \in 0..MaxPools
         /\ \A p \in Pools : /\ p \in Blocks \X (0..MaxPools) /\ p[2] <= NPools(p[1])
                             /\ PoolSize(p) \in Nat /\ PoolSize(p) > 0 /\ PoolSize(p) % Page = 0
                             /\ Slot(p) \in Slots /\ (IsHeap(p) => PoolSize(p) = Page)
         /\ \A x \in Blocks : <<x, NPools(x)>> \in Pools /\ IsHeap(<<x, NPools(x)>>)
         /\ Ranges \subseteq Blocks
         /\ \A x \in Ranges : /\ BlockStart(x) \in Nat /\ BlockStart(x) % Page = 0
                              /\ BlockEnd(x) \in Nat /\ BlockEnd(x) % Page = 0
                              /\ \A b \in BlockStart(x)..(BlockEnd(x) - 1) :
                                   b % Page = 0 => b \in Addrs
<1>1. \A x \in Blocks : par.pools[x] \in Seq([num : Nat, size : Nat \ {0}])
  BY PoolAssumption
<1>2. \A x \in Blocks : NPools(x) \in 0..MaxPools
  BY <1>1, PoolAssumption DEF NPools
<1>3. ASSUME NEW p \in Pools
      PROVE  PoolSize(p) \in Nat /\ PoolSize(p) > 0 /\ PoolSize(p) % Page = 0
  <2>1. CASE IsHeap(p)
    <3>1. (1 * Page) % Page = 0 /\ 1 * Page = Page
      BY MultipleFacts, PoolAssumption
    <3>2. QED
      BY <2>1, <3>1, PoolAssumption DEF PoolSize
  <2>2. CASE ~IsHeap(p)
    <3>1. p[1] \in Blocks /\ p[2] \in 0..MaxPools /\ p[2] <= NPools(p[1]) /\ p[2] # NPools(p[1])
      BY <2>2 DEF Pools, IsHeap
    <3>2. p[2] + 1 \in 1..Len(par.pools[p[1]])
      BY <1>2, <3>1 DEF NPools
    <3>3. par.pools[p[1]][p[2] + 1] \in [num : Nat, size : Nat \ {0}]
      <4>1. PICK S : S = [num : Nat, size : Nat \ {0}]
        OBVIOUS
      <4>2. PICK q : q = par.pools[p[1]]
        OBVIOUS
      <4>3. q \in Seq(S) /\ p[2] + 1 \in 1..Len(q)
        BY <1>1, <3>1, <3>2, <4>1, <4>2
      <4>4. q[p[2] + 1] \in S
        BY <4>3
      <4>5. QED
        BY <4>1, <4>2, <4>4
    <3>4. PICK n \in Nat : n = par.pools[p[1]][p[2] + 1].size /\ n > 0
      BY <3>3
    <3>5. PoolSize(p) = PageAlign(n)
      BY <2>2, <3>4 DEF PoolSize
    <3>6. QED
      BY <3>4, <3>5, PageAlignFacts
  <2>3. QED
    BY <2>1, <2>2
<1>4. \A p \in Pools : p \in Blocks \X (0..MaxPools) /\ p[2] <= NPools(p[1])
  BY DEF Pools
<1>5. \A p \in Pools : Slot(p) \in Slots
  BY <1>4, PoolAssumption DEF Slot, Slots, Blocks
<1>6. \A x \in Blocks : <<x, NPools(x)>> \in Pools /\ IsHeap(<<x, NPools(x)>>)
  BY <1>2 DEF Pools, IsHeap
<1>7. Ranges \subseteq Blocks
  BY PoolAssumption DEF Ranges
<1>8. ASSUME NEW x \in Ranges
      PROVE  /\ BlockStart(x) \in Nat /\ BlockStart(x) % Page = 0
             /\ BlockEnd(x) \in Nat /\ BlockEnd(x) % Page = 0
             /\ \A b \in BlockStart(x)..(BlockEnd(x) - 1) : b % Page = 0 => b \in Addrs
  <2>1. /\ par.mem[x].start \in Nat /\ par.mem[x].end \in Nat
        /\ \A b \in PageAlign(par.mem[x].start)..(PageAlign(par.mem[x].end) - 1) :
             b % Page = 0 => b \in Addrs
    BY PoolAssumption DEF Ranges
  <2>2. QED
    BY <2>1, PageAlignFacts DEF BlockStart, BlockEnd
<1> QED BY <1>2, <1>3, <1>4, <1>5, <1>6, <1>7, <1>8 DEF PoolSize

\* With NotFull every pool has its own element of p_objs.
LEMMA SlotsApart ==
  ASSUME par \in Params, NotFull, NEW p \in Pools, NEW q \in Pools, Slot(p) = Slot(q)
  PROVE  p = q
<1>1. ASSUME NEW r \in Pools
      PROVE  r[2] < MaxPools
  <2>1. r[1] \in Blocks /\ r[2] \in Nat /\ r[2] <= NPools(r[1])
    BY ParFacts
  <2>2. NPools(r[1]) < MaxPools /\ NPools(r[1]) \in Nat
    BY <2>1, ParFacts DEF NotFull, NPools
  <2>3. QED
    BY <2>1, <2>2, PoolAssumption
<1>2. p[1] \in {0, 1} /\ q[1] \in {0, 1} /\ p[2] \in Nat /\ q[2] \in Nat /\ MaxPools \in Nat
  BY ParFacts, PoolAssumption DEF Blocks
<1>3. p[1] = q[1] /\ p[2] = q[2]
  BY <1>1, <1>2 DEF Slot
<1> QED BY <1>3, ParFacts

LEMMA ParStays ==
  ASSUME [Next]_vars
  PROVE  par' = par
BY DEF Next, vars, initVars, RegisterChrdev, BlockNotGiven, SetUpBlock, AllocPool, AllocHeap,
    FailInit, Exit, Unloaded, WalkWild, Open, LateRead, ReleaseStep, ReleaseBegin, ReleasePool,
    ReleaseNoHeap, ReleaseEnd, ReleaseInterrupted, Returns, Alloc, AllocFromHeap, Free, RegUser,
    Mmap

\* What depends on the parameters only.
LEMMA SamePools ==
  ASSUME par' = par
  PROVE  /\ Pools' = Pools /\ Ranges' = Ranges
         /\ \A x : NPools(x)' = NPools(x) /\ BlockStart(x)' = BlockStart(x)
                   /\ BlockEnd(x)' = BlockEnd(x)
         /\ \A p : IsHeap(p)' = IsHeap(p) /\ PoolSize(p)' = PoolSize(p)
BY DEF Pools, Ranges, NPools, BlockStart, BlockEnd, IsHeap, PoolSize

-------------------------------------------------------------------------------
(* What the operations do *)

LEMMA RegisterFacts ==
  ASSUME TypeOK, NEW f \in Files, NEW b \in Addrs, Register(f, b)
  PROVE  /\ users' \in [Addrs -> [Files -> Nat]] /\ held' \in [Addrs -> [Files -> Nat]]
         /\ users'[b][f] = users[b][f] + 1 /\ held'[b][f] = held[b][f] + 1
         /\ \A c \in Addrs, g \in Files : c # b \/ g # f =>
              users'[c][g] = users[c][g] /\ held'[c][g] = held[c][g]
<1>1. users \in [Addrs -> [Files -> Nat]] /\ held \in [Addrs -> [Files -> Nat]]
  BY DEF TypeOK
<1>2. users[b][f] + 1 \in Nat /\ held[b][f] + 1 \in Nat
  BY <1>1
<1>3. /\ users' = [users EXCEPT ![b] = [users[b] EXCEPT ![f] = users[b][f] + 1]]
      /\ held' = [held EXCEPT ![b] = [held[b] EXCEPT ![f] = held[b][f] + 1]]
  BY DEF Register
<1>4. /\ [users[b] EXCEPT ![f] = users[b][f] + 1] \in [Files -> Nat]
      /\ [held[b] EXCEPT ![f] = held[b][f] + 1] \in [Files -> Nat]
  BY <1>1, <1>2
<1>5. users' \in [Addrs -> [Files -> Nat]] /\ held' \in [Addrs -> [Files -> Nat]]
  BY <1>1, <1>3, <1>4
<1> QED BY <1>1, <1>3, <1>5

\* A buffer that is allocated only moves from one list of its pool to the other.
LEMMA AllocFacts ==
  ASSUME PoolType, NotFull, NEW p \in Pools, NEW b \in BufsOf(p), par' = par,
         busy' = [busy EXCEPT ![Slot(p)] = busy[Slot(p)] \union {b}],
         IF IsHeap(p)
         THEN heapFree' = [heapFree EXCEPT ![p[1]] = heapFree[p[1]] \ {b}] /\ free' = free
         ELSE free' = [free EXCEPT ![Slot(p)] = free[Slot(p)] \ {b}] /\ heapFree' = heapFree
  PROVE  /\ busy' \in [Slots -> SUBSET Addrs] /\ free' \in [Slots -> SUBSET Addrs]
         /\ heapFree' \in [Blocks -> SUBSET Addrs] /\ b \in Addrs
         /\ \A q \in Pools : BufsOf(q)' = BufsOf(q)
         /\ \A q \in Pools \ {p} : busy'[Slot(q)] = busy[Slot(q)]
         /\ busy'[Slot(p)] = busy[Slot(p)] \union {b}
         /\ \A s \in Slots : s # Slot(p) => busy'[s] = busy[s] /\ free'[s] = free[s]
         /\ \A x \in Blocks : x # p[1] => heapFree'[x] = heapFree[x]
<1>1. /\ Slot(p) \in Slots /\ p[1] \in Blocks /\ par \in Params
      /\ busy \in [Slots -> SUBSET Addrs] /\ free \in [Slots -> SUBSET Addrs]
      /\ heapFree \in [Blocks -> SUBSET Addrs]
  BY ParFacts DEF PoolType, TypeOK
<1>2. b \in Addrs
  BY <1>1 DEF BufsOf
<1>3. /\ busy' \in [Slots -> SUBSET Addrs] /\ busy'[Slot(p)] = busy[Slot(p)] \union {b}
      /\ \A s \in Slots : s # Slot(p) => busy'[s] = busy[s]
  BY <1>1, <1>2
<1>4. /\ free' \in [Slots -> SUBSET Addrs]
      /\ \A s \in Slots : s # Slot(p) => free'[s] = free[s]
  BY <1>1
<1>5. /\ heapFree' \in [Blocks -> SUBSET Addrs]
      /\ \A x \in Blocks : x # p[1] => heapFree'[x] = heapFree[x]
  BY <1>1
<1>6. \A q \in Pools : IsHeap(q)' = IsHeap(q)
  BY SamePools
<1>7. BufsOf(p)' = BufsOf(p)
  <2>1. CASE IsHeap(p)
    <3>1. heapFree'[p[1]] = heapFree[p[1]] \ {b} /\ BufsOf(p) = busy[Slot(p)] \union heapFree[p[1]]
      BY <1>1, <2>1 DEF BufsOf
    <3>2. BufsOf(p)' = busy'[Slot(p)] \union heapFree'[p[1]]
      BY <1>6, <2>1 DEF BufsOf
    <3>3. QED
      BY <1>3, <3>1, <3>2
  <2>2. CASE ~IsHeap(p)
    <3>1. free'[Slot(p)] = free[Slot(p)] \ {b} /\ BufsOf(p) = busy[Slot(p)] \union free[Slot(p)]
      BY <1>1, <2>2 DEF BufsOf
    <3>2. BufsOf(p)' = busy'[Slot(p)] \union free'[Slot(p)]
      BY <1>6, <2>2 DEF BufsOf
    <3>3. QED
      BY <1>3, <3>1, <3>2
  <2>3. QED
    BY <2>1, <2>2
<1>8. ASSUME NEW q \in Pools \ {p}
      PROVE  BufsOf(q)' = BufsOf(q) /\ busy'[Slot(q)] = busy[Slot(q)]
  <2>1. Slot(q) \in Slots /\ Slot(q) # Slot(p) /\ q[1] \in Blocks
    BY <1>1, SlotsApart, ParFacts
  <2>2. busy'[Slot(q)] = busy[Slot(q)] /\ free'[Slot(q)] = free[Slot(q)]
    BY <1>3, <1>4, <2>1
  <2>3. IsHeap(q) => heapFree'[q[1]] = heapFree[q[1]]
    <3>1. IsHeap(p) /\ IsHeap(q) => p[1] # q[1]
      BY ParFacts, <1>1 DEF IsHeap
    <3>2. QED
      BY <1>5, <2>1, <3>1
  <2>4. QED
    BY <1>6, <2>2, <2>3 DEF BufsOf
<1> QED BY <1>2, <1>3, <1>4, <1>5, <1>7, <1>8

\* ... and so do buffers that are given back.
LEMMA GiveBackFacts ==
  ASSUME PoolType, NotFull, NEW p \in Pools, NEW gone \in SUBSET busy[Slot(p)], par' = par,
         GiveBack(p, gone)
  PROVE  /\ busy' \in [Slots -> SUBSET Addrs] /\ free' \in [Slots -> SUBSET Addrs]
         /\ heapFree' \in [Blocks -> SUBSET Addrs]
         /\ late' \in [Files -> Addrs \union {None, Gone}]
         /\ \A q \in Pools : BufsOf(q)' = BufsOf(q)
         /\ \A q \in Pools \ {p} : busy'[Slot(q)] = busy[Slot(q)]
         /\ busy'[Slot(p)] = busy[Slot(p)] \ gone
         /\ \A s \in Slots : s # Slot(p) => busy'[s] = busy[s] /\ free'[s] = free[s]
         /\ \A x \in Blocks : x # p[1] \/ ~IsHeap(p) => heapFree'[x] = heapFree[x]
         /\ \A g \in Files : late'[g] = late[g] \/ (late[g] \in gone /\ late'[g] = Gone)
<1>1. /\ Slot(p) \in Slots /\ p[1] \in Blocks /\ par \in Params
      /\ busy \in [Slots -> SUBSET Addrs] /\ free \in [Slots -> SUBSET Addrs]
      /\ heapFree \in [Blocks -> SUBSET Addrs] /\ late \in [Files -> Addrs \union {None, Gone}]
  BY ParFacts DEF PoolType, TypeOK
<1>2. /\ busy' = [busy EXCEPT ![Slot(p)] = busy[Slot(p)] \ gone]
      /\ IF IsHeap(p)
         THEN heapFree' = [heapFree EXCEPT ![p[1]] = heapFree[p[1]] \union gone] /\ free' = free
         ELSE free' = [free EXCEPT ![Slot(p)] = free[Slot(p)] \union gone] /\ heapFree' = heapFree
  BY DEF GiveBack
<1>3. /\ busy' \in [Slots -> SUBSET Addrs] /\ busy'[Slot(p)] = busy[Slot(p)] \ gone
      /\ \A s \in Slots : s # Slot(p) => busy'[s] = busy[s]
  BY <1>1, <1>2
<1>4. /\ free' \in [Slots -> SUBSET Addrs]
      /\ \A s \in Slots : s # Slot(p) => free'[s] = free[s]
  BY <1>1, <1>2
<1>5. /\ heapFree' \in [Blocks -> SUBSET Addrs]
      /\ \A x \in Blocks : x # p[1] \/ ~IsHeap(p) => heapFree'[x] = heapFree[x]
  BY <1>1, <1>2
<1>6. \A q \in Pools : IsHeap(q)' = IsHeap(q)
  BY SamePools
<1>7. BufsOf(p)' = BufsOf(p)
  <2>1. CASE IsHeap(p)
    <3>1. /\ heapFree'[p[1]] = heapFree[p[1]] \union gone
          /\ BufsOf(p) = busy[Slot(p)] \union heapFree[p[1]]
      BY <1>1, <1>2, <2>1 DEF BufsOf
    <3>2. BufsOf(p)' = busy'[Slot(p)] \union heapFree'[p[1]]
      BY <1>6, <2>1 DEF BufsOf
    <3>3. QED
      BY <1>3, <3>1, <3>2
  <2>2. CASE ~IsHeap(p)
    <3>1. /\ free'[Slot(p)] = free[Slot(p)] \union gone
          /\ BufsOf(p) = busy[Slot(p)] \union free[Slot(p)]
      BY <1>1, <1>2, <2>2 DEF BufsOf
    <3>2. BufsOf(p)' = busy'[Slot(p)] \union free'[Slot(p)]
      BY <1>6, <2>2 DEF BufsOf
    <3>3. QED
      BY <1>3, <3>1, <3>2
  <2>3. QED
    BY <2>1, <2>2
<1>8. ASSUME NEW q \in Pools \ {p}
      PROVE  BufsOf(q)' = BufsOf(q) /\ busy'[Slot(q)] = busy[Slot(q)]
  <2>1. Slot(q) \in Slots /\ Slot(q) # Slot(p) /\ q[1] \in Blocks
    BY <1>1, SlotsApart, ParFacts
  <2>2. busy'[Slot(q)] = busy[Slot(q)] /\ free'[Slot(q)] = free[Slot(q)]
    BY <1>3, <1>4, <2>1
  <2>3. IsHeap(q) => heapFree'[q[1]] = heapFree[q[1]]
    <3>1. IsHeap(p) /\ IsHeap(q) => p[1] # q[1]
      BY ParFacts, <1>1 DEF IsHeap
    <3>2. QED
      BY <1>5, <2>1, <3>1
  <2>4. QED
    BY <1>6, <2>2, <2>3 DEF BufsOf
<1>9. /\ late' \in [Files -> Addrs \union {None, Gone}]
      /\ \A g \in Files : late'[g] = late[g] \/ (late[g] \in gone /\ late'[g] = Gone)
  BY <1>1 DEF GiveBack
<1> QED BY <1>3, <1>4, <1>5, <1>7, <1>8, <1>9

\* alloc_pool: k buffers from the top of what is left of the block, one below the other.
LEMMA CarveFacts ==
  ASSUME PoolType, InitInv, phase = "pool", NEW k \in Nat, k * PoolSize(at) <= avail[at[1]]
  PROVE  /\ avail[at[1]] - k * PoolSize(at) \in Nat
         /\ (avail[at[1]] - k * PoolSize(at)) % Page = 0
         /\ \A j \in 1..k :
              /\ Carve(at, j) \in Addrs
              /\ Carve(at, j) >= BlockStart(at[1]) + avail[at[1]] - k * PoolSize(at)
              /\ Carve(at, j) + PoolSize(at) <= BlockStart(at[1]) + avail[at[1]]
         /\ \A i, j \in 1..k : i # j => \/ Carve(at, i) + PoolSize(at) <= Carve(at, j)
                                        \/ Carve(at, j) + PoolSize(at) <= Carve(at, i)
<1>1. /\ at[1] \in Ranges /\ at \in Pools /\ par \in Params /\ avail[at[1]] \in Nat
      /\ avail[at[1]] % Page = 0 /\ avail[at[1]] <= BlockEnd(at[1]) - BlockStart(at[1])
  BY DEF PoolType, TypeOK, InitInv, InitAt, BlocksApart
<1>2. PICK start \in Nat : start = BlockStart(at[1]) /\ start % Page = 0
  BY <1>1, ParFacts
<1>3. PICK left \in Nat : left = avail[at[1]] /\ left % Page = 0
  BY <1>1
<1>4. PICK u \in Nat : u = PoolSize(at) /\ u > 0 /\ u % Page = 0
  BY <1>1, ParFacts
<1>5. k * u \in Nat /\ k * u <= left /\ (k * u) % Page = 0
  BY <1>3, <1>4, PageProduct
<1>6. \A j : Carve(at, j) = start + left - j * u
  BY <1>2, <1>3, <1>4 DEF Carve
<1>7. ASSUME NEW j \in 1..k
      PROVE  /\ Carve(at, j) \in Addrs /\ Carve(at, j) >= start + left - k * u
             /\ Carve(at, j) + u <= start + left
  <2>1. j \in Nat /\ j * u \in Nat /\ (j * u) % Page = 0
    <3>1. j \in Nat
      OBVIOUS
    <3>2. QED
      BY <1>4, <3>1, PageProduct
  <2>2. j * u <= k * u
    <3>1. CASE j = k
      BY <3>1, <2>1
    <3>2. CASE j < k
      BY <1>4, <1>5, <2>1, <3>2, StepFacts
    <3>3. QED
      BY <3>1, <3>2
  <2>3. u <= j * u
    <3>1. 0 * u + u <= j * u
      BY <1>4, <2>1, StepFacts
    <3>2. QED
      BY <1>4, <3>1
  <2>4. PICK top \in Nat : top = start + left
    OBVIOUS
  <2>5. (start + left - j * u) % Page = 0
    <3>1. top % Page = 0
      BY <1>2, <1>3, <2>4, PageSums, Zenon
    <3>2. PICK m \in Nat : m = j * u /\ m % Page = 0
      BY <2>1
    <3>3. (top - m) % Page = 0
      BY <3>1, <3>2, PageSums, Zenon
    <3>4. QED
      BY <2>4, <3>2, <3>3
  <2>6. start + left - j * u \in BlockStart(at[1])..(BlockEnd(at[1]) - 1)
    <3>1. BlockEnd(at[1]) \in Nat
      BY <1>1, ParFacts
    <3>2. QED
      BY <1>1, <1>2, <1>3, <1>4, <1>5, <2>1, <2>2, <2>3, <3>1
  <2>7. start + left - j * u \in Addrs
    BY <1>1, <2>5, <2>6, ParFacts
  <2>8. QED
    BY <1>4, <1>5, <1>6, <2>1, <2>2, <2>3, <2>7
<1>8. ASSUME NEW i \in 1..k, NEW j \in 1..k, i < j
      PROVE  Carve(at, j) + u <= Carve(at, i)
  <2>1. i * u + u <= j * u
    BY <1>4, <1>8, StepFacts
  <2>2. i * u \in Nat /\ j * u \in Nat
    BY <1>4
  <2>3. QED
    BY <1>6, <2>1, <2>2
<1>9. \A i, j \in 1..k : i # j => i < j \/ j < i
  OBVIOUS
<1>10. (left - k * u) % Page = 0 /\ left - k * u \in Nat
  <2>1. PICK m \in Nat : m = k * u /\ m % Page = 0 /\ m <= left
    BY <1>5
  <2>2. (left - m) % Page = 0
    BY <1>3, <2>1, PageSums, Zenon
  <2>3. QED
    BY <1>3, <2>1, <2>2
<1> QED BY <1>2, <1>3, <1>4, <1>7, <1>8, <1>9, <1>10

\* The heap gets the pages that are left.
LEMMA HeapFacts ==
  ASSUME PoolType, InitInv, phase = "pool", avail[at[1]] > 0
  PROVE  /\ BlockStart(at[1]) \in Addrs /\ HeapPages(at[1]) \in SUBSET Addrs
         /\ \A b \in HeapPages(at[1]) : /\ b >= BlockStart(at[1])
                                        /\ b + Page <= BlockStart(at[1]) + avail[at[1]]
         /\ \A b, c \in HeapPages(at[1]) : b # c => b + Page <= c \/ c + Page <= b
<1>1. /\ at[1] \in Ranges /\ par \in Params /\ avail[at[1]] \in Nat
      /\ avail[at[1]] % Page = 0 /\ avail[at[1]] <= BlockEnd(at[1]) - BlockStart(at[1])
  BY DEF PoolType, TypeOK, InitInv, InitAt, BlocksApart
<1>2. /\ BlockStart(at[1]) \in Nat /\ BlockStart(at[1]) % Page = 0
      /\ BlockEnd(at[1]) \in Nat
  BY <1>1, ParFacts
<1>3. BlockStart(at[1]) \in BlockStart(at[1])..(BlockEnd(at[1]) - 1)
  BY <1>1, <1>2
<1>4. BlockStart(at[1]) \in Addrs
  BY <1>1, <1>2, <1>3, ParFacts
<1>5. /\ (BlockStart(at[1]) + avail[at[1]]) % Page = 0
      /\ BlockStart(at[1]) + avail[at[1]] \in Nat
  BY <1>1, <1>2, PageSums
<1>6. \A b \in Addrs : b \in Nat /\ b % Page = 0
  BY PoolAssumption
<1>7. \A b \in HeapPages(at[1]) : b + Page <= BlockStart(at[1]) + avail[at[1]]
  BY <1>5, <1>6, PagesApart DEF HeapPages
<1>8. \A b, c \in HeapPages(at[1]) : b # c => b + Page <= c \/ c + Page <= b
  <2>1. SUFFICES ASSUME NEW b \in Addrs, NEW c \in Addrs, b # c
                 PROVE  b + Page <= c \/ c + Page <= b
    BY DEF HeapPages
  <2>2. b \in Nat /\ c \in Nat
    BY <1>6
  <2>3. b < c \/ c < b
    BY <2>1, <2>2
  <2>4. QED
    BY <1>6, <2>2, <2>3, PagesApart
<1> QED BY <1>4, <1>7, <1>8 DEF HeapPages

\* ALLOC and ALLOCHEAP: file f gets buffer b of pool p.
Allocates(f, p, b) ==
    /\ fstate[f] = "open" /\ p \in Walked /\ Slot(p) \in listed
    /\ b \in IF IsHeap(p) THEN heapFree[p[1]] ELSE free[Slot(p)]
    /\ busy' = [busy EXCEPT ![Slot(p)] = busy[Slot(p)] \union {b}]
    /\ IF IsHeap(p)
       THEN heapFree' = [heapFree EXCEPT ![p[1]] = heapFree[p[1]] \ {b}] /\ free' = free
       ELSE free' = [free EXCEPT ![Slot(p)] = free[Slot(p)] \ {b}] /\ heapFree' = heapFree
    /\ Register(f, b)
    /\ UNCHANGED <<initVars, fstate, refs, relVars, late, ghosts>>

LEMMA AllocIsOne ==
  ASSUME par \in Params, InitInv, NEW f \in Files, NEW p \in Pools, Alloc(f, p)
  PROVE  \E b : Allocates(f, p, b)
BY DEF Alloc, Allocates, Walked

LEMMA HeapAllocIsOne ==
  ASSUME par \in Params, InitInv, NEW f \in Files, NEW x \in Blocks, AllocFromHeap(f, x)
  PROVE  \E b : Allocates(f, <<x, NPools(x)>>, b)
<1>1. /\ <<x, NPools(x)>> \in Pools /\ IsHeap(<<x, NPools(x)>>) /\ x \in hasHeap
      /\ Slot(<<x, NPools(x)>>) \in listed
  BY ParFacts DEF AllocFromHeap, InitInv, InitAt
<1>2. <<x, NPools(x)>> \in Walked
  BY <1>1 DEF Walked
<1> QED BY <1>1, <1>2 DEF AllocFromHeap, Allocates

\* FREE gives the buffer back with its last registration.
LEMMA FreeFacts ==
  ASSUME NEW f \in Files, NEW b \in Addrs, Free(f, b)
  PROVE  \E p \in Walked : \E gone \in SUBSET {b} :
           /\ b \in busy[Slot(p)] /\ gone = (IF LastUser(b, f) THEN {b} ELSE {})
           /\ GiveBack(p, gone)
BY DEF Free, FoundIn

\* release() of f drops registrations of the buffers of one pool, and gives back those
\* that have none left.
LEMMA ReleaseFacts ==
  ASSUME TypeOK, NEW f \in Files, ReleasePool(f)
  PROVE  /\ rpool[f] \in Walked /\ fstate[f] = "closing" /\ Slot(rpool[f]) \in listed
         /\ users' \in [Addrs -> [Files -> Nat]] /\ held' \in [Addrs -> [Files -> Nat]]
         /\ \A b \in busy[Slot(rpool[f])], g \in Files :
              users'[b][g] = IF lastClose[f] \/ g = f THEN 0 ELSE users[b][g]
         /\ \A b \in Addrs \ busy[Slot(rpool[f])] : users'[b] = users[b]
         /\ \A b \in Addrs, g \in Files \ {f} : held'[b][g] = held[b][g]
         /\ \A b \in Addrs : held'[b][f] = IF b \in busy[Slot(rpool[f])] THEN 0 ELSE held[b][f]
         /\ GiveBack(rpool[f], {b \in busy[Slot(rpool[f])] : \A g \in Files : users'[b][g] = 0})
<1>1. /\ users \in [Addrs -> [Files -> Nat]] /\ held \in [Addrs -> [Files -> Nat]]
      /\ busy \in [Slots -> SUBSET Addrs]
  BY DEF TypeOK
<1>2. PICK B : B = busy[Slot(rpool[f])]
  OBVIOUS
<1>3. users' = [b \in Addrs |-> IF b \in B
                                THEN [g \in Files |-> IF lastClose[f] \/ g = f THEN 0
                                                      ELSE users[b][g]]
                                ELSE users[b]]
  BY <1>2 DEF ReleasePool, Remaining
<1>4. held' = [b \in Addrs |-> IF b \in B THEN [held[b] EXCEPT ![f] = 0] ELSE held[b]]
  BY <1>2 DEF ReleasePool
<1>5. users' \in [Addrs -> [Files -> Nat]]
  BY <1>1, <1>3
<1>6. /\ held' \in [Addrs -> [Files -> Nat]]
      /\ \A b \in Addrs, g \in Files \ {f} : held'[b][g] = held[b][g]
      /\ \A b \in Addrs : held'[b][f] = IF b \in B THEN 0 ELSE held[b][f]
  BY <1>1, <1>4
<1>7. /\ \A b \in B \cap Addrs, g \in Files :
           users'[b][g] = IF lastClose[f] \/ g = f THEN 0 ELSE users[b][g]
      /\ \A b \in Addrs \ B : users'[b] = users[b]
  BY <1>3
<1>8. B \subseteq Addrs
  BY <1>1, <1>2 DEF ReleasePool, TypeOK
<1>9. GiveBack(rpool[f], {b \in B : \A g \in Files : users'[b][g] = 0})
  BY <1>2 DEF ReleasePool
<1>10. rpool[f] \in Walked /\ fstate[f] = "closing" /\ Slot(rpool[f]) \in listed
  BY DEF ReleasePool
<1> QED BY <1>2, <1>5, <1>6, <1>7, <1>8, <1>9, <1>10

\* What a buffer that is allocated is and does.
LEMMA AllocatesFacts ==
  ASSUME PoolType, NotFull, NEW f \in Files, NEW p \in Pools, NEW b, Allocates(f, p, b)
  PROVE  /\ busy' \in [Slots -> SUBSET Addrs] /\ free' \in [Slots -> SUBSET Addrs]
         /\ heapFree' \in [Blocks -> SUBSET Addrs] /\ b \in Addrs /\ b \in BufsOf(p)
         /\ users' \in [Addrs -> [Files -> Nat]] /\ held' \in [Addrs -> [Files -> Nat]]
         /\ \A q \in Pools : BufsOf(q)' = BufsOf(q)
         /\ \A q \in Pools \ {p} : busy'[Slot(q)] = busy[Slot(q)]
         /\ busy'[Slot(p)] = busy[Slot(p)] \union {b}
         /\ \A s \in Slots : s # Slot(p) => busy'[s] = busy[s] /\ free'[s] = free[s]
         /\ \A x \in Blocks : x # p[1] => heapFree'[x] = heapFree[x]
         /\ users'[b][f] = users[b][f] + 1 /\ held'[b][f] = held[b][f] + 1
         /\ \A c \in Addrs, g \in Files : c # b \/ g # f =>
              users'[c][g] = users[c][g] /\ held'[c][g] = held[c][g]
<1>1. b \in BufsOf(p) /\ par' = par
  BY DEF Allocates, BufsOf, initVars
<1>2. /\ busy' \in [Slots -> SUBSET Addrs] /\ free' \in [Slots -> SUBSET Addrs]
      /\ heapFree' \in [Blocks -> SUBSET Addrs] /\ b \in Addrs
      /\ \A q \in Pools : BufsOf(q)' = BufsOf(q)
      /\ \A q \in Pools \ {p} : busy'[Slot(q)] = busy[Slot(q)]
      /\ busy'[Slot(p)] = busy[Slot(p)] \union {b}
      /\ \A s \in Slots : s # Slot(p) => busy'[s] = busy[s] /\ free'[s] = free[s]
      /\ \A x \in Blocks : x # p[1] => heapFree'[x] = heapFree[x]
  BY <1>1, AllocFacts DEF Allocates
<1> QED BY <1>1, <1>2, RegisterFacts DEF Allocates, PoolType

\* One registration less.
LEMMA FreeUsers ==
  ASSUME TypeOK, NEW f \in Files, NEW b \in Addrs, Free(f, b)
  PROVE  /\ users' \in [Addrs -> [Files -> Nat]]
         /\ users[b][f] > 0 /\ users'[b][f] = users[b][f] - 1 /\ held'[b][f] = held[b][f] - 1
         /\ \A c \in Addrs, g \in Files : c # b \/ g # f =>
              users'[c][g] = users[c][g] /\ held'[c][g] = held[c][g]
<1>1. /\ users \in [Addrs -> [Files -> Nat]] /\ held \in [Addrs -> [Files -> Nat]]
      /\ users[b][f] > 0
  BY DEF TypeOK, Free
<1>2. /\ users' = [users EXCEPT ![b] = [users[b] EXCEPT ![f] = users[b][f] - 1]]
      /\ held' = [held EXCEPT ![b] = [held[b] EXCEPT ![f] = held[b][f] - 1]]
  BY DEF Free
<1>3. users[b][f] - 1 \in Nat
  BY <1>1
<1>4. [users[b] EXCEPT ![f] = users[b][f] - 1] \in [Files -> Nat]
  BY <1>1, <1>3
<1>5. users' \in [Addrs -> [Files -> Nat]]
  BY <1>1, <1>2, <1>4
<1> QED BY <1>1, <1>2, <1>5

-------------------------------------------------------------------------------
(* The types *)

LEMMA TypeInit == ASSUME Init PROVE PoolType
<1> USE PoolAssumption
<1>1. OpenFiles = {} /\ {f \in Files : fstate[f] = "open"} = {}
  BY DEF Init, OpenFiles
<1>2. refs = Cardinality({f \in Files : fstate[f] = "open"}) /\ IsFiniteSet(OpenFiles)
  BY <1>1, FS_EmptySet DEF Init
<1>3. <<0, 0>> \in Pools
  <2>1. par \in Params
    BY DEF Init
  <2>2. NPools(0) \in 0..MaxPools
    BY <2>1, ParFacts DEF Blocks
  <2>3. QED
    BY <2>2 DEF Pools, Blocks
<1>4. at \in Blocks \X (0..MaxPools) /\ rpool \in [Files -> Pools \union {<<2, 0>>}]
  BY <1>3 DEF Init, Blocks
<1>5. users \in [Addrs -> [Files -> Nat]] /\ held \in [Addrs -> [Files -> Nat]]
  BY DEF Init
<1>6. avail \in [Blocks -> Nat] /\ heapFree \in [Blocks -> SUBSET Addrs]
  BY DEF Init
<1>7. free \in [Slots -> SUBSET Addrs] /\ busy \in [Slots -> SUBSET Addrs]
  BY DEF Init
<1>8. fstate \in [Files -> {"new", "open", "closing", "closed"}]
  BY DEF Init
<1>9. TypeOK
  BY <1>2, <1>5, <1>6, <1>7, <1>8 DEF Init, TypeOK
<1>10. \A b \in Addrs, f \in Files : users[b][f] <= held[b][f]
  BY DEF Init
<1> QED BY <1>2, <1>4, <1>9, <1>10 DEF PoolType

\* The variables of cmem_init, of the pools and of the files, one group at a time.
InitType ==
    /\ phase \in {"out", "block", "pool", "fail", "live"} /\ par \in Params
    /\ avail \in [Blocks -> Nat] /\ mapped \subseteq Blocks /\ hasHeap \subseteq Blocks
    /\ listed \subseteq Slots /\ at \in Blocks \X (0..MaxPools)
    /\ wild \in BOOLEAN /\ leaked \in BOOLEAN
ListType ==
    /\ heapFree \in [Blocks -> SUBSET Addrs]
    /\ free \in [Slots -> SUBSET Addrs] /\ busy \in [Slots -> SUBSET Addrs]
UserType ==
    /\ users \in [Addrs -> [Files -> Nat]] /\ held \in [Addrs -> [Files -> Nat]]
    /\ \A b \in Addrs, f \in Files : users[b][f] <= held[b][f]
FileType ==
    /\ fstate \in [Files -> {"new", "open", "closing", "closed"}]
    /\ refs = Cardinality(OpenFiles) /\ IsFiniteSet(OpenFiles)
    /\ lastClose \in [Files -> BOOLEAN] /\ raced \subseteq Files /\ interrupted \subseteq Files
    /\ rpool \in [Files -> Pools \union {<<2, 0>>}]
LateType == late \in [Files -> Addrs \union {None, Gone}]

LEMMA PoolTypeParts == PoolType <=> InitType /\ ListType /\ UserType /\ FileType /\ LateType
BY DEF PoolType, TypeOK, InitType, ListType, UserType, FileType, LateType, OpenFiles

LEMMA PoolTypeParts2 ==
  PoolType' <=> InitType' /\ ListType' /\ UserType' /\ FileType' /\ LateType'
BY DEF PoolType, TypeOK, InitType, ListType, UserType, FileType, LateType, OpenFiles

LEMMA InitTypeNext ==
  ASSUME PoolType, InitInv, [Next]_vars
  PROVE  InitType'
<1> USE PoolAssumption
<1>0. /\ InitType /\ NPools(0) \in 0..MaxPools /\ 0 \in Blocks /\ 1 \in Blocks
      /\ \A p \in Pools : Slot(p) \in Slots /\ p \in Blocks \X (0..MaxPools)
  BY PoolTypeParts, ParFacts DEF InitType, Blocks
<1>1. CASE RegisterChrdev \/ BlockNotGiven
  <2>1. UNCHANGED <<par, avail, mapped, listed, hasHeap, wild, leaked>>
    BY <1>1 DEF RegisterChrdev, BlockNotGiven
  <2>2. at' \in Blocks \X (0..MaxPools) /\ phase' \in {"out", "block", "pool", "fail", "live"}
    <3>1. <<0, 0>> \in Blocks \X (0..MaxPools)
      BY <1>0
    <3>2. QED
      BY <1>0, <1>1, <3>1 DEF RegisterChrdev, BlockNotGiven, InitType
  <2>3. QED
    BY <1>0, <2>1, <2>2 DEF InitType
<1>8. CASE Exit \/ FailInit
  <2>1. InUse \in BOOLEAN /\ (\E s \in Slots : free[s] # {}) \in BOOLEAN
    BY DEF InUse
  <2>2. leaked' \in BOOLEAN /\ wild' \in BOOLEAN
    BY <1>0, <1>8, <2>1 DEF Exit, FailInit, InitType
  <2>3. Unloaded /\ mapped' = {}
    BY <1>8 DEF Exit, FailInit
  <2>4. <<0, 0>> \in Blocks \X (0..MaxPools)
    BY <1>0
  <2>5. avail' \in [Blocks -> Nat]
    BY <2>3 DEF Unloaded
  <2>6. QED
    BY <1>0, <2>2, <2>3, <2>4, <2>5 DEF Unloaded, InitType
<1>2. CASE SetUpBlock
  <2>1. PICK x \in Ranges : x = at[1]
    BY <1>2 DEF SetUpBlock, Ranges
  <2>2. /\ x \in Blocks /\ BlockEnd(x) \in Nat /\ BlockStart(x) \in Nat
    BY <1>0, ParFacts DEF InitType
  <2>3. \/ BlockEnd(x) > BlockStart(x) /\ phase' = "pool" /\ mapped' = mapped \union {x}
           /\ avail' = [avail EXCEPT ![x] = BlockEnd(x) - BlockStart(x)]
        \/ phase' = "fail" /\ UNCHANGED <<mapped, avail>>
    BY <1>2, <2>1 DEF SetUpBlock
  <2>4. avail' \in [Blocks -> Nat]
    BY <1>0, <2>2, <2>3 DEF InitType
  <2>5. QED
    BY <1>0, <1>2, <2>2, <2>3, <2>4 DEF SetUpBlock, InitType
<1>3. CASE AllocPool
  <2>1. /\ at \in Pools /\ at[2] < NPools(at[1]) /\ at[1] \in Blocks
        /\ at[2] \in Nat /\ NPools(at[1]) \in 0..MaxPools
    BY <1>0, <1>3, ParFacts DEF AllocPool, InitInv, InitAt, InitType
  <2>2. PICK k \in 0..(par.pools[at[1]][at[2] + 1].num) :
             /\ k * PoolSize(at) <= avail[at[1]]
             /\ avail' = [avail EXCEPT ![at[1]] = avail[at[1]] - k * PoolSize(at)]
             /\ \/ at' = <<at[1], at[2] + 1>> /\ UNCHANGED phase
                \/ phase' = "fail" /\ UNCHANGED at
    BY <1>3 DEF AllocPool
  <2>3. avail[at[1]] - k * PoolSize(at) \in Nat
    BY <1>3, <2>2, CarveFacts DEF AllocPool
  <2>4. avail' \in [Blocks -> Nat]
    BY <1>0, <2>1, <2>2, <2>3 DEF InitType
  <2>7. at' \in Blocks \X (0..MaxPools)
    <3>1. at[2] + 1 \in 0..MaxPools
      BY <2>1
    <3>2. <<at[1], at[2] + 1>> \in Blocks \X (0..MaxPools)
      BY <2>1, <3>1
    <3>3. QED
      BY <1>0, <2>2, <3>2 DEF InitType
  <2>5. phase' \in {"out", "block", "pool", "fail", "live"}
    BY <1>0, <2>2 DEF InitType
  <2>6. QED
    BY <1>0, <1>3, <2>1, <2>4, <2>5, <2>7 DEF AllocPool, InitType
<1>4. CASE AllocHeap
  <2>1. at \in Pools /\ at[1] \in Blocks
    BY <1>0, <1>4 DEF AllocHeap, InitInv, InitAt
  <2>2. avail' = avail \/ avail' = [avail EXCEPT ![at[1]] = 0]
    BY <1>4 DEF AllocHeap
  <2>3. avail' \in [Blocks -> Nat]
    BY <1>0, <2>2 DEF InitType
  <2>4. listed' \subseteq Slots /\ hasHeap' \subseteq Blocks
    BY <1>0, <1>4, <2>1 DEF AllocHeap, InitType
  <2>5. at' \in Blocks \X (0..MaxPools) /\ phase' \in {"out", "block", "pool", "fail", "live"}
    BY <1>0, <1>4 DEF AllocHeap, InitType
  <2>6. QED
    BY <1>0, <1>4, <2>3, <2>4, <2>5 DEF AllocHeap, InitType
<1>5. CASE UNCHANGED initVars /\ UNCHANGED leaked /\ wild' \in BOOLEAN
  BY <1>0, <1>5 DEF initVars, InitType
<1>6. ASSUME NEW f \in Files,
             \/ Open(f) \/ LateRead(f) \/ ReleaseStep(f)
             \/ \E p \in Pools : Alloc(f, p)
             \/ \E x \in Blocks : AllocFromHeap(f, x)
             \/ \E b \in Addrs : Free(f, b) \/ RegUser(f, b) \/ Mmap(f, b)
      PROVE  UNCHANGED initVars /\ UNCHANGED leaked /\ UNCHANGED wild
  BY <1>6 DEF Open, LateRead, ReleaseStep, ReleaseBegin, ReleasePool, ReleaseNoHeap, ReleaseEnd,
      ReleaseInterrupted, Returns, Alloc, AllocFromHeap, Free, RegUser, Mmap, ghosts, initVars
<1>7. CASE WalkWild \/ UNCHANGED vars
  BY <1>0, <1>5, <1>7 DEF WalkWild, vars, ghosts, initVars, InitType
<1> QED
  BY <1>0, <1>1, <1>2, <1>3, <1>4, <1>5, <1>6, <1>7, <1>8 DEF Next, InitType

\* A step is one of cmem_init or cmem_exit, takes or gives back buffers, registers a
\* file once more, or leaves the buffers as they are.
Quiet == UNCHANGED <<initVars, poolVars, held>>

LEMMA StepCases ==
  ASSUME PoolType, InitInv, [Next]_vars
  PROVE  \/ RegisterChrdev \/ BlockNotGiven \/ SetUpBlock \/ AllocPool \/ AllocHeap
         \/ FailInit \/ Exit \/ Quiet
         \/ \E f \in Files, b \in Addrs : RegUser(f, b)
         \/ \E f \in Files, p \in Pools : \E b : Allocates(f, p, b)
         \/ \E f \in Files, b \in Addrs : Free(f, b)
         \/ \E f \in Files : ReleasePool(f)
<1>1. CASE UNCHANGED vars \/ WalkWild
  BY <1>1 DEF WalkWild, others, vars, Quiet
<1>2. ASSUME NEW f \in Files,
             \/ Open(f) \/ LateRead(f) \/ ReleaseBegin(f) \/ ReleaseNoHeap(f) \/ ReleaseEnd(f)
             \/ ReleaseInterrupted(f) \/ \E b \in Addrs : Mmap(f, b)
      PROVE  Quiet
  BY <1>2 DEF Quiet, Open, LateRead, ReleaseBegin, ReleaseNoHeap, ReleaseEnd,
     ReleaseInterrupted, Returns, Mmap
<1>3. par \in Params
  BY DEF PoolType, TypeOK
<1>4. ASSUME NEW f \in Files, NEW x \in Blocks, AllocFromHeap(f, x)
      PROVE  \E p \in Pools : \E b : Allocates(f, p, b)
  BY <1>3, <1>4, ParFacts, HeapAllocIsOne
<1>5. ASSUME NEW f \in Files, NEW p \in Pools, Alloc(f, p)
      PROVE  \E b : Allocates(f, p, b)
  BY <1>3, <1>5, AllocIsOne
<1> QED BY <1>1, <1>2, <1>4, <1>5 DEF Next, ReleaseStep

LEMMA ListTypeNext ==
  ASSUME PoolType, NotFull, InitInv, [Next]_vars
  PROVE  ListType'
<1> USE PoolAssumption
<1>0. /\ ListType /\ par' = par
      /\ \A p \in Pools : Slot(p) \in Slots /\ p \in Blocks \X (0..MaxPools)
  BY PoolTypeParts, ParFacts, ParStays DEF InitType
<1>1. CASE \/ RegisterChrdev \/ BlockNotGiven \/ SetUpBlock \/ Quiet
           \/ \E f \in Files, b \in Addrs : RegUser(f, b)
  BY <1>0, <1>1 DEF RegisterChrdev, BlockNotGiven, SetUpBlock, Quiet, RegUser, poolVars, ListType
<1>2. CASE AllocPool
  <2>1. at \in Pools /\ phase = "pool"
    BY <1>2, <1>0 DEF AllocPool, InitInv, InitAt
  <2>6. PICK k \in 0..(par.pools[at[1]][at[2] + 1].num) :
          /\ k * PoolSize(at) <= avail[at[1]]
          /\ free' = [free EXCEPT ![Slot(at)] = {Carve(at, j) : j \in 1..k}]
    BY <1>2, Zenon DEF AllocPool
  <2>2. k \in Nat /\ k * PoolSize(at) <= avail[at[1]]
    BY <2>6
  <2>3. {Carve(at, j) : j \in 1..k} \in SUBSET Addrs
    BY <2>1, <2>2, CarveFacts
  <2>4. free' \in [Slots -> SUBSET Addrs]
    BY <1>0, <2>1, <2>6, <2>3 DEF ListType
  <2>5. QED
    BY <1>0, <1>2, <2>4 DEF AllocPool, ListType
<1>3. CASE AllocHeap
  <2>1. at \in Pools /\ at[1] \in Blocks /\ phase = "pool" /\ Slot(at) \in Slots
    BY <1>3, <1>0 DEF AllocHeap, InitInv, InitAt
  <2>2. CASE avail[at[1]] > 0
    <3>1. {BlockStart(at[1])} \in SUBSET Addrs /\ HeapPages(at[1]) \in SUBSET Addrs
      BY <2>1, <2>2, HeapFacts
    <3>2. free' \in [Slots -> SUBSET Addrs]
      BY <1>0, <1>3, <2>1, <3>1 DEF AllocHeap, ListType
    <3>3. busy' \in [Slots -> SUBSET Addrs]
      BY <1>0, <1>3, <2>1 DEF AllocHeap, ListType
    <3>4. heapFree' \in [Blocks -> SUBSET Addrs]
      BY <1>0, <1>3, <2>1, <3>1 DEF AllocHeap, ListType
    <3>5. QED
      BY <3>2, <3>3, <3>4 DEF ListType
  <2>3. CASE ~(avail[at[1]] > 0)
    BY <1>0, <1>3, <2>3 DEF AllocHeap, ListType
  <2>4. QED
    BY <2>2, <2>3
<1>4. CASE FailInit \/ Exit
  BY <1>4 DEF FailInit, Exit, Unloaded, ListType
<1>5. ASSUME NEW f \in Files, NEW p \in Pools, NEW b, Allocates(f, p, b)
      PROVE  ListType'
  BY <1>5, AllocatesFacts DEF ListType
<1>6. ASSUME NEW f \in Files, NEW b \in Addrs, Free(f, b)
      PROVE  ListType'
  BY <1>0, <1>6, FreeFacts, GiveBackFacts DEF ListType, Walked
<1>7. ASSUME NEW f \in Files, ReleasePool(f)
      PROVE  ListType'
  <2>1. PICK gone \in SUBSET busy[Slot(rpool[f])] : rpool[f] \in Walked /\ GiveBack(rpool[f], gone)
    BY <1>7, ReleaseFacts DEF PoolType
  <2>2. QED
    BY <1>0, <2>1, GiveBackFacts DEF ListType, Walked
<1> QED BY <1>1, <1>2, <1>3, <1>4, <1>5, <1>6, <1>7, StepCases

LEMMA UserTypeNext ==
  ASSUME PoolType, NotFull, InitInv, [Next]_vars
  PROVE  UserType'
<1>0. /\ UserType /\ TypeOK
      /\ users \in [Addrs -> [Files -> Nat]] /\ held \in [Addrs -> [Files -> Nat]]
      /\ \A c \in Addrs, g \in Files : users[c][g] <= held[c][g]
  BY PoolTypeParts DEF PoolType, UserType
<1>1. CASE RegisterChrdev \/ BlockNotGiven \/ SetUpBlock \/ AllocPool \/ AllocHeap \/ Quiet
  BY <1>0, <1>1 DEF RegisterChrdev, BlockNotGiven, SetUpBlock, AllocPool, AllocHeap, Quiet,
     poolVars, others, UserType
<1>2. CASE FailInit \/ Exit
  <2>1. Unloaded
    BY <1>2 DEF FailInit, Exit
  <2>2. QED
    BY <2>1 DEF Unloaded, UserType
<1>3. ASSUME NEW f \in Files, NEW b \in Addrs,
             RegUser(f, b) \/ \E p \in Pools : Allocates(f, p, b)
      PROVE  UserType'
  <2>1. /\ users' \in [Addrs -> [Files -> Nat]] /\ held' \in [Addrs -> [Files -> Nat]]
        /\ users'[b][f] = users[b][f] + 1 /\ held'[b][f] = held[b][f] + 1
        /\ \A c \in Addrs, g \in Files : c # b \/ g # f =>
              users'[c][g] = users[c][g] /\ held'[c][g] = held[c][g]
    <3>1. Register(f, b)
      BY <1>3 DEF RegUser, Allocates
    <3>2. QED
      BY <1>0, <3>1, RegisterFacts
  <2>2. ASSUME NEW c \in Addrs, NEW g \in Files
        PROVE  users'[c][g] <= held'[c][g]
    <3>1. users[c][g] \in Nat /\ held[c][g] \in Nat /\ users[c][g] <= held[c][g]
      BY <1>0
    <3>2. CASE c = b /\ g = f
      BY <2>1, <3>1, <3>2
    <3>3. CASE c # b \/ g # f
      BY <2>1, <3>1, <3>3
    <3>4. QED
      BY <3>2, <3>3
  <2>3. QED
    BY <2>1, <2>2 DEF UserType
<1>4. ASSUME NEW f \in Files, NEW p \in Pools, NEW b, Allocates(f, p, b)
      PROVE  UserType'
  BY <1>3, <1>4, AllocatesFacts
<1>5. ASSUME NEW f \in Files, NEW b \in Addrs, Free(f, b)
      PROVE  UserType'
  <2>1. /\ users' \in [Addrs -> [Files -> Nat]]
        /\ users[b][f] > 0 /\ users'[b][f] = users[b][f] - 1 /\ held'[b][f] = held[b][f] - 1
        /\ \A c \in Addrs, g \in Files : c # b \/ g # f =>
              users'[c][g] = users[c][g] /\ held'[c][g] = held[c][g]
    BY <1>0, <1>5, FreeUsers
  <2>2. held' \in [Addrs -> [Files -> Nat]]
    <3>1. held' = [held EXCEPT ![b] = [held[b] EXCEPT ![f] = held[b][f] - 1]]
      BY <1>0, <1>5 DEF Free
    <3>2. users[b][f] \in Nat /\ held[b][f] \in Nat /\ users[b][f] <= held[b][f]
      BY <1>0
    <3>3. held[b][f] - 1 \in Nat
      BY <2>1, <3>2
    <3>4. [held[b] EXCEPT ![f] = held[b][f] - 1] \in [Files -> Nat]
      BY <1>0, <3>3
    <3>5. QED
      BY <1>0, <3>1, <3>4
  <2>3. ASSUME NEW c \in Addrs, NEW g \in Files
        PROVE  users'[c][g] <= held'[c][g]
    <3>1. users[c][g] \in Nat /\ held[c][g] \in Nat /\ users[c][g] <= held[c][g]
      BY <1>0
    <3>2. CASE c = b /\ g = f
      BY <2>1, <3>1, <3>2
    <3>3. CASE c # b \/ g # f
      BY <2>1, <3>1, <3>3
    <3>4. QED
      BY <3>2, <3>3
  <2>4. QED
    BY <2>1, <2>2, <2>3 DEF UserType
<1>6. ASSUME NEW f \in Files, ReleasePool(f)
      PROVE  UserType'
  <2>1. PICK B : B = busy[Slot(rpool[f])]
    OBVIOUS
  <2>2. /\ users' \in [Addrs -> [Files -> Nat]] /\ held' \in [Addrs -> [Files -> Nat]]
        /\ \A b \in B, g \in Files :
              users'[b][g] = IF lastClose[f] \/ g = f THEN 0 ELSE users[b][g]
        /\ \A b \in Addrs \ B : users'[b] = users[b]
        /\ \A b \in Addrs, g \in Files \ {f} : held'[b][g] = held[b][g]
        /\ \A b \in Addrs : held'[b][f] = IF b \in B THEN 0 ELSE held[b][f]
    BY <1>0, <1>6, <2>1, ReleaseFacts
  <2>3. ASSUME NEW b \in Addrs, NEW g \in Files
        PROVE  users'[b][g] <= held'[b][g]
    <3>1. users[b][g] \in Nat /\ held[b][g] \in Nat /\ users[b][g] <= held[b][g]
          /\ held'[b][g] \in Nat
      BY <1>0, <2>2
    <3>2. CASE g = f
      BY <2>2, <3>1, <3>2
    <3>3. CASE g # f
      <4>1. held'[b][g] = held[b][g]
        BY <2>2, <3>3
      <4>2. users'[b][g] = users[b][g] \/ users'[b][g] = 0
        BY <2>2, <3>3
      <4>3. QED
        BY <3>1, <4>1, <4>2
    <3>4. QED
      BY <3>2, <3>3
  <2>4. QED
    BY <2>2, <2>3 DEF UserType
<1> QED BY <1>1, <1>2, <1>3, <1>4, <1>5, <1>6, StepCases

\* The pool that release() visits after p.
After(p) == IF IsHeap(p) THEN <<p[1] + 1, 0>> ELSE <<p[1], p[2] + 1>>

LEMMA AfterFacts ==
  ASSUME par \in Params, NEW p \in Pools
  PROVE  /\ After(p) \in Pools \union {<<2, 0>>}
         /\ \A q \in Pools : Before(q, After(p)) => q = p \/ Before(q, p)
<1>1. /\ p = <<p[1], p[2]>> /\ p[1] \in {0, 1} /\ p[2] \in 0..MaxPools
      /\ NPools(p[1]) \in 0..MaxPools /\ p[2] <= NPools(p[1]) /\ NPools(1) \in 0..MaxPools
      /\ MaxPools \in Nat
  BY ParFacts, PoolAssumption DEF Blocks
<1>2. CASE IsHeap(p)
  <2>1. After(p) = <<p[1] + 1, 0>> /\ p[2] = NPools(p[1])
    BY <1>2 DEF After, IsHeap
  <2>2. <<1, 0>> \in Pools
    BY <1>1 DEF Pools, Blocks
  <2>3. After(p) = <<1, 0>> \/ After(p) = <<2, 0>>
    BY <1>1, <2>1
  <2>4. ASSUME NEW q \in Pools, Before(q, After(p))
        PROVE  q = p \/ Before(q, p)
    <3>1. /\ q = <<q[1], q[2]>> /\ q[1] \in {0, 1} /\ q[2] \in 0..MaxPools
          /\ q[2] <= NPools(q[1])
      BY ParFacts DEF Blocks
    <3>2. q[1] < p[1] + 1
      BY <1>1, <2>1, <2>4, <3>1 DEF Before
    <3>3. CASE q[1] < p[1]
      BY <3>3 DEF Before
    <3>4. CASE q[1] = p[1]
      BY <1>1, <2>1, <3>1, <3>4 DEF Before
    <3>5. QED
      BY <1>1, <3>1, <3>2, <3>3, <3>4
  <2>5. QED
    BY <2>2, <2>3, <2>4
<1>3. CASE ~IsHeap(p)
  <2>1. After(p) = <<p[1], p[2] + 1>> /\ p[2] # NPools(p[1])
    BY <1>3 DEF After, IsHeap
  <2>2. p[2] + 1 \in 0..MaxPools /\ p[2] + 1 <= NPools(p[1])
    BY <1>1, <2>1
  <2>3. After(p) \in Pools
    BY <1>1, <2>1, <2>2 DEF Pools, Blocks
  <2>4. ASSUME NEW q \in Pools, Before(q, After(p))
        PROVE  q = p \/ Before(q, p)
    <3>1. q = <<q[1], q[2]>> /\ q[1] \in {0, 1} /\ q[2] \in 0..MaxPools
      BY ParFacts DEF Blocks
    <3>2. q[1] < p[1] \/ (q[1] = p[1] /\ q[2] < p[2] + 1)
      BY <2>1, <2>4 DEF Before
    <3>3. CASE q[1] < p[1]
      BY <3>3 DEF Before
    <3>4. CASE q[1] = p[1] /\ q[2] < p[2] + 1
      BY <1>1, <3>1, <3>4 DEF Before
    <3>5. QED
      BY <3>2, <3>3, <3>4
  <2>5. QED
    BY <2>3, <2>4
<1> QED BY <1>2, <1>3

LEMMA FileTypeNext ==
  ASSUME PoolType, InitInv, [Next]_vars
  PROVE  FileType'
<1>0. /\ FileType /\ par' = par /\ par \in Params /\ Pools' = Pools
      /\ refs = Cardinality(OpenFiles) /\ IsFiniteSet(OpenFiles)
      /\ fstate \in [Files -> {"new", "open", "closing", "closed"}]
      /\ rpool \in [Files -> Pools \union {<<2, 0>>}]
  BY PoolTypeParts, ParStays, SamePools DEF InitType, FileType
<1>1. CASE UNCHANGED <<fstate, refs, relVars, raced, interrupted>>
  BY <1>0, <1>1 DEF FileType, OpenFiles, relVars
<1>2. CASE \/ RegisterChrdev \/ BlockNotGiven \/ SetUpBlock \/ AllocPool \/ AllocHeap
           \/ FailInit \/ Exit \/ WalkWild \/ UNCHANGED vars
  BY <1>1, <1>2 DEF RegisterChrdev, BlockNotGiven, SetUpBlock, AllocPool, AllocHeap, FailInit,
     Exit, Unloaded, WalkWild, others, vars, ghosts
<1>3. ASSUME NEW f \in Files,
             \/ LateRead(f) \/ \E p \in Pools : Alloc(f, p)
             \/ \E x \in Blocks : AllocFromHeap(f, x)
             \/ \E b \in Addrs : Free(f, b) \/ RegUser(f, b) \/ Mmap(f, b)
      PROVE  FileType'
  BY <1>1, <1>3 DEF LateRead, Alloc, AllocFromHeap, Free, RegUser, Mmap, ghosts
<1>4. ASSUME NEW f \in Files, Open(f)
      PROVE  FileType'
  <2>1. OpenFiles' = OpenFiles \union {f} /\ f \notin OpenFiles
    BY <1>0, <1>4 DEF Open, OpenFiles
  <2>2. IsFiniteSet(OpenFiles') /\ Cardinality(OpenFiles') = Cardinality(OpenFiles) + 1
    BY <1>0, <2>1, FS_AddElement
  <2>3. refs' = Cardinality(OpenFiles')
    BY <1>0, <1>4, <2>2 DEF Open
  <2>4. QED
    BY <1>0, <1>4, <2>2, <2>3 DEF Open, FileType, relVars
<1>5. ASSUME NEW f \in Files, ReleaseBegin(f)
      PROVE  FileType'
  <2>1. OpenFiles' = OpenFiles \ {f} /\ f \in OpenFiles
    BY <1>0, <1>5 DEF ReleaseBegin, OpenFiles
  <2>2. IsFiniteSet(OpenFiles') /\ Cardinality(OpenFiles') = Cardinality(OpenFiles) - 1
    BY <1>0, <2>1, FS_RemoveElement
  <2>3. refs' = Cardinality(OpenFiles')
    BY <1>0, <1>5, <2>2 DEF ReleaseBegin
  <2>4. QED
    BY <1>0, <1>5, <2>2, <2>3 DEF ReleaseBegin, FileType, ghosts
<1>6. ASSUME NEW f \in Files, ReleasePool(f) \/ ReleaseNoHeap(f)
      PROVE  FileType'
  <2>1. rpool[f] \in Pools /\ rpool' = [rpool EXCEPT ![f] = After(rpool[f])]
    <3>1. CASE ReleasePool(f)
      <4>1. rpool[f] \in Pools
        BY <3>1 DEF ReleasePool, Walked
      <4>2. rpool' = [rpool EXCEPT ![f] = After(rpool[f])]
        BY <3>1, Zenon DEF ReleasePool, After
      <4>3. QED
        BY <4>1, <4>2
    <3>2. CASE ReleaseNoHeap(f)
      <4>1. rpool[f] \in Pools /\ IsHeap(rpool[f])
        BY <3>2 DEF ReleaseNoHeap, Walked
      <4>2. After(rpool[f]) = <<rpool[f][1] + 1, 0>>
        BY <4>1 DEF After
      <4>3. rpool' = [rpool EXCEPT ![f] = <<rpool[f][1] + 1, 0>>]
        BY <3>2 DEF ReleaseNoHeap
      <4>4. QED
        BY <4>1, <4>2, <4>3
    <3>3. QED
      BY <1>6, <3>1, <3>2
  <2>2. rpool' \in [Files -> Pools \union {<<2, 0>>}]
    BY <1>0, <2>1, AfterFacts
  <2>3. QED
    BY <1>0, <1>6, <2>2 DEF ReleasePool, ReleaseNoHeap, FileType, OpenFiles, ghosts
<1>7. ASSUME NEW f \in Files, ReleaseEnd(f) \/ ReleaseInterrupted(f)
      PROVE  FileType'
  <2>1. OpenFiles' = OpenFiles
    BY <1>0, <1>7 DEF ReleaseEnd, ReleaseInterrupted, Returns, OpenFiles
  <2>2. <<0, 0>> \in Pools
    <3>1. 0 \in Blocks /\ NPools(0) \in 0..MaxPools /\ MaxPools \in Nat
      BY <1>0, ParFacts, PoolAssumption DEF Blocks
    <3>2. QED
      BY <3>1 DEF Pools
  <2>3. QED
    BY <1>0, <1>7, <2>1, <2>2 DEF ReleaseEnd, ReleaseInterrupted, Returns, FileType
<1> QED BY <1>2, <1>3, <1>4, <1>5, <1>6, <1>7 DEF Next, ReleaseStep

LEMMA LateTypeNext ==
  ASSUME PoolType, NotFull, InitInv, [Next]_vars
  PROVE  LateType'
<1>0. LateType /\ par' = par
  BY PoolTypeParts, ParStays
<1>1. CASE \/ RegisterChrdev \/ BlockNotGiven \/ SetUpBlock \/ AllocPool \/ AllocHeap
           \/ FailInit \/ Exit \/ WalkWild \/ UNCHANGED vars
  BY <1>0, <1>1 DEF RegisterChrdev, BlockNotGiven, SetUpBlock, AllocPool, AllocHeap, FailInit,
     Exit, Unloaded, WalkWild, others, vars, LateType
<1>2. ASSUME NEW f \in Files,
             \/ LateRead(f) \/ Open(f) \/ ReleaseBegin(f) \/ ReleaseNoHeap(f) \/ ReleaseEnd(f)
             \/ ReleaseInterrupted(f) \/ \E p \in Pools : Alloc(f, p)
             \/ \E x \in Blocks : AllocFromHeap(f, x)
             \/ \E b \in Addrs : RegUser(f, b) \/ Mmap(f, b)
      PROVE  LateType'
  BY <1>0, <1>2 DEF Open, ReleaseBegin, ReleaseNoHeap, ReleaseEnd, ReleaseInterrupted, Returns,
     LateRead, Alloc, AllocFromHeap, RegUser, Mmap, GoesOnWith, LateType
<1>3. ASSUME NEW f \in Files, NEW b \in Addrs, Free(f, b)
      PROVE  LateType'
  BY <1>0, <1>3, FreeFacts, GiveBackFacts DEF LateType, Walked
<1>4. ASSUME NEW f \in Files, ReleasePool(f)
      PROVE  LateType'
  <2>1. PICK gone \in SUBSET busy[Slot(rpool[f])] : rpool[f] \in Walked /\ GiveBack(rpool[f], gone)
    BY <1>4, ReleaseFacts DEF PoolType
  <2>2. QED
    BY <1>0, <2>1, GiveBackFacts DEF LateType, Walked
<1> QED BY <1>1, <1>2, <1>3, <1>4 DEF Next, ReleaseStep

LEMMA TypeNext ==
  ASSUME PoolType, NotFull, InitInv, [Next]_vars
  PROVE  PoolType'
BY InitTypeNext, ListTypeNext, UserTypeNext, FileTypeNext, LateTypeNext, PoolTypeParts2

-------------------------------------------------------------------------------
(* Where cmem_init is *)

\* The calls of files leave it where it is.
LEMMA CallsKeepInit ==
  ASSUME \/ Quiet \/ \E f \in Files, b \in Addrs : RegUser(f, b)
         \/ \E f \in Files, p \in Pools : \E b : Allocates(f, p, b)
         \/ \E f \in Files, b \in Addrs : Free(f, b)
         \/ \E f \in Files : ReleasePool(f)
  PROVE  UNCHANGED initVars
BY DEF Quiet, RegUser, Allocates, Free, ReleasePool, initVars

LEMMA InitAtNext ==
  ASSUME PoolType, NotFull, InitInv, [Next]_vars
  PROVE  InitAt'
<1>0. /\ InitAt /\ InitType /\ par' = par /\ Pools' = Pools
      /\ \A x : NPools(x)' = NPools(x) /\ BlockStart(x)' = BlockStart(x)
                /\ BlockEnd(x)' = BlockEnd(x)
      /\ \A p \in Pools : /\ p[1] \in {0, 1} /\ p[2] \in Nat /\ p[2] <= NPools(p[1])
                          /\ p = <<p[1], p[2]>>
      /\ Blocks = {0, 1} /\ \A x \in Blocks : NPools(x) \in Nat
  BY PoolTypeParts, ParFacts, ParStays, SamePools, PoolAssumption DEF InitInv, InitType, Blocks
<1>1. CASE UNCHANGED initVars
  BY <1>0, <1>1 DEF initVars, InitAt, Before, Slot
<1>2. CASE RegisterChrdev \/ BlockNotGiven
  BY <1>0, <1>2 DEF RegisterChrdev, BlockNotGiven, InitAt, Before, Slot
<1>3. CASE SetUpBlock
  <2>1. /\ at[1] \in Ranges /\ at[1] \in Blocks /\ at[2] = 0 /\ at = <<at[1], 0>>
        /\ UNCHANGED <<at, listed, hasHeap>> /\ phase = "block"
        /\ \A y \in mapped : y < at[1]
    BY <1>0, <1>3 DEF SetUpBlock, Ranges, InitAt, InitType
  <2>2. CASE phase' = "fail" /\ UNCHANGED <<mapped, avail>>
    BY <1>0, <2>1, <2>2 DEF InitAt, Before, Slot
  <2>3. CASE /\ BlockEnd(at[1]) > BlockStart(at[1])
             /\ phase' = "pool" /\ mapped' = mapped \union {at[1]}
             /\ avail' = [avail EXCEPT ![at[1]] = BlockEnd(at[1]) - BlockStart(at[1])]
    <3>1. avail'[at[1]] = BlockEnd(at[1]) - BlockStart(at[1])
      BY <1>0, <2>1, <2>3 DEF InitType
    <3>2. PICK s \in Nat : s = BlockStart(at[1]) /\ s % Page = 0
      BY <1>0, <2>1, ParFacts DEF InitType
    <3>3. PICK e \in Nat : e = BlockEnd(at[1]) /\ e % Page = 0
      BY <1>0, <2>1, ParFacts DEF InitType
    <3>4. avail'[at[1]] % Page = 0
      <4>1. (e - s) % Page = 0
        BY <3>2, <3>3, PageSums, Zenon
      <4>2. QED
        BY <3>1, <3>2, <3>3, <4>1
    <3>5. at \in Pools
      <4>1. 0 \in 0..MaxPools /\ 0 <= NPools(at[1])
        BY <1>0, <2>1, PoolAssumption
      <4>2. QED
        BY <2>1, <4>1 DEF Pools
    <3>6. avail'[at[1]] <= BlockEnd(at[1]) - BlockStart(at[1])
      BY <3>1, <3>2, <3>3
    <3>7. at[1] \in mapped' /\ \A y \in mapped' : y <= at[1]
      BY <1>0, <2>1, <2>3 DEF InitType
    <3>8. phase' = "pool" => /\ at' \in Pools' /\ at'[1] \in mapped'
                             /\ \A y \in mapped' : y <= at'[1]
                             /\ avail'[at'[1]] % Page = 0
                             /\ avail'[at'[1]] <= BlockEnd(at'[1]) - BlockStart(at'[1])
      BY <1>0, <2>1, <2>3, <3>4, <3>5, <3>6, <3>7
    <3>9. \A p \in Pools : Slot(p) \in listed' => p[1] \in mapped' /\ Before(p, at')
      BY <1>0, <2>1, <2>3 DEF InitAt
    <3>10. QED
      BY <1>0, <2>1, <2>3, <3>8, <3>9 DEF InitAt, Before, Slot, BlockEnd, BlockStart
  <2>4. QED
    BY <1>3, <2>2, <2>3 DEF SetUpBlock
<1>4. CASE AllocPool
  <2>1. /\ at \in Pools /\ at[2] < NPools(at[1]) /\ at[1] \in mapped /\ phase = "pool"
        /\ avail[at[1]] <= BlockEnd(at[1]) - BlockStart(at[1]) /\ at[1] \in Blocks
        /\ \A y \in mapped : y <= at[1]
        /\ listed' = listed \union {Slot(at)} /\ UNCHANGED <<mapped, hasHeap>>
    BY <1>0, <1>4 DEF AllocPool, InitAt
  <2>2. PICK k \in 0..(par.pools[at[1]][at[2] + 1].num) :
             /\ k * PoolSize(at) <= avail[at[1]]
             /\ avail' = [avail EXCEPT ![at[1]] = avail[at[1]] - k * PoolSize(at)]
             /\ \/ at' = <<at[1], at[2] + 1>> /\ phase' = phase
                \/ phase' = "fail" /\ at' = at
    BY <1>4 DEF AllocPool
  <2>3. PICK m \in Nat : /\ m = avail[at[1]] - k * PoolSize(at) /\ m % Page = 0
                         /\ m <= avail[at[1]]
    <3>1. avail[at[1]] \in Nat /\ PoolSize(at) \in Nat /\ k \in Nat
      BY <1>0, <2>1, <2>2, ParFacts DEF InitType
    <3>2. k * PoolSize(at) \in Nat
      BY <3>1
    <3>3. QED
      BY <2>1, <2>2, <3>1, <3>2, CarveFacts
  <2>4. avail'[at[1]] = m
    BY <1>0, <2>1, <2>2, <2>3 DEF InitType
  <2>5. \A p \in Pools : Slot(p) \in listed' => Slot(p) \in listed \/ p = at
    BY <1>0, <2>1, SlotsApart DEF InitType
  <2>6. \A p \in Pools : Slot(p) \in listed => p[1] \in mapped /\ Before(p, at)
    BY <1>0, <2>1 DEF InitAt
  <2>7. CASE phase' = "fail"
    BY <1>0, <2>1, <2>5, <2>6, <2>7 DEF InitAt, Before, Slot
  <2>8. CASE at' = <<at[1], at[2] + 1>> /\ phase' = phase
    <3>1. at' \in Pools
      <4>1. at[2] + 1 \in 0..MaxPools /\ at[2] + 1 <= NPools(at[1])
        <5>1. at[2] \in Nat /\ NPools(at[1]) \in 0..MaxPools
          BY <1>0, <2>1, ParFacts DEF InitType
        <5>2. QED
          BY <2>1, <5>1, PoolAssumption
      <4>2. QED
        BY <2>1, <2>8, <4>1 DEF Pools
    <3>2. at'[1] = at[1] /\ at'[2] = at[2] + 1
      BY <2>8
    <3>3. /\ BlockEnd(at[1]) \in Nat /\ BlockStart(at[1]) \in Nat /\ avail[at[1]] \in Nat
      <4>1. at[1] \in Ranges /\ avail[at[1]] \in Nat /\ par \in Params
        BY <1>0, <2>1 DEF InitType, InitInv, BlocksApart
      <4>2. QED
        BY <4>1, ParFacts
    <3>4. avail'[at'[1]] <= BlockEnd(at'[1]) - BlockStart(at'[1]) /\ avail'[at'[1]] % Page = 0
      BY <1>0, <2>1, <2>3, <2>4, <3>2, <3>3
    <3>5. \A p \in Pools : Before(p, at) \/ p = at => Before(p, at')
      BY <1>0, <2>1, <3>2 DEF Before
    <3>6. \A p \in Pools : Slot(p) \in listed' => p[1] \in mapped' /\ Before(p, at')
      BY <2>1, <2>5, <2>6, <3>5
    <3>7. \A x \in hasHeap' : Slot(<<x, NPools(x)>>)' \in listed'
      BY <1>0, <2>1 DEF InitAt, Slot
    <3>8. QED
      BY <1>0, <2>1, <2>8, <3>1, <3>2, <3>4, <3>6, <3>7 DEF InitAt, Before, Slot,
         BlockEnd, BlockStart
  <2>9. QED
    BY <2>2, <2>7, <2>8
<1>5. CASE AllocHeap
  <2>1. /\ at \in Pools /\ at[2] = NPools(at[1]) /\ at[1] \in mapped /\ phase = "pool"
        /\ at[1] \in Blocks /\ \A y \in mapped : y <= at[1]
        /\ UNCHANGED mapped
    BY <1>0, <1>5 DEF AllocHeap, InitAt
  <2>2. /\ listed' = listed \/ listed' = listed \union {Slot(at)}
        /\ \/ hasHeap' = hasHeap
           \/ hasHeap' = hasHeap \union {at[1]} /\ listed' = listed \union {Slot(at)}
        /\ \/ at' = <<1, 0>> /\ phase' = (IF at[1] = 0 THEN "block" ELSE "live")
           \/ at' = at /\ phase' = "fail"
    BY <1>5 DEF AllocHeap
  <2>3. \A p \in Pools : Slot(p) \in listed' => Slot(p) \in listed \/ p = at
    BY <1>0, <2>1, <2>2, SlotsApart DEF InitType
  <2>4. \A p \in Pools : Slot(p) \in listed => p[1] \in mapped /\ Before(p, at)
    BY <1>0, <2>1 DEF InitAt
  <2>5. \A x \in hasHeap' : Slot(<<x, NPools(x)>>) \in listed'
    <3>1. at = <<at[1], NPools(at[1])>>
      BY <1>0, <2>1
    <3>2. QED
      BY <1>0, <2>2, <3>1 DEF InitAt
  <2>6. phase' = "block" => \A p \in Pools : Before(p, at) \/ p = at => Before(p, at')
    BY <1>0, <2>1, <2>2 DEF Before
  <2>7. \A p \in Pools : Slot(p) \in listed' =>
          p[1] \in mapped /\ (phase' = "block" => Before(p, at'))
    BY <2>1, <2>3, <2>4, <2>6
  <2>8. phase' = "block" => at'[2] = 0 /\ \A y \in mapped : y < at'[1]
    BY <1>0, <2>1, <2>2 DEF InitType
  <2>9. phase' \in {"block", "live", "fail"}
    BY <2>2
  <2>10. QED
    BY <1>0, <2>1, <2>5, <2>7, <2>8, <2>9 DEF InitAt, Before, Slot
<1>6. CASE FailInit \/ Exit
  BY <1>0, <1>6 DEF FailInit, Exit, Unloaded, InitAt, Before, Slot
<1> QED BY <1>1, <1>2, <1>3, <1>4, <1>5, <1>6, StepCases, CallsKeepInit

LEMMA ClearedNext ==
  ASSUME PoolType, NotFull, InitInv, [Next]_vars
  PROVE  Cleared'
<1>0. /\ Cleared /\ InitAt /\ InitType /\ ListType /\ par' = par /\ Pools' = Pools
      /\ \A x : NPools(x)' = NPools(x)
      /\ \A p \in Pools : Slot(p) \in Slots /\ p[1] \in Blocks
      /\ \A x \in Blocks : <<x, NPools(x)>> \in Pools /\ IsHeap(<<x, NPools(x)>>)
  BY PoolTypeParts, ParFacts, ParStays, SamePools DEF InitInv, InitType
<1>1. CASE \/ RegisterChrdev \/ BlockNotGiven \/ SetUpBlock \/ Quiet
           \/ \E f \in Files, b \in Addrs : RegUser(f, b)
  BY <1>0, <1>1 DEF RegisterChrdev, BlockNotGiven, SetUpBlock, Quiet, RegUser, poolVars,
     initVars, Cleared, Slot
<1>2. CASE AllocPool
  <2>1. /\ at \in Pools /\ at[2] < NPools(at[1]) /\ UNCHANGED <<hasHeap, heapFree>>
        /\ listed' = listed \union {Slot(at)} /\ at[2] \in Nat /\ Slot(at) \in Slots
    BY <1>0, <1>2 DEF AllocPool, InitAt, InitType
  <2>2. \A s \in Slots : s # Slot(at) => free'[s] = free[s] /\ busy'[s] = busy[s]
    BY <1>0, <1>2 DEF AllocPool, ListType
  <2>3. \A x \in Blocks : Slot(<<x, NPools(x)>>) # Slot(at)
    <3>1. \A x \in Blocks : NPools(x) \in Nat /\ (<<x, NPools(x)>> = at => NPools(at[1]) = at[2])
      BY <1>0, ParFacts DEF InitType
    <3>2. NPools(at[1]) # at[2]
      BY <1>0, <2>1, <3>1
    <3>3. QED
      BY <1>0, <2>1, <3>1, <3>2, SlotsApart DEF InitType
  <2>4. QED
    BY <1>0, <2>1, <2>2, <2>3 DEF Cleared, Slot
<1>3. CASE AllocHeap
  <2>1. at \in Pools /\ at[2] = NPools(at[1]) /\ Slot(at) \in Slots
    BY <1>0, <1>3 DEF AllocHeap, InitAt
  <2>2. CASE UNCHANGED <<free, busy, listed, hasHeap, heapFree>>
    BY <1>0, <2>2 DEF Cleared, Slot
  <2>3. CASE /\ listed' = listed \union {Slot(at)} /\ busy' = [busy EXCEPT ![Slot(at)] = {}]
             /\ \E S : free' = [free EXCEPT ![Slot(at)] = S]
             /\ \/ UNCHANGED <<hasHeap, heapFree>>
                \/ /\ hasHeap' = hasHeap \union {at[1]}
                   /\ heapFree' = [heapFree EXCEPT ![at[1]] = HeapPages(at[1])]
    <3>1. \A s \in Slots : s # Slot(at) => free'[s] = free[s] /\ busy'[s] = busy[s]
      BY <1>0, <2>3 DEF ListType
    <3>2. busy'[Slot(at)] = {}
      BY <1>0, <2>1, <2>3 DEF ListType
    <3>3. hasHeap \subseteq hasHeap' /\ \A x \in Blocks \ hasHeap' : heapFree'[x] = heapFree[x]
      BY <1>0, <2>1, <2>3 DEF ListType
    <3>4. \A s \in Slots \ listed' : free'[s] = {} /\ busy'[s] = {}
      BY <1>0, <2>3, <3>1 DEF Cleared
    <3>5. \A x \in Blocks \ hasHeap' : heapFree'[x] = {} /\ busy'[Slot(<<x, NPools(x)>>)] = {}
      BY <1>0, <3>1, <3>2, <3>3 DEF Cleared
    <3>6. QED
      BY <1>0, <3>4, <3>5 DEF Cleared, Slot
  <2>4. QED
    BY <1>3, <2>2, <2>3 DEF AllocHeap
<1>4. CASE FailInit \/ Exit
  BY <1>0, <1>4 DEF FailInit, Exit, Unloaded, Cleared, Slot
<1>5. ASSUME NEW p \in Walked, Slot(p) \in listed, UNCHANGED <<listed, hasHeap>>,
             \A s \in Slots : s # Slot(p) => busy'[s] = busy[s] /\ free'[s] = free[s],
             \A x \in Blocks : x # p[1] \/ ~IsHeap(p) => heapFree'[x] = heapFree[x]
      PROVE  Cleared'
  <2>1. p \in Pools /\ (IsHeap(p) => p[1] \in hasHeap)
    BY <1>5 DEF Walked
  <2>2. \A s \in Slots \ listed : free'[s] = {} /\ busy'[s] = {}
    BY <1>0, <1>5 DEF Cleared
  <2>3. ASSUME NEW x \in Blocks \ hasHeap
        PROVE  heapFree'[x] = {} /\ busy'[Slot(<<x, NPools(x)>>)] = {}
    <3>1. x # p[1] \/ ~IsHeap(p)
      BY <2>1
    <3>2. <<x, NPools(x)>> # p
      BY <1>0, <2>1
    <3>3. Slot(<<x, NPools(x)>>) # Slot(p)
      BY <1>0, <2>1, <3>2, SlotsApart DEF InitType
    <3>4. QED
      BY <1>0, <1>5, <3>1, <3>3 DEF Cleared
  <2>4. QED
    BY <1>0, <1>5, <2>2, <2>3 DEF Cleared, Slot
<1>6. ASSUME NEW f \in Files, NEW p \in Pools, NEW b, Allocates(f, p, b)
      PROVE  Cleared'
  <2>1. /\ p \in Walked /\ Slot(p) \in listed /\ UNCHANGED <<listed, hasHeap>>
        /\ ~IsHeap(p) => heapFree' = heapFree
    BY <1>6 DEF Allocates, initVars
  <2>2. QED
    BY <1>5, <1>6, <2>1, AllocatesFacts
<1>7. ASSUME NEW f \in Files, NEW b \in Addrs, Free(f, b)
      PROVE  Cleared'
  <2>1. PICK p \in Walked : \E gone \in SUBSET {b} : b \in busy[Slot(p)] /\ GiveBack(p, gone)
    BY <1>7, FreeFacts
  <2>2. Slot(p) \in listed /\ p \in Pools /\ UNCHANGED <<listed, hasHeap>>
    BY <1>0, <1>7, <2>1 DEF Cleared, Walked, Free, initVars
  <2>3. PICK gone \in SUBSET busy[Slot(p)] : GiveBack(p, gone)
    BY <2>1
  <2>4. QED
    BY <1>0, <1>5, <2>2, <2>3, GiveBackFacts
<1>8. ASSUME NEW f \in Files, ReleasePool(f)
      PROVE  Cleared'
  <2>1. PICK gone \in SUBSET busy[Slot(rpool[f])] :
          rpool[f] \in Walked /\ GiveBack(rpool[f], gone) /\ Slot(rpool[f]) \in listed
    BY <1>8, ReleaseFacts DEF PoolType
  <2>2. UNCHANGED <<listed, hasHeap>> /\ rpool[f] \in Pools
    BY <1>8, <2>1 DEF ReleasePool, initVars, Walked
  <2>3. QED
    BY <1>0, <1>5, <2>1, <2>2, GiveBackFacts
<1> QED BY <1>1, <1>2, <1>3, <1>4, <1>6, <1>7, <1>8, StepCases

LEMMA BlocksApartNext ==
  ASSUME PoolType, InitInv, [Next]_vars
  PROVE  BlocksApart'
<1>0. /\ BlocksApart /\ par' = par /\ Ranges' = Ranges
      /\ \A x : BlockStart(x)' = BlockStart(x) /\ BlockEnd(x)' = BlockEnd(x)
  BY ParStays, SamePools DEF InitInv
<1>1. CASE mapped' = mapped \/ mapped' = {}
  BY <1>0, <1>1 DEF BlocksApart
<1>2. CASE SetUpBlock
  <2>1. CASE /\ mapped' = mapped \union {at[1]} /\ at[1] \in Ranges
             /\ \A y \in mapped : \/ BlockEnd(y) <= BlockStart(at[1])
                                  \/ BlockEnd(at[1]) <= BlockStart(y)
    BY <1>0, <2>1 DEF BlocksApart
  <2>2. QED
    BY <1>1, <1>2, <2>1 DEF SetUpBlock, Ranges
<1>3. CASE RegisterChrdev \/ BlockNotGiven \/ AllocPool \/ AllocHeap \/ FailInit \/ Exit
  BY <1>1, <1>3 DEF RegisterChrdev, BlockNotGiven, AllocPool, AllocHeap, FailInit, Exit
<1>4. UNCHANGED initVars => mapped' = mapped
  BY DEF initVars
<1> QED BY <1>1, <1>2, <1>3, <1>4, StepCases, CallsKeepInit

LEMMA InitInvNext ==
  ASSUME PoolType, NotFull, InitInv, [Next]_vars
  PROVE  InitInv'
BY InitAtNext, ClearedNext, BlocksApartNext DEF InitInv

-------------------------------------------------------------------------------
(* Buffers do not overlap *)

LEMMA BufsAreAddrs ==
  ASSUME PoolType, NEW p \in Pools, NEW b \in BufsOf(p)
  PROVE  b \in Addrs /\ b \in Nat
BY ParFacts, PoolAssumption DEF PoolType, TypeOK, BufsOf

\* Buffers that only change lists, or go, stay apart.
LEMMA FewerBufs ==
  ASSUME PoolType, Carved, par' = par, mapped \subseteq mapped',
         \A p \in Pools : BufsOf(p)' \subseteq BufsOf(p),
         phase' = "pool" =>
           \A p \in Pools : BufsOf(p) # {} /\ p[1] = at'[1] =>
             phase = "pool" /\ at' = at /\ avail' = avail
  PROVE  Carved'
<1>1. /\ Pools' = Pools
      /\ \A x : BlockStart(x)' = BlockStart(x) /\ BlockEnd(x)' = BlockEnd(x)
      /\ \A p : PoolSize(p)' = PoolSize(p)
  BY SamePools
<1>2. ASSUME NEW p \in Pools, NEW b \in BufsOf(p)'
      PROVE  /\ p[1] \in mapped' /\ b >= BlockStart(p[1]) /\ b + PoolSize(p) <= BlockEnd(p[1])
             /\ phase' = "pool" /\ p[1] = at'[1] => b >= BlockStart(p[1]) + avail'[p[1]]
             /\ \A q \in Pools : \A c \in BufsOf(q)' : p # q \/ b # c => ApartFrom(p, b, q, c)
  <2>1. b \in BufsOf(p)
    OBVIOUS
  <2>2. /\ p[1] \in mapped /\ b >= BlockStart(p[1]) /\ b + PoolSize(p) <= BlockEnd(p[1])
        /\ phase = "pool" /\ p[1] = at[1] => b >= BlockStart(p[1]) + avail[p[1]]
        /\ \A q \in Pools : \A c \in BufsOf(q) : p # q \/ b # c => ApartFrom(p, b, q, c)
    BY <2>1 DEF Carved
  <2>3. QED
    BY <2>1, <2>2
<1> QED BY <1>1, <1>2 DEF Carved, ApartFrom

\* Buffers of two blocks are apart.
LEMMA ApartInBlocks ==
  ASSUME PoolType, InitInv, NEW p \in Pools, NEW q \in Pools, NEW b \in Nat, NEW c \in Nat,
         p[1] \in mapped, q[1] \in mapped, p[1] # q[1],
         b >= BlockStart(p[1]), b + PoolSize(p) <= BlockEnd(p[1]),
         c >= BlockStart(q[1]), c + PoolSize(q) <= BlockEnd(q[1])
  PROVE  ApartFrom(p, b, q, c)
<1>1. p[1] \in Ranges /\ q[1] \in Ranges /\ par \in Params
  BY DEF InitInv, BlocksApart, PoolType, TypeOK
<1>2. /\ BlockStart(p[1]) \in Nat /\ BlockEnd(p[1]) \in Nat
      /\ BlockStart(q[1]) \in Nat /\ BlockEnd(q[1]) \in Nat
      /\ PoolSize(p) \in Nat /\ PoolSize(q) \in Nat
  BY <1>1, ParFacts
<1>3. BlockEnd(p[1]) <= BlockStart(q[1]) \/ BlockEnd(q[1]) <= BlockStart(p[1])
  BY DEF InitInv, BlocksApart
<1> QED BY <1>2, <1>3 DEF ApartFrom

\* cmem_init fills a pool, or the heap, with buffers from what is left of the block.
LEMMA NewBufs ==
  ASSUME PoolType, InitInv, Carved, par' = par, mapped' = mapped, phase = "pool",
         NEW r \in Pools, r = at, NEW low \in Nat,
         low >= BlockStart(r[1]), low <= BlockStart(r[1]) + avail[r[1]],
         \A q \in Pools \ {r} : BufsOf(q)' = BufsOf(q),
         \A b \in BufsOf(r)' : /\ b \in Nat /\ b >= low
                                /\ b + PoolSize(r) <= BlockStart(r[1]) + avail[r[1]],
         \A b, c \in BufsOf(r)' : b # c => ApartFrom(r, b, r, c),
         phase' = "pool" => at'[1] = r[1] /\ low = BlockStart(r[1]) + avail'[r[1]]
  PROVE  Carved'
<1>1. /\ Pools' = Pools
      /\ \A x : BlockStart(x)' = BlockStart(x) /\ BlockEnd(x)' = BlockEnd(x)
      /\ \A p : PoolSize(p)' = PoolSize(p)
  BY SamePools
<1>2. /\ r[1] \in mapped /\ avail[r[1]] \in Nat /\ PoolSize(r) \in Nat
      /\ BlockStart(r[1]) \in Nat /\ BlockEnd(r[1]) \in Nat
      /\ avail[r[1]] <= BlockEnd(r[1]) - BlockStart(r[1])
  <2>1. /\ r[1] \in mapped /\ r[1] \in Ranges /\ par \in Params
        /\ avail[r[1]] \in Nat /\ avail[r[1]] <= BlockEnd(r[1]) - BlockStart(r[1])
    BY DEF InitInv, InitAt, BlocksApart, PoolType, TypeOK
  <2>2. QED
    BY <2>1, ParFacts
<1>3. \A b \in BufsOf(r)' : b \in Nat /\ b >= BlockStart(r[1]) /\ b + PoolSize(r) <= BlockEnd(r[1])
  BY <1>2
<1>4. ASSUME NEW p \in Pools \ {r}, NEW b \in BufsOf(p)
      PROVE  /\ p[1] \in mapped /\ b >= BlockStart(p[1]) /\ b + PoolSize(p) <= BlockEnd(p[1])
             /\ p[1] = r[1] => b >= BlockStart(p[1]) + avail[p[1]]
             /\ \A q \in Pools : \A c \in BufsOf(q) : p # q \/ b # c => ApartFrom(p, b, q, c)
             /\ b \in Nat
  BY <1>4, BufsAreAddrs DEF Carved
<1>5. ASSUME NEW p \in Pools \ {r}, NEW b \in BufsOf(p), NEW c \in BufsOf(r)'
      PROVE  ApartFrom(p, b, r, c) /\ ApartFrom(r, c, p, b)
  <2>1. CASE p[1] = r[1]
    <3>1. /\ b >= BlockStart(r[1]) + avail[r[1]] /\ b \in Nat
      BY <1>4, <2>1
    <3>2. c \in Nat /\ c + PoolSize(r) <= BlockStart(r[1]) + avail[r[1]]
      OBVIOUS
    <3>3. c + PoolSize(r) <= b
      BY <1>2, <3>1, <3>2
    <3>4. QED
      BY <3>3 DEF ApartFrom
  <2>2. CASE p[1] # r[1]
    <3>1. ApartFrom(p, b, r, c)
      BY <1>2, <1>3, <1>4, <2>2, ApartInBlocks
    <3>2. QED
      BY <3>1 DEF ApartFrom
  <2>3. QED
    BY <2>1, <2>2
<1>6. ASSUME NEW p \in Pools, NEW b \in BufsOf(p)'
      PROVE  /\ p[1] \in mapped' /\ b >= BlockStart(p[1]) /\ b + PoolSize(p) <= BlockEnd(p[1])
             /\ phase' = "pool" /\ p[1] = at'[1] => b >= BlockStart(p[1]) + avail'[p[1]]
             /\ \A q \in Pools : \A c \in BufsOf(q)' : p # q \/ b # c => ApartFrom(p, b, q, c)
  <2>1. CASE p = r
    <3>1. ASSUME NEW q \in Pools, NEW c \in BufsOf(q)', p # q \/ b # c
          PROVE  ApartFrom(p, b, q, c)
      <4>1. CASE q = r
        BY <2>1, <3>1, <4>1
      <4>2. CASE q # r
        BY <1>5, <2>1, <3>1, <4>2
      <4>3. QED
        BY <4>1, <4>2
    <3>2. QED
      BY <1>2, <1>3, <2>1, <3>1
  <2>2. CASE p # r
    <3>1. b \in BufsOf(p)
      BY <2>2
    <3>2. ASSUME NEW q \in Pools, NEW c \in BufsOf(q)', p # q \/ b # c
          PROVE  ApartFrom(p, b, q, c)
      <4>1. CASE q = r
        BY <1>5, <2>2, <3>1, <3>2, <4>1
      <4>2. CASE q # r
        BY <1>4, <2>2, <3>1, <3>2, <4>2
      <4>3. QED
        BY <4>1, <4>2
    <3>3. ASSUME phase' = "pool", p[1] = at'[1]
          PROVE  b >= BlockStart(p[1]) + avail'[p[1]]
      <4>1. p[1] = r[1] /\ low = BlockStart(p[1]) + avail'[p[1]]
        BY <3>3
      <4>2. b >= BlockStart(r[1]) + avail[r[1]] /\ b \in Nat
        BY <1>4, <2>2, <3>1, <4>1
      <4>3. QED
        BY <1>2, <4>1, <4>2
    <3>4. QED
      BY <1>4, <2>2, <3>1, <3>2, <3>3
  <2>3. QED
    BY <2>1, <2>2
<1> QED BY <1>1, <1>6 DEF Carved, ApartFrom

LEMMA CarvedNext ==
  ASSUME PoolType, NotFull, InitInv, Carved, [Next]_vars
  PROVE  Carved'
<1>0. /\ InitAt /\ InitType /\ ListType /\ par' = par /\ Pools' = Pools
      /\ \A p : IsHeap(p)' = IsHeap(p)
      /\ \A p \in Pools : Slot(p) \in Slots /\ p[1] \in Blocks
  BY PoolTypeParts, ParFacts, ParStays, SamePools DEF InitInv, InitType
<1>1. ASSUME UNCHANGED <<free, busy, heapFree>>
      PROVE  \A p \in Pools : BufsOf(p)' = BufsOf(p)
  BY <1>0, <1>1 DEF BufsOf, Slot
<1>2. ASSUME UNCHANGED initVars, \A p \in Pools : BufsOf(p)' = BufsOf(p)
      PROVE  Carved'
  BY <1>0, <1>2, FewerBufs DEF initVars
<1>3. CASE RegisterChrdev \/ BlockNotGiven
  <2>1. /\ mapped' = mapped /\ phase' # "pool" /\ UNCHANGED <<free, busy, heapFree>>
    BY <1>3 DEF RegisterChrdev, BlockNotGiven, poolVars
  <2>2. QED
    BY <1>0, <1>1, <2>1, FewerBufs
<1>4. CASE SetUpBlock
  <2>1. /\ mapped \subseteq mapped' /\ phase = "block" /\ at' = at
        /\ UNCHANGED <<free, busy, heapFree>>
    BY <1>4 DEF SetUpBlock, poolVars
  <2>2. \A p \in Pools : BufsOf(p) # {} => p[1] \in mapped
    BY DEF Carved
  <2>3. \A p \in Pools : BufsOf(p) # {} => p[1] # at[1]
    BY <1>0, <2>1, <2>2 DEF InitAt, InitType, Blocks
  <2>4. QED
    BY <1>0, <1>1, <2>1, <2>3, FewerBufs
<1>5. CASE AllocPool
  <2>1. PICK r \in Pools : r = at
    BY <1>0, <1>5 DEF AllocPool, InitAt
  <2>2. /\ phase = "pool" /\ r[2] < NPools(r[1]) /\ mapped' = mapped /\ heapFree' = heapFree
        /\ busy' = [busy EXCEPT ![Slot(r)] = {}] /\ r[1] \in mapped /\ ~IsHeap(r)
    <3>1. /\ phase = "pool" /\ r[2] < NPools(r[1]) /\ mapped' = mapped /\ heapFree' = heapFree
          /\ busy' = [busy EXCEPT ![Slot(r)] = {}] /\ r[1] \in mapped
      BY <1>0, <1>5, <2>1 DEF AllocPool, InitAt
    <3>2. NPools(r[1]) \in 0..MaxPools /\ r[2] \in Nat
      BY <1>0, <2>1, ParFacts DEF InitType
    <3>3. QED
      BY <3>1, <3>2 DEF IsHeap
  <2>3. PICK k \in 0..(par.pools[r[1]][r[2] + 1].num) :
             /\ k * PoolSize(r) <= avail[r[1]]
             /\ free' = [free EXCEPT ![Slot(r)] = {Carve(at, j) : j \in 1..k}]
             /\ avail' = [avail EXCEPT ![r[1]] = avail[r[1]] - k * PoolSize(r)]
             /\ \/ at' = <<at[1], at[2] + 1>> /\ phase' = phase
                \/ phase' = "fail" /\ at' = at
    BY <1>5, <2>1 DEF AllocPool
  <2>4. k \in Nat
    BY <2>3
  <2>5. PICK S : S = {Carve(at, j) : j \in 1..k}
    OBVIOUS
  <2>6. PICK m \in Nat : m = avail[r[1]] - k * PoolSize(r)
    BY <2>1, <2>2, <2>3, <2>4, CarveFacts
  <2>7. /\ \A b \in S : /\ b \in Addrs /\ b >= BlockStart(r[1]) + avail[r[1]] - k * PoolSize(r)
                        /\ b + PoolSize(r) <= BlockStart(r[1]) + avail[r[1]]
        /\ \A b, c \in S : b # c => ApartFrom(r, b, r, c)
    BY <2>1, <2>2, <2>3, <2>4, <2>5, CarveFacts DEF ApartFrom
  <2>8. /\ BlockStart(r[1]) \in Nat /\ avail[r[1]] \in Nat /\ PoolSize(r) \in Nat
    <3>1. r[1] \in Ranges /\ par \in Params /\ avail[r[1]] \in Nat
      BY <1>0, <2>1, <2>2 DEF InitType, InitInv, BlocksApart
    <3>2. QED
      BY <2>1, <3>1, ParFacts
  <2>9. PICK low \in Nat : low = BlockStart(r[1]) + m
    BY <2>8
  <2>10. /\ low >= BlockStart(r[1]) /\ low <= BlockStart(r[1]) + avail[r[1]]
    <3>1. k * PoolSize(r) \in Nat
      BY <2>4, <2>8
    <3>2. QED
      BY <2>6, <2>8, <2>9, <3>1
  <2>11. \A b \in S : b \in Nat /\ b >= low /\ b + PoolSize(r) <= BlockStart(r[1]) + avail[r[1]]
    <3>1. k * PoolSize(r) \in Nat
      BY <2>4, <2>8
    <3>2. \A b \in S : b \in Nat
      BY <2>7, PoolAssumption
    <3>3. QED
      BY <2>6, <2>7, <2>8, <2>9, <3>1, <3>2
  <2>12. BufsOf(r)' = S
    <3>1. free'[Slot(r)] = S /\ busy'[Slot(r)] = {}
      BY <1>0, <2>1, <2>2, <2>3, <2>5 DEF ListType
    <3>2. BufsOf(r)' = busy'[Slot(r)] \union free'[Slot(r)]
      BY <1>0, <2>2 DEF BufsOf, Slot
    <3>3. QED
      BY <3>1, <3>2
  <2>13. ASSUME NEW q \in Pools \ {r}
         PROVE  BufsOf(q)' = BufsOf(q)
    <3>1. Slot(q) # Slot(r) /\ Slot(q) \in Slots
      BY <1>0, SlotsApart DEF InitType
    <3>2. free'[Slot(q)] = free[Slot(q)] /\ busy'[Slot(q)] = busy[Slot(q)]
      BY <1>0, <2>2, <2>3, <3>1 DEF ListType
    <3>3. QED
      BY <1>0, <2>2, <3>2 DEF BufsOf, Slot
  <2>14. phase' = "pool" => at'[1] = r[1] /\ low = BlockStart(r[1]) + avail'[r[1]]
    <3>1. avail'[r[1]] = m
      BY <1>0, <2>1, <2>3, <2>6 DEF InitType
    <3>2. QED
      BY <2>1, <2>3, <2>9, <3>1
  <2>15. QED
    BY <1>0, <2>1, <2>2, <2>7, <2>10, <2>11, <2>12, <2>13, <2>14, NewBufs
<1>6. CASE AllocHeap
  <2>1. PICK r \in Pools : r = at
    BY <1>0, <1>6 DEF AllocHeap, InitAt
  <2>2. /\ phase = "pool" /\ r[2] = NPools(r[1]) /\ mapped' = mapped /\ r[1] \in mapped
        /\ IsHeap(r) /\ phase' # "pool"
    BY <1>0, <1>6, <2>1 DEF AllocHeap, InitAt, IsHeap
  <2>3. ASSUME NEW q \in Pools \ {r}
        PROVE  Slot(q) # Slot(r) /\ Slot(q) \in Slots /\ (IsHeap(q) => q[1] # r[1])
    <3>1. Slot(q) # Slot(r) /\ Slot(q) \in Slots
      BY <1>0, SlotsApart DEF InitType
    <3>2. IsHeap(q) => q[1] # r[1]
      BY <1>0, <2>2, ParFacts DEF IsHeap, InitType
    <3>3. QED
      BY <3>1, <3>2
  <2>4. CASE UNCHANGED <<free, busy, heapFree>>
    BY <1>0, <1>1, <2>2, <2>4, FewerBufs
  <2>5. CASE /\ busy' = [busy EXCEPT ![Slot(r)] = {}] /\ free' = [free EXCEPT ![Slot(r)] = {}]
             /\ heapFree' = heapFree
    <3>1. \A q \in Pools : BufsOf(q)' \subseteq BufsOf(q)
      BY <1>0, <2>3, <2>5 DEF BufsOf, Slot, ListType
    <3>2. QED
      BY <1>0, <2>2, <3>1, FewerBufs
  <2>6. CASE /\ busy' = [busy EXCEPT ![Slot(r)] = {}] /\ avail[r[1]] > 0
             /\ free' = [free EXCEPT ![Slot(r)] = {BlockStart(r[1])}]
             /\ heapFree' = [heapFree EXCEPT ![r[1]] = HeapPages(r[1])]
    <3>1. BufsOf(r)' = HeapPages(r[1])
      <4>1. busy'[Slot(r)] = {} /\ heapFree'[r[1]] = HeapPages(r[1])
        BY <1>0, <2>6 DEF ListType
      <4>2. BufsOf(r)' = busy'[Slot(r)] \union heapFree'[r[1]]
        BY <1>0, <2>2 DEF BufsOf, Slot
      <4>3. QED
        BY <4>1, <4>2
    <3>2. ASSUME NEW q \in Pools \ {r}
          PROVE  BufsOf(q)' = BufsOf(q)
      <4>1. free'[Slot(q)] = free[Slot(q)] /\ busy'[Slot(q)] = busy[Slot(q)]
        BY <1>0, <2>3, <2>6 DEF ListType
      <4>2. IsHeap(q) => heapFree'[q[1]] = heapFree[q[1]]
        BY <1>0, <2>3, <2>6 DEF ListType
      <4>3. QED
        BY <1>0, <4>1, <4>2 DEF BufsOf, Slot
    <3>3. BlockStart(r[1]) \in Nat /\ avail[r[1]] \in Nat /\ PoolSize(r) = Page
      <4>1. r[1] \in Ranges /\ par \in Params /\ avail[r[1]] \in Nat
        BY <1>0, <2>1, <2>2 DEF InitType, InitInv, BlocksApart
      <4>2. QED
        BY <2>1, <2>2, <4>1, ParFacts
    <3>4. /\ \A b \in HeapPages(r[1]) : /\ b \in Nat /\ b >= BlockStart(r[1])
                                        /\ b + Page <= BlockStart(r[1]) + avail[r[1]]
          /\ \A b, c \in HeapPages(r[1]) : b # c => b + Page <= c \/ c + Page <= b
      BY <2>1, <2>2, <2>6, HeapFacts, PoolAssumption
    <3>5. \A b, c \in BufsOf(r)' : b # c => ApartFrom(r, b, r, c)
      BY <3>1, <3>3, <3>4 DEF ApartFrom
    <3>6. PICK low \in Nat : low = BlockStart(r[1])
      BY <3>3
    <3>7. low >= BlockStart(r[1]) /\ low <= BlockStart(r[1]) + avail[r[1]]
      BY <3>3, <3>6
    <3>8. \A b \in BufsOf(r)' : /\ b \in Nat /\ b >= low
                                /\ b + PoolSize(r) <= BlockStart(r[1]) + avail[r[1]]
      BY <3>1, <3>3, <3>4, <3>6
    <3>9. QED
      BY <1>0, <2>1, <2>2, <3>2, <3>5, <3>7, <3>8, NewBufs
  <2>7. QED
    BY <1>6, <2>1, <2>4, <2>5, <2>6 DEF AllocHeap
<1>7. CASE FailInit \/ Exit
  <2>1. /\ mapped' = {} /\ phase' = "out"
        /\ \A s \in Slots : free'[s] = {} /\ busy'[s] = {}
        /\ \A x \in Blocks : heapFree'[x] = {}
    BY <1>7 DEF FailInit, Exit, Unloaded
  <2>2. \A p \in Pools : BufsOf(p)' = {}
    BY <1>0, <2>1 DEF BufsOf, Slot
  <2>3. QED
    BY <1>0, <2>2 DEF Carved
<1>8. ASSUME NEW f \in Files, NEW b \in Addrs, RegUser(f, b)
      PROVE  UNCHANGED <<free, busy, heapFree>>
  BY <1>8 DEF RegUser
<1>9. ASSUME NEW f \in Files, NEW p \in Pools, NEW b, Allocates(f, p, b)
      PROVE  Carved'
  BY <1>2, <1>9, AllocatesFacts DEF Allocates
<1>10. ASSUME NEW p \in Pools, NEW gone \in SUBSET busy[Slot(p)], GiveBack(p, gone),
              UNCHANGED initVars
       PROVE  Carved'
  BY <1>0, <1>2, <1>10, GiveBackFacts
<1>11. ASSUME NEW f \in Files, NEW b \in Addrs, Free(f, b)
       PROVE  Carved'
  <2>1. UNCHANGED initVars
    BY <1>11 DEF Free
  <2>2. QED
    BY <1>10, <1>11, <2>1, FreeFacts DEF Walked
<1>12. ASSUME NEW f \in Files, ReleasePool(f)
       PROVE  Carved'
  <2>1. PICK gone \in SUBSET busy[Slot(rpool[f])] : rpool[f] \in Walked /\ GiveBack(rpool[f], gone)
    BY <1>12, ReleaseFacts DEF PoolType
  <2>2. UNCHANGED initVars
    BY <1>12 DEF ReleasePool
  <2>3. QED
    BY <1>10, <2>1, <2>2 DEF Walked
<1>13. Quiet => UNCHANGED initVars /\ UNCHANGED <<free, busy, heapFree>>
  BY DEF Quiet, poolVars
<1>14. ASSUME NEW f \in Files, NEW b \in Addrs, RegUser(f, b)
       PROVE  Carved'
  <2>1. UNCHANGED initVars
    BY <1>14 DEF RegUser
  <2>2. QED
    BY <1>1, <1>2, <1>8, <1>14, <2>1
<1> QED BY <1>1, <1>2, <1>3, <1>4, <1>5, <1>6, <1>7, <1>9, <1>11, <1>12, <1>13, <1>14, StepCases

LEMMA CarvedInit ==
  ASSUME Init
  PROVE  PoolType /\ InitInv /\ Carved
<1>1. PoolType /\ par \in Params
  BY TypeInit DEF Init
<1>2. InitAt
  BY DEF Init, InitAt
<1>3. \A p \in Pools : Slot(p) \in Slots /\ p[1] \in Blocks
  BY <1>1, ParFacts
<1>4. \A x \in Blocks : <<x, NPools(x)>> \in Pools
  BY <1>1, ParFacts
<1>5. Cleared
  BY <1>3, <1>4 DEF Init, Cleared
<1>6. BlocksApart
  BY DEF Init, BlocksApart
<1>7. \A p \in Pools : BufsOf(p) = {}
  BY <1>3 DEF Init, BufsOf
<1>8. Carved
  BY <1>7 DEF Carved
<1>9. QED
  BY <1>1, <1>2, <1>5, <1>6, <1>8 DEF InitInv

-------------------------------------------------------------------------------
(* Who is registered for a buffer *)

\* The buffers of a pool, or the blocks of a heap, that can be allocated.
Frees(p) == IF IsHeap(p) THEN heapFree[p[1]] ELSE free[Slot(p)]

RegInv ==
    /\ \A b \in Addrs : (\E f \in Files : users[b][f] # 0) <=> \E p \in Pools : b \in busy[Slot(p)]
    /\ \A p \in Pools : busy[Slot(p)] \cap Frees(p) = {}

\* A buffer is in one pool.
LEMMA OneBuf ==
  ASSUME PoolType, Carved, NEW p \in Pools, NEW q \in Pools, NEW b,
         b \in BufsOf(p), b \in BufsOf(q)
  PROVE  p = q
<1>1. SUFFICES ASSUME p # q PROVE FALSE
  OBVIOUS
<1>2. ApartFrom(p, b, q, b)
  BY <1>1 DEF Carved
<1>3. b \in Nat /\ PoolSize(p) \in Nat /\ PoolSize(p) > 0 /\ PoolSize(q) \in Nat /\ PoolSize(q) > 0
  BY BufsAreAddrs, ParFacts DEF PoolType, TypeOK
<1> QED BY <1>2, <1>3 DEF ApartFrom

LEMMA GiveBackFrees ==
  ASSUME PoolType, NotFull, NEW p \in Pools, NEW gone \in SUBSET busy[Slot(p)], par' = par,
         GiveBack(p, gone)
  PROVE  /\ Frees(p)' = Frees(p) \union gone
         /\ \A q \in Pools \ {p} : Frees(q)' = Frees(q)
<1>0. /\ par \in Params /\ free \in [Slots -> SUBSET Addrs] /\ heapFree \in [Blocks -> SUBSET Addrs]
      /\ \A q : IsHeap(q)' = IsHeap(q)
      /\ \A q \in Pools : Slot(q) \in Slots /\ q[1] \in Blocks
  BY ParFacts, SamePools DEF PoolType, TypeOK
<1>1. Frees(p)' = Frees(p) \union gone
  BY <1>0 DEF GiveBack, Frees, Slot
<1>2. ASSUME NEW q \in Pools \ {p}
      PROVE  Frees(q)' = Frees(q)
  <2>1. Slot(q) # Slot(p) /\ (IsHeap(p) /\ IsHeap(q) => p[1] # q[1])
    BY <1>0, SlotsApart, ParFacts DEF IsHeap
  <2>2. CASE IsHeap(p)
    BY <1>0, <2>1, <2>2 DEF GiveBack, Frees, Slot
  <2>3. CASE ~IsHeap(p)
    BY <1>0, <2>1, <2>3 DEF GiveBack, Frees, Slot
  <2>4. QED
    BY <2>2, <2>3
<1> QED BY <1>1, <1>2

LEMMA AllocFrees ==
  ASSUME PoolType, NotFull, NEW f \in Files, NEW p \in Pools, NEW b, Allocates(f, p, b)
  PROVE  /\ Frees(p)' = Frees(p) \ {b} /\ b \in Frees(p)
         /\ \A q \in Pools \ {p} : Frees(q)' = Frees(q)
<1>0. /\ par \in Params /\ free \in [Slots -> SUBSET Addrs] /\ heapFree \in [Blocks -> SUBSET Addrs]
      /\ par' = par /\ \A q : IsHeap(q)' = IsHeap(q)
      /\ \A q \in Pools : Slot(q) \in Slots /\ q[1] \in Blocks
  BY ParFacts, SamePools DEF PoolType, TypeOK, Allocates, initVars
<1>1. Frees(p)' = Frees(p) \ {b} /\ b \in Frees(p)
  BY <1>0 DEF Allocates, Frees, Slot
<1>2. ASSUME NEW q \in Pools \ {p}
      PROVE  Frees(q)' = Frees(q)
  <2>1. Slot(q) # Slot(p) /\ (IsHeap(p) /\ IsHeap(q) => p[1] # q[1])
    BY <1>0, SlotsApart, ParFacts DEF IsHeap
  <2>2. CASE IsHeap(p)
    BY <1>0, <2>1, <2>2 DEF Allocates, Frees, Slot
  <2>3. CASE ~IsHeap(p)
    BY <1>0, <2>1, <2>3 DEF Allocates, Frees, Slot
  <2>4. QED
    BY <2>2, <2>3
<1> QED BY <1>1, <1>2

\* The list that cmem_init initialises is empty: no pool is set up twice.
LEMMA NotListedTwice ==
  ASSUME PoolType, InitInv, phase = "pool"
  PROVE  busy[Slot(at)] = {}
<1>1. at \in Pools /\ (Slot(at) \in listed => Before(at, at))
  BY DEF InitInv, InitAt
<1>2. at[1] \in {0, 1} /\ at[2] \in Nat /\ Slot(at) \in Slots
  BY <1>1, ParFacts DEF PoolType, TypeOK, Blocks
<1>3. ~Before(at, at)
  BY <1>2 DEF Before
<1> QED BY <1>1, <1>2, <1>3 DEF InitInv, Cleared

LEMMA RegInvNext ==
  ASSUME PoolType, NotFull, InitInv, Carved, RegInv, [Next]_vars
  PROVE  RegInv'
<1>0. /\ InitAt /\ InitType /\ ListType /\ par' = par /\ Pools' = Pools /\ par \in Params
      /\ \A p : IsHeap(p)' = IsHeap(p)
      /\ \A p \in Pools : Slot(p) \in Slots /\ p[1] \in Blocks
      /\ users \in [Addrs -> [Files -> Nat]]
  BY PoolTypeParts, ParFacts, ParStays, SamePools DEF InitInv, InitType, UserType
<1>1. ASSUME users' = users, \A p \in Pools : busy'[Slot(p)] = busy[Slot(p)],
             \A p \in Pools : busy[Slot(p)] = {} \/ Frees(p)' = Frees(p)
      PROVE  RegInv'
  BY <1>0, <1>1 DEF RegInv, Slot
<1>2. CASE RegisterChrdev \/ BlockNotGiven \/ SetUpBlock \/ Quiet
  BY <1>0, <1>1, <1>2 DEF RegisterChrdev, BlockNotGiven, SetUpBlock, Quiet, poolVars, Frees, Slot
<1>3. CASE AllocPool
  <2>1. PICK r \in Pools : r = at
    BY <1>0, <1>3 DEF AllocPool, InitAt
  <2>2. /\ busy[Slot(r)] = {} /\ busy' = [busy EXCEPT ![Slot(r)] = {}] /\ heapFree' = heapFree
        /\ users' = users /\ \E S : free' = [free EXCEPT ![Slot(r)] = S]
    BY <1>3, <2>1, NotListedTwice DEF AllocPool
  <2>3. \A p \in Pools : busy'[Slot(p)] = busy[Slot(p)]
    BY <1>0, <2>1, <2>2 DEF ListType
  <2>4. ASSUME NEW p \in Pools, busy[Slot(p)] # {}
        PROVE  Frees(p)' = Frees(p)
    BY <1>0, <2>2, <2>4 DEF Frees, Slot, ListType
  <2>5. QED
    BY <1>1, <2>2, <2>3, <2>4
<1>4. CASE AllocHeap
  <2>1. PICK r \in Pools : r = at
    BY <1>0, <1>4 DEF AllocHeap, InitAt
  <2>2. IsHeap(r) /\ users' = users
    BY <1>4, <2>1 DEF AllocHeap, IsHeap
  <2>3. CASE UNCHANGED <<free, busy, heapFree>>
    BY <1>0, <1>1, <2>2, <2>3 DEF Frees, Slot
  <2>4. CASE /\ busy' = [busy EXCEPT ![Slot(r)] = {}]
             /\ \E S : free' = [free EXCEPT ![Slot(r)] = S]
             /\ \/ heapFree' = heapFree
                \/ heapFree' = [heapFree EXCEPT ![r[1]] = HeapPages(r[1])]
    <3>1. busy[Slot(r)] = {}
      BY <1>4, <2>1, NotListedTwice DEF AllocHeap
    <3>2. \A p \in Pools : busy'[Slot(p)] = busy[Slot(p)]
      BY <1>0, <2>1, <2>4, <3>1 DEF ListType
    <3>3. ASSUME NEW p \in Pools, busy[Slot(p)] # {}
          PROVE  Frees(p)' = Frees(p)
      <4>1. Slot(p) # Slot(r) /\ p # r
        BY <3>1, <3>3
      <4>2. IsHeap(p) => p[1] # r[1]
        BY <1>0, <2>2, <4>1, ParFacts DEF IsHeap
      <4>3. free'[Slot(p)] = free[Slot(p)]
        BY <1>0, <2>4, <4>1 DEF ListType
      <4>4. IsHeap(p) => heapFree'[p[1]] = heapFree[p[1]]
        BY <1>0, <2>4, <4>2 DEF ListType
      <4>5. QED
        BY <1>0, <4>3, <4>4 DEF Frees, Slot
    <3>4. QED
      BY <1>1, <2>2, <3>2, <3>3
  <2>5. QED
    BY <1>4, <2>1, <2>3, <2>4 DEF AllocHeap
<1>5. CASE FailInit \/ Exit
  <2>1. /\ \A s \in Slots : busy'[s] = {}
        /\ \A b \in Addrs, f \in Files : users'[b][f] = 0
    BY <1>5 DEF FailInit, Exit, Unloaded
  <2>2. QED
    BY <1>0, <2>1 DEF RegInv, Slot
<1>6. ASSUME NEW f \in Files, NEW b \in Addrs, RegUser(f, b)
      PROVE  RegInv'
  <2>1. /\ UNCHANGED <<free, busy, heapFree>> /\ \E p \in Pools : b \in busy[Slot(p)]
    BY <1>6 DEF RegUser, FoundIn
  <2>2. /\ users'[b][f] = users[b][f] + 1
        /\ \A c \in Addrs, g \in Files : c # b \/ g # f => users'[c][g] = users[c][g]
    BY <1>6, RegisterFacts DEF RegUser, PoolType
  <2>3. users'[b][f] # 0
    BY <1>0, <2>2
  <2>4. \A c \in Addrs : (\E g \in Files : users'[c][g] # 0)
                         <=> \E p \in Pools : c \in busy[Slot(p)]
    BY <2>1, <2>2, <2>3 DEF RegInv
  <2>5. QED
    BY <1>0, <2>1, <2>4 DEF RegInv, Frees, Slot
<1>7. ASSUME NEW f \in Files, NEW p \in Pools, NEW b, Allocates(f, p, b)
      PROVE  RegInv'
  <2>1. /\ b \in Addrs /\ users'[b][f] = users[b][f] + 1
        /\ \A c \in Addrs, g \in Files : c # b \/ g # f => users'[c][g] = users[c][g]
        /\ \A q \in Pools \ {p} : busy'[Slot(q)] = busy[Slot(q)]
        /\ busy'[Slot(p)] = busy[Slot(p)] \union {b}
    BY <1>7, AllocatesFacts
  <2>2. /\ Frees(p)' = Frees(p) \ {b} /\ b \in Frees(p)
        /\ \A q \in Pools \ {p} : Frees(q)' = Frees(q)
    BY <1>7, AllocFrees
  <2>3. users'[b][f] # 0
    BY <1>0, <2>1
  <2>4. \A c \in Addrs : (\E g \in Files : users'[c][g] # 0)
                         <=> \E q \in Pools : c \in busy'[Slot(q)]
    BY <2>1, <2>3 DEF RegInv
  <2>5. \A q \in Pools : busy'[Slot(q)] \cap Frees(q)' = {}
    BY <2>1, <2>2 DEF RegInv
  <2>6. QED
    BY <1>0, <2>4, <2>5 DEF RegInv, Slot
<1>8. ASSUME NEW p \in Pools, NEW gone \in SUBSET busy[Slot(p)], GiveBack(p, gone),
             \A c \in Addrs \ busy[Slot(p)], g \in Files : users'[c][g] = users[c][g],
             \A c \in busy[Slot(p)] \ gone : \E g \in Files : users'[c][g] # 0,
             \A c \in gone, g \in Files : users'[c][g] = 0
      PROVE  RegInv'
  <2>1. /\ \A q \in Pools \ {p} : busy'[Slot(q)] = busy[Slot(q)]
        /\ busy'[Slot(p)] = busy[Slot(p)] \ gone
    BY <1>0, <1>8, GiveBackFacts
  <2>2. /\ Frees(p)' = Frees(p) \union gone
        /\ \A q \in Pools \ {p} : Frees(q)' = Frees(q)
    BY <1>0, <1>8, GiveBackFrees
  <2>3. \A q \in Pools : busy'[Slot(q)] \cap Frees(q)' = {}
    BY <2>1, <2>2 DEF RegInv
  <2>4. ASSUME NEW c \in Addrs
        PROVE  (\E g \in Files : users'[c][g] # 0) <=> \E q \in Pools : c \in busy'[Slot(q)]
    <3>1. CASE c \in gone
      <4>1. \A q \in Pools \ {p} : c \notin busy[Slot(q)]
        BY <3>1, OneBuf DEF BufsOf
      <4>2. QED
        BY <1>8, <2>1, <3>1, <4>1
    <3>2. CASE c \in busy[Slot(p)] \ gone
      BY <1>8, <2>1, <3>2
    <3>3. CASE c \notin busy[Slot(p)]
      BY <1>8, <2>1, <3>3 DEF RegInv
    <3>4. QED
      BY <3>1, <3>2, <3>3
  <2>5. QED
    BY <1>0, <2>3, <2>4 DEF RegInv, Slot
<1>9. ASSUME NEW f \in Files, NEW b \in Addrs, Free(f, b)
      PROVE  RegInv'
  <2>1. PICK p \in Walked : \E gone \in SUBSET {b} :
             /\ b \in busy[Slot(p)] /\ gone = (IF LastUser(b, f) THEN {b} ELSE {})
             /\ GiveBack(p, gone)
    BY <1>9, FreeFacts
  <2>2. PICK gone \in SUBSET {b} : /\ gone = (IF LastUser(b, f) THEN {b} ELSE {})
                                   /\ GiveBack(p, gone)
    BY <2>1
  <2>3. p \in Pools /\ b \in busy[Slot(p)] /\ gone \in SUBSET busy[Slot(p)]
    BY <2>1, <2>2 DEF Walked
  <2>4. /\ users[b][f] > 0 /\ users'[b][f] = users[b][f] - 1
        /\ \A c \in Addrs, g \in Files : c # b \/ g # f => users'[c][g] = users[c][g]
    BY <1>9, FreeUsers DEF PoolType
  <2>5. ASSUME NEW c \in busy[Slot(p)] \ gone
        PROVE  \E g \in Files : users'[c][g] # 0
    <3>1. CASE c = b
      <4>1. ~LastUser(b, f)
        BY <2>2, <3>1
      <4>2. PICK g \in Files : users[b][g] # (IF g = f THEN 1 ELSE 0)
        BY <4>1 DEF LastUser
      <4>3. CASE g = f
        <5>1. users[b][f] \in Nat /\ users[b][f] # 1
          BY <1>0, <4>2, <4>3
        <5>2. users'[b][f] # 0
          BY <2>4, <5>1
        <5>3. QED
          BY <3>1, <5>2
      <4>4. CASE g # f
        BY <2>4, <3>1, <4>2, <4>4
      <4>5. QED
        BY <4>3, <4>4
    <3>2. CASE c # b
      <4>1. c \in Addrs
        BY <1>0, <2>3 DEF ListType
      <4>2. \E g \in Files : users[c][g] # 0
        BY <2>3, <4>1 DEF RegInv
      <4>3. QED
        BY <2>4, <3>2, <4>1, <4>2
    <3>3. QED
      BY <3>1, <3>2
  <2>6. ASSUME NEW c \in gone, NEW g \in Files
        PROVE  users'[c][g] = 0
    <3>1. c = b /\ LastUser(b, f)
      BY <2>2
    <3>2. users[b][g] = IF g = f THEN 1 ELSE 0
      BY <3>1 DEF LastUser
    <3>3. QED
      BY <2>4, <3>1, <3>2
  <2>7. \A c \in Addrs \ busy[Slot(p)], g \in Files : users'[c][g] = users[c][g]
    BY <2>3, <2>4
  <2>8. QED
    BY <1>8, <2>2, <2>3, <2>5, <2>6, <2>7
<1>10. ASSUME NEW f \in Files, ReleasePool(f)
       PROVE  RegInv'
  <2>1. PICK p \in Walked : p = rpool[f]
    BY <1>10, ReleaseFacts DEF PoolType
  <2>2. PICK gone : gone = {b \in busy[Slot(p)] : \A g \in Files : users'[b][g] = 0}
    OBVIOUS
  <2>3. /\ GiveBack(p, gone) /\ \A b \in Addrs \ busy[Slot(p)] : users'[b] = users[b]
    BY <1>10, <2>1, <2>2, ReleaseFacts DEF PoolType
  <2>4. QED
    BY <1>8, <2>1, <2>2, <2>3 DEF Walked
<1> QED BY <1>2, <1>3, <1>4, <1>5, <1>6, <1>7, <1>9, <1>10, StepCases

-------------------------------------------------------------------------------
(* What files keep and what a close takes *)

\* The variables of opens and closes.
closeVars == <<fstate, lastClose, rpool, raced, interrupted>>

\* Only opens and closes change them.
LEMMA CloseCases ==
  ASSUME PoolType, InitInv, [Next]_vars
  PROVE  \/ UNCHANGED closeVars
         \/ \E f \in Files : Open(f) \/ ReleaseStep(f)
<1>1. CASE \/ RegisterChrdev \/ BlockNotGiven \/ SetUpBlock \/ AllocPool \/ AllocHeap
           \/ FailInit \/ Exit \/ WalkWild \/ UNCHANGED vars
  BY <1>1 DEF RegisterChrdev, BlockNotGiven, SetUpBlock, AllocPool, AllocHeap, FailInit, Exit,
     Unloaded, WalkWild, others, vars, ghosts, relVars, closeVars
<1>2. ASSUME NEW f \in Files,
             \/ LateRead(f) \/ \E p \in Pools : Alloc(f, p)
             \/ \E x \in Blocks : AllocFromHeap(f, x)
             \/ \E b \in Addrs : Free(f, b) \/ RegUser(f, b) \/ Mmap(f, b)
      PROVE  UNCHANGED closeVars
  BY <1>2 DEF LateRead, Alloc, AllocFromHeap, Free, RegUser, Mmap, ghosts, relVars, closeVars
<1> QED BY <1>1, <1>2 DEF Next

\* The close that finds reference_count at 0 is alone with files opened since.
LEMMA NoOpenNext ==
  ASSUME PoolType, InitInv, FilesInv, [Next]_vars
  PROVE  NoOpenAtLastClose'
<1>0. /\ NoOpenAtLastClose /\ lastClose \in [Files -> BOOLEAN]
      /\ fstate \in [Files -> {"new", "open", "closing", "closed"}]
  BY DEF FilesInv, PoolType, TypeOK
<1>1. CASE UNCHANGED closeVars
  BY <1>0, <1>1 DEF closeVars, NoOpenAtLastClose
<1>2. ASSUME NEW f \in Files, Open(f)
      PROVE  NoOpenAtLastClose'
  BY <1>0, <1>2 DEF Open, relVars, NoOpenAtLastClose
<1>3. ASSUME NEW f \in Files, ReleaseBegin(f)
      PROVE  NoOpenAtLastClose'
  <2>1. refs' = 0 => OpenFiles' = {}
    <3>1. refs' = Cardinality(OpenFiles') /\ IsFiniteSet(OpenFiles')
      BY FileTypeNext DEF FileType
    <3>2. QED
      BY <3>1, FS_EmptySet
  <2>2. refs' = 0 => \A g \in Files : fstate'[g] # "open"
    BY <2>1 DEF OpenFiles
  <2>3. /\ lastClose'[f] => refs' = 0
        /\ \A g \in Files : g # f => lastClose'[g] = lastClose[g] /\ fstate'[g] = fstate[g]
        /\ fstate'[f] = "closing" /\ raced' = raced
    BY <1>0, <1>3 DEF ReleaseBegin, ghosts
  <2>4. QED
    BY <1>0, <2>2, <2>3 DEF NoOpenAtLastClose
<1>4. ASSUME NEW f \in Files, ReleasePool(f) \/ ReleaseNoHeap(f)
      PROVE  NoOpenAtLastClose'
  BY <1>0, <1>4 DEF ReleasePool, ReleaseNoHeap, ghosts, NoOpenAtLastClose
<1>5. ASSUME NEW f \in Files, ReleaseEnd(f) \/ ReleaseInterrupted(f)
      PROVE  NoOpenAtLastClose'
  BY <1>0, <1>5 DEF ReleaseEnd, ReleaseInterrupted, Returns, NoOpenAtLastClose
<1> QED BY <1>1, <1>2, <1>3, <1>4, <1>5, CloseCases DEF ReleaseStep

\* A read without the lock belongs to a call, and a call keeps its file open.
LEMMA LateNext ==
  ASSUME PoolType, NotFull, InitInv, FilesInv, [Next]_vars
  PROVE  LateIsOpen'
<1>0. /\ LateIsOpen /\ late \in [Files -> Addrs \union {None, Gone}] /\ par' = par
      /\ fstate \in [Files -> {"new", "open", "closing", "closed"}]
  BY ParStays DEF FilesInv, PoolType, TypeOK
<1>1. CASE \/ RegisterChrdev \/ BlockNotGiven \/ SetUpBlock \/ AllocPool \/ AllocHeap
           \/ FailInit \/ Exit \/ WalkWild \/ UNCHANGED vars
  BY <1>0, <1>1 DEF RegisterChrdev, BlockNotGiven, SetUpBlock, AllocPool, AllocHeap, FailInit,
     Exit, Unloaded, WalkWild, others, vars, LateIsOpen
<1>2. ASSUME NEW f \in Files,
             \/ Open(f) \/ ReleaseBegin(f) \/ ReleaseNoHeap(f) \/ \E p \in Pools : Alloc(f, p)
             \/ \E x \in Blocks : AllocFromHeap(f, x)
      PROVE  LateIsOpen'
  BY <1>0, <1>2 DEF Open, ReleaseBegin, ReleaseNoHeap, Alloc, AllocFromHeap, LateIsOpen
<1>3. ASSUME NEW f \in Files, LateRead(f) \/ \E b \in Addrs : RegUser(f, b) \/ Mmap(f, b)
      PROVE  LateIsOpen'
  <2>1. \A g \in Files : late'[g] # None => (g = f /\ fstate[f] = "open") \/ late'[g] = late[g]
    BY <1>0, <1>3 DEF LateRead, RegUser, Mmap, GoesOnWith
  <2>2. fstate' = fstate
    BY <1>3 DEF LateRead, RegUser, Mmap
  <2>3. QED
    BY <1>0, <2>1, <2>2 DEF LateIsOpen
<1>4. ASSUME NEW f \in Files, ReleaseEnd(f) \/ ReleaseInterrupted(f)
      PROVE  LateIsOpen'
  BY <1>0, <1>4 DEF ReleaseEnd, ReleaseInterrupted, Returns, LateIsOpen
<1>5. ASSUME NEW p \in Walked, NEW gone \in SUBSET busy[Slot(p)], GiveBack(p, gone),
             fstate' = fstate
      PROVE  LateIsOpen'
  <2>1. \A g \in Files : late'[g] = late[g] \/ (late[g] \in gone /\ late'[g] = Gone)
    BY <1>0, <1>5, GiveBackFacts DEF Walked
  <2>2. gone \subseteq Addrs
    BY <1>5, ParFacts DEF PoolType, TypeOK, Walked
  <2>3. QED
    BY <1>0, <1>5, <2>1, <2>2, PoolAssumption DEF LateIsOpen
<1>6. ASSUME NEW f \in Files, NEW b \in Addrs, Free(f, b)
      PROVE  LateIsOpen'
  <2>1. fstate' = fstate
    BY <1>6 DEF Free
  <2>2. QED
    BY <1>5, <1>6, <2>1, FreeFacts
<1>7. ASSUME NEW f \in Files, ReleasePool(f)
      PROVE  LateIsOpen'
  <2>1. PICK gone \in SUBSET busy[Slot(rpool[f])] : rpool[f] \in Walked /\ GiveBack(rpool[f], gone)
    BY <1>7, ReleaseFacts DEF PoolType
  <2>2. fstate' = fstate
    BY <1>7 DEF ReleasePool
  <2>3. QED
    BY <1>5, <2>1, <2>2
<1> QED BY <1>1, <1>2, <1>3, <1>4, <1>6, <1>7 DEF Next, ReleaseStep

\* A file that is being closed gets no new registration.
LEMMA ClosingGetsNone ==
  ASSUME PoolType, NotFull, InitInv, Carved, RegInv, [Next]_vars,
         NEW g \in Files, fstate[g] = "closing", NEW p \in Pools, NEW b \in busy'[Slot(p)]
  PROVE  users'[b][g] = 0 \/ (b \in busy[Slot(p)] /\ users'[b][g] = users[b][g])
<1>0. /\ InitAt /\ InitType /\ ListType /\ par' = par /\ TypeOK
      /\ \A q \in Pools : Slot(q) \in Slots
      /\ users \in [Addrs -> [Files -> Nat]]
  BY PoolTypeParts, ParFacts, ParStays DEF InitInv, InitType, UserType, PoolType
<1>1. CASE RegisterChrdev \/ BlockNotGiven \/ SetUpBlock \/ Quiet
  BY <1>1 DEF RegisterChrdev, BlockNotGiven, SetUpBlock, Quiet, poolVars
<1>2. CASE AllocPool \/ AllocHeap
  <2>1. at \in Pools
    BY <1>0, <1>2 DEF AllocPool, AllocHeap, InitAt
  <2>2. users' = users /\ (busy' = busy \/ busy' = [busy EXCEPT ![Slot(at)] = {}])
    BY <1>2 DEF AllocPool, AllocHeap
  <2>3. QED
    BY <1>0, <2>1, <2>2 DEF ListType
<1>3. CASE FailInit \/ Exit
  BY <1>0, <1>3 DEF FailInit, Exit, Unloaded
<1>4. ASSUME NEW f \in Files, NEW c \in Addrs, RegUser(f, c)
      PROVE  b \in busy[Slot(p)] /\ users'[b][g] = users[b][g]
  <2>1. busy' = busy /\ f # g /\ Register(f, c)
    BY <1>4 DEF RegUser
  <2>2. b \in Addrs
    BY <1>0, <2>1 DEF ListType
  <2>3. QED
    BY <1>0, <2>1, <2>2, RegisterFacts
<1>5. ASSUME NEW f \in Files, NEW q \in Pools, NEW c, Allocates(f, q, c)
      PROVE  users'[b][g] = 0 \/ (b \in busy[Slot(p)] /\ users'[b][g] = users[b][g])
  <2>1. f # g
    BY <1>5 DEF Allocates
  <2>2. /\ \A r \in Pools \ {q} : busy'[Slot(r)] = busy[Slot(r)]
        /\ busy'[Slot(q)] = busy[Slot(q)] \union {c} /\ c \in Addrs /\ c \in BufsOf(q)
        /\ \A d \in Addrs, h \in Files : d # c \/ h # f => users'[d][h] = users[d][h]
        /\ busy' \in [Slots -> SUBSET Addrs]
    BY <1>5, AllocatesFacts
  <2>3. b \in Addrs /\ users'[b][g] = users[b][g]
    BY <1>0, <2>1, <2>2
  <2>4. CASE b \in busy[Slot(p)]
    BY <2>3, <2>4
  <2>5. CASE b \notin busy[Slot(p)]
    <3>1. p = q /\ b = c
      BY <2>2, <2>5
    <3>2. \A r \in Pools : b \notin busy[Slot(r)]
      BY <2>2, <2>5, <3>1, OneBuf DEF BufsOf
    <3>3. users[b][g] = 0
      BY <2>3, <3>2 DEF RegInv
    <3>4. QED
      BY <2>3, <3>3
  <2>6. QED
    BY <2>4, <2>5
<1>6. ASSUME NEW q \in Pools, NEW gone \in SUBSET busy[Slot(q)], GiveBack(q, gone)
      PROVE  b \in busy[Slot(p)] /\ b \in Addrs
  <2>1. /\ \A r \in Pools \ {q} : busy'[Slot(r)] = busy[Slot(r)]
        /\ busy'[Slot(q)] = busy[Slot(q)] \ gone /\ busy' \in [Slots -> SUBSET Addrs]
    BY <1>0, <1>6, GiveBackFacts
  <2>2. QED
    BY <1>0, <2>1
<1>7. ASSUME NEW f \in Files, NEW c \in Addrs, Free(f, c)
      PROVE  b \in busy[Slot(p)] /\ users'[b][g] = users[b][g]
  <2>1. f # g
    BY <1>7 DEF Free
  <2>2. PICK q \in Walked : \E gone \in SUBSET {c} : c \in busy[Slot(q)] /\ GiveBack(q, gone)
    BY <1>7, FreeFacts
  <2>3. b \in busy[Slot(p)] /\ b \in Addrs
    BY <1>6, <2>2 DEF Walked
  <2>4. QED
    BY <1>0, <1>7, <2>1, <2>3, FreeUsers
<1>8. ASSUME NEW f \in Files, ReleasePool(f)
      PROVE  users'[b][g] = 0 \/ (b \in busy[Slot(p)] /\ users'[b][g] = users[b][g])
  <2>1. PICK q \in Walked : q = rpool[f]
    BY <1>0, <1>8, ReleaseFacts
  <2>2. PICK gone \in SUBSET busy[Slot(q)] : GiveBack(q, gone)
    BY <1>0, <1>8, <2>1, ReleaseFacts
  <2>3. b \in busy[Slot(p)] /\ b \in Addrs
    BY <1>6, <2>2 DEF Walked
  <2>4. /\ \A d \in busy[Slot(q)], h \in Files :
              users'[d][h] = IF lastClose[f] \/ h = f THEN 0 ELSE users[d][h]
        /\ \A d \in Addrs \ busy[Slot(q)] : users'[d] = users[d]
    BY <1>0, <1>8, <2>1, ReleaseFacts
  <2>5. QED
    BY <2>3, <2>4
<1> QED BY <1>1, <1>2, <1>3, <1>4, <1>5, <1>7, <1>8, StepCases

LEMMA ReleasedNext ==
  ASSUME PoolType, NotFull, InitInv, Carved, RegInv, FilesInv, [Next]_vars
  PROVE  ReleasedSoFar'
<1>0. /\ ReleasedSoFar /\ par' = par /\ Pools' = Pools /\ par \in Params /\ TypeOK
      /\ fstate \in [Files -> {"new", "open", "closing", "closed"}]
      /\ rpool \in [Files -> Pools \union {<<2, 0>>}]
  BY ParStays, SamePools DEF FilesInv, PoolType, TypeOK
<1>1. \A f \in Files : fstate'[f] # "closing" => rpool'[f] = <<0, 0>>
  <2>1. CASE UNCHANGED closeVars
    BY <1>0, <2>1 DEF closeVars, ReleasedSoFar
  <2>2. ASSUME NEW f \in Files, Open(f) \/ ReleaseStep(f), NEW g \in Files, fstate'[g] # "closing"
        PROVE  rpool'[g] = <<0, 0>>
    BY <1>0, <2>2 DEF Open, relVars, ReleaseStep, ReleaseBegin, ReleasePool, ReleaseNoHeap,
       ReleaseEnd, ReleaseInterrupted, Returns, ReleasedSoFar
  <2>3. QED
    BY <2>1, <2>2, CloseCases
<1>2. ASSUME NEW g \in Files, fstate'[g] = "closing", fstate[g] = "closing",
             NEW p \in Pools, Before(p, rpool[g]), NEW b \in busy'[Slot(p)]
      PROVE  users'[b][g] = 0
  <2>1. users'[b][g] = 0 \/ (b \in busy[Slot(p)] /\ users'[b][g] = users[b][g])
    BY <1>2, ClosingGetsNone
  <2>2. QED
    BY <1>2, <2>1 DEF FilesInv, ReleasedSoFar
<1>3. ASSUME NEW f \in Files, ReleasePool(f) \/ ReleaseNoHeap(f)
      PROVE  /\ rpool[f] \in Pools /\ rpool' = [rpool EXCEPT ![f] = After(rpool[f])]
             /\ \A b \in busy'[Slot(rpool[f])] : users'[b][f] = 0
  <2>1. CASE ReleasePool(f)
    <3>1. rpool[f] \in Pools
      BY <2>1 DEF ReleasePool, Walked
    <3>2. rpool' = [rpool EXCEPT ![f] = After(rpool[f])]
      BY <2>1, Zenon DEF ReleasePool, After
    <3>3. PICK p \in Pools : p = rpool[f]
      BY <3>1
    <3>4. ASSUME NEW b \in busy'[Slot(p)]
          PROVE  users'[b][f] = 0
      <4>1. b \in busy[Slot(p)]
        <5>1. PICK gone \in SUBSET busy[Slot(p)] : GiveBack(p, gone)
          BY <1>0, <2>1, <3>3, ReleaseFacts
        <5>2. QED
          BY <1>0, <5>1, GiveBackFacts
      <4>2. QED
        BY <1>0, <2>1, <3>3, <4>1, ReleaseFacts
    <3>5. QED
      BY <3>1, <3>2, <3>3, <3>4 DEF Slot
  <2>2. CASE ReleaseNoHeap(f)
    <3>1. rpool[f] \in Pools /\ IsHeap(rpool[f]) /\ rpool[f][1] \notin hasHeap /\ busy' = busy
      BY <2>2 DEF ReleaseNoHeap, Walked, poolVars
    <3>2. rpool' = [rpool EXCEPT ![f] = After(rpool[f])]
      BY <2>2, <3>1 DEF ReleaseNoHeap, After
    <3>3. busy[Slot(rpool[f])] = {}
      <4>1. /\ rpool[f] = <<rpool[f][1], NPools(rpool[f][1])>> /\ rpool[f][1] \in Blocks
        BY <1>0, <3>1, ParFacts DEF IsHeap
      <4>2. PICK x \in Blocks \ hasHeap : x = rpool[f][1]
        BY <3>1, <4>1
      <4>3. busy[Slot(<<x, NPools(x)>>)] = {}
        BY DEF InitInv, Cleared
      <4>4. QED
        BY <4>1, <4>2, <4>3
    <3>4. QED
      BY <3>1, <3>2, <3>3
  <2>3. QED
    BY <1>3, <2>1, <2>2
<1>4. ASSUME NEW g \in Files, fstate'[g] = "closing", NEW p \in Pools, Before(p, rpool'[g]),
             NEW b \in busy'[Slot(p)]
      PROVE  users'[b][g] = 0
  <2>1. CASE UNCHANGED closeVars
    BY <1>2, <1>4, <2>1 DEF closeVars
  <2>2. ASSUME NEW f \in Files, f # g, Open(f) \/ ReleaseStep(f)
        PROVE  users'[b][g] = 0
    <3>1. fstate[g] = fstate'[g] /\ rpool'[g] = rpool[g]
      BY <1>0, <2>2 DEF Open, relVars, ReleaseStep, ReleaseBegin, ReleasePool, ReleaseNoHeap,
         ReleaseEnd, ReleaseInterrupted, Returns
    <3>2. QED
      BY <1>2, <1>4, <3>1
  <2>3. CASE Open(g) \/ ReleaseEnd(g) \/ ReleaseInterrupted(g)
    BY <1>0, <1>4, <2>3 DEF Open, ReleaseEnd, ReleaseInterrupted, Returns
  <2>4. CASE ReleaseBegin(g)
    <3>1. rpool'[g] = <<0, 0>>
      BY <1>0, <2>4 DEF ReleaseBegin, ReleasedSoFar
    <3>2. p[1] \in {0, 1} /\ p[2] \in Nat
      BY <1>0, ParFacts DEF Blocks
    <3>3. QED
      BY <1>4, <3>1, <3>2 DEF Before
  <2>5. CASE ReleasePool(g) \/ ReleaseNoHeap(g)
    <3>1. /\ rpool[g] \in Pools /\ rpool'[g] = After(rpool[g])
          /\ \A c \in busy'[Slot(rpool[g])] : users'[c][g] = 0
      BY <1>0, <1>3, <2>5
    <3>2. p = rpool[g] \/ Before(p, rpool[g])
      BY <1>0, <1>4, <3>1, AfterFacts
    <3>3. fstate[g] = "closing"
      BY <2>5 DEF ReleasePool, ReleaseNoHeap
    <3>4. QED
      BY <1>2, <1>4, <3>1, <3>2, <3>3
  <2>6. QED
    BY <2>1, <2>2, <2>3, <2>4, <2>5, CloseCases DEF ReleaseStep
<1> QED BY <1>0, <1>1, <1>4 DEF ReleasedSoFar, Before, Slot

\* What a step does to the registrations of a file, real and kept count of.
LEMMA UserEffect ==
  ASSUME PoolType, NotFull, InitInv, [Next]_vars, NEW g \in Files, NEW b \in Addrs
  PROVE  \/ users'[b][g] = users[b][g] /\ held'[b][g] = held[b][g]
         \/ users'[b][g] = 0 /\ held'[b][g] = 0
         \/ /\ fstate[g] = "open"
            /\ users[b][g] = held[b][g] => users'[b][g] = held'[b][g]
         \/ fstate[g] = "closing"
         \/ /\ \E f \in Files : fstate[f] = "closing" /\ lastClose[f]
            /\ users'[b][g] = 0 /\ held'[b][g] = held[b][g]
<1>0. TypeOK
  BY DEF PoolType
<1>1. CASE RegisterChrdev \/ BlockNotGiven \/ SetUpBlock \/ AllocPool \/ AllocHeap \/ Quiet
  BY <1>1 DEF RegisterChrdev, BlockNotGiven, SetUpBlock, AllocPool, AllocHeap, Quiet,
     poolVars, others
<1>2. CASE FailInit \/ Exit
  BY <1>2 DEF FailInit, Exit, Unloaded
<1>3. ASSUME NEW f \in Files, NEW c \in Addrs,
             RegUser(f, c) \/ \E p \in Pools : Allocates(f, p, c)
      PROVE  \/ users'[b][g] = users[b][g] /\ held'[b][g] = held[b][g]
             \/ /\ fstate[g] = "open"
                /\ users[b][g] = held[b][g] => users'[b][g] = held'[b][g]
  <2>1. Register(f, c) /\ fstate[f] = "open"
    BY <1>3 DEF RegUser, Allocates
  <2>2. /\ users'[c][f] = users[c][f] + 1 /\ held'[c][f] = held[c][f] + 1
        /\ \A d \in Addrs, h \in Files : d # c \/ h # f =>
              users'[d][h] = users[d][h] /\ held'[d][h] = held[d][h]
    BY <1>0, <2>1, RegisterFacts
  <2>3. CASE b = c /\ g = f
    BY <2>1, <2>2, <2>3
  <2>4. CASE b # c \/ g # f
    BY <2>2, <2>4
  <2>5. QED
    BY <2>3, <2>4
<1>4. ASSUME NEW f \in Files, NEW p \in Pools, NEW c, Allocates(f, p, c)
      PROVE  c \in Addrs
  BY <1>4, AllocatesFacts
<1>5. ASSUME NEW f \in Files, NEW c \in Addrs, Free(f, c)
      PROVE  \/ users'[b][g] = users[b][g] /\ held'[b][g] = held[b][g]
             \/ /\ fstate[g] = "open"
                /\ users[b][g] = held[b][g] => users'[b][g] = held'[b][g]
  <2>1. /\ users'[c][f] = users[c][f] - 1 /\ held'[c][f] = held[c][f] - 1
        /\ \A d \in Addrs, h \in Files : d # c \/ h # f =>
              users'[d][h] = users[d][h] /\ held'[d][h] = held[d][h]
    BY <1>0, <1>5, FreeUsers
  <2>2. fstate[f] = "open"
    BY <1>5 DEF Free
  <2>3. CASE b = c /\ g = f
    BY <2>1, <2>2, <2>3
  <2>4. CASE b # c \/ g # f
    BY <2>1, <2>4
  <2>5. QED
    BY <2>3, <2>4
<1>6. ASSUME NEW f \in Files, ReleasePool(f)
      PROVE  \/ users'[b][g] = users[b][g] /\ held'[b][g] = held[b][g]
             \/ fstate[g] = "closing"
             \/ /\ fstate[f] = "closing" /\ lastClose[f]
                /\ users'[b][g] = 0 /\ held'[b][g] = held[b][g]
  <2>1. CASE g = f
    BY <1>6, <2>1 DEF ReleasePool
  <2>2. CASE g # f
    <3>1. PICK B : B = busy[Slot(rpool[f])]
      OBVIOUS
    <3>2. /\ \A d \in B, h \in Files :
                users'[d][h] = IF lastClose[f] \/ h = f THEN 0 ELSE users[d][h]
          /\ \A d \in Addrs \ B : users'[d] = users[d]
          /\ \A d \in Addrs, h \in Files \ {f} : held'[d][h] = held[d][h]
          /\ fstate[f] = "closing"
      BY <1>0, <1>6, <3>1, ReleaseFacts
    <3>3. held'[b][g] = held[b][g]
      BY <2>2, <3>2
    <3>4. CASE b \in B /\ lastClose[f]
      BY <3>2, <3>3, <3>4
    <3>5. CASE b \in B /\ ~lastClose[f]
      BY <2>2, <3>2, <3>3, <3>5
    <3>6. CASE b \notin B
      BY <3>2, <3>3, <3>6
    <3>7. QED
      BY <3>4, <3>5, <3>6
  <2>3. QED
    BY <2>1, <2>2
<1> QED BY <1>1, <1>2, <1>3, <1>4, <1>5, <1>6, StepCases

LEMMA KeepsNext ==
  ASSUME PoolType, NotFull, InitInv, Carved, RegInv, FilesInv, [Next]_vars
  PROVE  NewHasNone' /\ RegisteredWhileOpen'
<1>0. /\ NewHasNone /\ RegisteredWhileOpen /\ NoOpenAtLastClose /\ ReleasedSoFar /\ TypeOK
      /\ fstate \in [Files -> {"new", "open", "closing", "closed"}] /\ par \in Params
      /\ rpool \in [Files -> Pools \union {<<2, 0>>}]
  BY DEF FilesInv, PoolType, TypeOK
\* How the state of a file changes.
<1>1. ASSUME NEW g \in Files
      PROVE  /\ fstate'[g] = "new" => fstate[g] = "new"
             /\ fstate'[g] = "open" => fstate[g] \in {"new", "open"}
             /\ fstate'[g] = "closed" /\ g \notin interrupted' =>
                  /\ g \notin interrupted
                  /\ fstate[g] = "closed" \/ (ReleaseEnd(g) /\ users' = users)
             /\ raced \subseteq raced'
  <2>1. CASE UNCHANGED closeVars
    BY <2>1 DEF closeVars
  <2>2. ASSUME NEW f \in Files, Open(f) \/ ReleaseBegin(f)
        PROVE  /\ fstate'[g] = "new" => fstate[g] = "new"
               /\ fstate'[g] = "open" => fstate[g] \in {"new", "open"}
               /\ fstate'[g] = "closed" => fstate[g] = "closed"
               /\ raced \subseteq raced' /\ interrupted' = interrupted
    BY <1>0, <2>2 DEF Open, ReleaseBegin, ghosts
  <2>3. ASSUME NEW f \in Files, ReleasePool(f) \/ ReleaseNoHeap(f)
        PROVE  fstate' = fstate /\ raced' = raced /\ interrupted' = interrupted
    BY <2>3 DEF ReleasePool, ReleaseNoHeap, ghosts
  <2>4. ASSUME NEW f \in Files, ReleaseEnd(f)
        PROVE  /\ fstate' = [fstate EXCEPT ![f] = "closed"] /\ raced' = raced
               /\ interrupted' = interrupted /\ users' = users
    BY <2>4 DEF ReleaseEnd, Returns, poolVars
  <2>5. ASSUME NEW f \in Files, ReleaseInterrupted(f)
        PROVE  /\ fstate' = [fstate EXCEPT ![f] = "closed"] /\ raced' = raced
               /\ interrupted' = interrupted \union {f}
    BY <2>5 DEF ReleaseInterrupted, Returns
  <2>6. ASSUME NEW f \in Files, ReleaseEnd(f) \/ ReleaseInterrupted(f)
        PROVE  /\ fstate'[g] = "new" => fstate[g] = "new"
               /\ fstate'[g] = "open" => fstate[g] \in {"new", "open"}
               /\ fstate'[g] = "closed" /\ g \notin interrupted' =>
                    /\ g \notin interrupted
                    /\ fstate[g] = "closed" \/ (ReleaseEnd(g) /\ users' = users)
               /\ raced \subseteq raced'
    BY <1>0, <2>4, <2>5, <2>6
  <2>7. QED
    BY <2>1, <2>2, <2>3, <2>6, CloseCases DEF ReleaseStep
\* A close that visited all pools leaves nothing.
<1>2. ASSUME NEW g \in Files, ReleaseEnd(g), NEW b \in Addrs
      PROVE  users[b][g] = 0
  <2>1. fstate[g] = "closing" /\ rpool[g] \in Pools \union {<<2, 0>>} /\ rpool[g][1] = 2
    BY <1>0, <1>2 DEF ReleaseEnd
  <2>2. \A p \in Pools : p[1] \in {0, 1}
    BY <1>0, ParFacts DEF Blocks
  <2>3. \A p \in Pools : Before(p, rpool[g])
    BY <2>1, <2>2 DEF Before
  <2>4. CASE \E p \in Pools : b \in busy[Slot(p)]
    BY <1>0, <2>1, <2>3, <2>4 DEF ReleasedSoFar
  <2>5. CASE ~\E p \in Pools : b \in busy[Slot(p)]
    BY <2>5 DEF RegInv
  <2>6. QED
    BY <2>4, <2>5
<1>3. ASSUME NEW g \in Files, NEW b \in Addrs, fstate'[g] = "new"
      PROVE  users'[b][g] = 0 /\ held'[b][g] = 0
  <2>1. fstate[g] = "new" /\ users[b][g] = 0 /\ held[b][g] = 0
    BY <1>0, <1>1, <1>3 DEF NewHasNone
  <2>2. QED
    BY <2>1, UserEffect
<1>4. ASSUME NEW g \in Files \ raced', NEW b \in Addrs, fstate'[g] = "open"
      PROVE  users'[b][g] = held'[b][g]
  <2>1. fstate[g] \in {"new", "open"} /\ g \notin raced
    BY <1>1, <1>4
  <2>2. users[b][g] = held[b][g]
    BY <1>0, <2>1 DEF NewHasNone, RegisteredWhileOpen
  <2>3. CASE fstate[g] = "new"
    <3>1. users[b][g] = 0 /\ held[b][g] = 0
      BY <1>0, <2>3 DEF NewHasNone
    <3>2. QED
      BY <2>3, <3>1, UserEffect
  <2>4. CASE fstate[g] = "open"
    <3>1. ~\E f \in Files : fstate[f] = "closing" /\ lastClose[f]
      BY <1>0, <2>1, <2>4 DEF NoOpenAtLastClose
    <3>2. QED
      BY <2>2, <2>4, <3>1, UserEffect
  <2>5. QED
    BY <2>1, <2>3, <2>4
<1>5. ASSUME NEW g \in Files \ interrupted', NEW b \in Addrs, fstate'[g] = "closed"
      PROVE  users'[b][g] = 0
  <2>1. CASE fstate[g] = "closed" /\ g \notin interrupted
    <3>1. users[b][g] = 0
      BY <1>0, <2>1 DEF RegisteredWhileOpen
    <3>2. QED
      BY <2>1, <3>1, UserEffect
  <2>2. CASE ReleaseEnd(g) /\ users' = users
    BY <1>2, <2>2
  <2>3. QED
    BY <1>1, <1>5, <2>1, <2>2
<1> QED BY <1>3, <1>4, <1>5 DEF NewHasNone, RegisteredWhileOpen

\* The inductive invariant.
PoolInv == PoolType /\ InitInv /\ Carved /\ RegInv /\ FilesInv

LEMMA PoolInvariant == NotFull /\ Spec => []PoolInv
<1>1. Init => PoolInv
  <2> SUFFICES ASSUME Init PROVE PoolInv
    OBVIOUS
  <2>1. PoolType /\ InitInv /\ Carved
    BY CarvedInit
  <2>2. \A p \in Pools : Slot(p) \in Slots
    BY <2>1, ParFacts DEF PoolType, TypeOK
  <2>3. RegInv
    BY <2>2 DEF Init, RegInv
  <2>4. FilesInv
    BY DEF Init, FilesInv, NoOpenAtLastClose, ReleasedSoFar, NewHasNone, LateIsOpen,
       RegisteredWhileOpen
  <2>5. QED
    BY <2>1, <2>3, <2>4 DEF PoolInv
<1>2. NotFull /\ PoolInv /\ [Next]_vars => PoolInv'
  BY TypeNext, InitInvNext, CarvedNext, RegInvNext, NoOpenNext, ReleasedNext, LateNext, KeepsNext
     DEF PoolInv, FilesInv
<1>3. NotFull => NotFull'
  BY DEF NotFull
<1> QED BY <1>1, <1>2, <1>3, PTL DEF Spec

\* The buffers of all pools and heaps lie apart in their mapped blocks, whatever
\* cmem_init carves and whatever is allocated, freed and given back by closes.
THEOREM BuffersApart == NotFull /\ Spec => [](TypeOK /\ CarvedApart)
<1>1. PoolInv => TypeOK /\ CarvedApart
  BY DEF PoolInv, PoolType, InitInv, InitAt, Carved, CarvedApart, ApartFrom, Walked
<1> QED BY <1>1, PoolInvariant, PTL

\* A buffer is busy as long as someone is registered for it, and no longer.
THEOREM BusyWhileRegistered == NotFull /\ Spec => []BusyIffRegistered
<1>1. ASSUME PoolInv
      PROVE  BusyIffRegistered
  <2>1. /\ par \in Params /\ users \in [Addrs -> [Files -> Nat]]
        /\ Walked \subseteq Pools /\ RegInv
    BY <1>1 DEF PoolInv, PoolType, TypeOK, Walked
  <2>2. ASSUME NEW p \in Pools, busy[Slot(p)] # {}
        PROVE  p \in Walked
    <3>1. ASSUME IsHeap(p)
          PROVE  p[1] \in hasHeap
      <4>1. p = <<p[1], NPools(p[1])>> /\ p[1] \in Blocks
        BY <2>1, <3>1, ParFacts DEF IsHeap
      <4>2. PICK x \in Blocks : x = p[1]
        BY <4>1
      <4>3. x \notin hasHeap => busy[Slot(<<x, NPools(x)>>)] = {}
        BY <1>1 DEF PoolInv, InitInv, Cleared
      <4>4. QED
        BY <2>2, <4>1, <4>2, <4>3
    <3>2. QED
      BY <3>1 DEF Walked
  <2>3. \A b \in Addrs : ~NoUsers(b) <=> \E p \in Walked : b \in busy[Slot(p)]
    BY <2>1, <2>2 DEF RegInv, NoUsers
  <2>4. QED
    BY <2>1, <2>3 DEF RegInv, Frees, BusyIffRegistered
<1> QED BY <1>1, PoolInvariant, PTL

\* An open file keeps its registrations, unless it was opened during a last close; a
\* close that was not interrupted leaves none.
THEOREM FilesKeepBuffers == NotFull /\ Spec => []RegisteredWhileOpen
<1>1. PoolInv => RegisteredWhileOpen
  BY DEF PoolInv, FilesInv
<1> QED BY <1>1, PoolInvariant, PTL

\* An entry that REGUSER or mmap goes on to read is freed under them only when their own
\* file has given up its registrations, or was opened during a last close.
THEOREM EntryStays == NotFull /\ Spec => PendingEntryStays
<1> DEFINE Stays == \A f \in Files : late[f] \in Addrs /\ late'[f] = Gone =>
                      f \in raced \/ held'[late[f]][f] = 0
<1>1. ASSUME NotFull, PoolInv, PoolInv', [Next]_vars
      PROVE  Stays
  <2>0. SUFFICES ASSUME NEW f \in Files, NEW b \in Addrs, late[f] = b, late'[f] = Gone,
                        f \notin raced
                 PROVE  held'[b][f] = 0
    OBVIOUS
  <2>1. /\ PoolType /\ InitInv /\ FilesInv /\ TypeOK /\ par' = par
        /\ late \in [Files -> Addrs \union {None, Gone}]
    BY <1>1, ParStays DEF PoolInv, PoolType, TypeOK
  <2>2. fstate[f] = "open" /\ b # None /\ b # Gone
    BY <2>0, <2>1, PoolAssumption DEF FilesInv, LateIsOpen
  <2>3. ASSUME NEW p \in Walked, NEW gone \in SUBSET busy[Slot(p)], GiveBack(p, gone),
               \A c \in gone : users'[c][f] = 0, fstate' = fstate, raced' = raced
        PROVE  held'[b][f] = 0
    <3>1. b \in gone
      BY <1>1, <2>0, <2>1, <2>2, <2>3, GiveBackFacts DEF Walked
    <3>2. users'[b][f] = held'[b][f]
      BY <1>1, <2>0, <2>2, <2>3 DEF PoolInv, FilesInv, RegisteredWhileOpen
    <3>3. QED
      BY <2>3, <3>1, <3>2
  <2>4. ASSUME NEW g \in Files, NEW c \in Addrs, Free(g, c)
        PROVE  held'[b][f] = 0
    <3>1. PICK p \in Walked : \E gone \in SUBSET {c} :
               /\ c \in busy[Slot(p)] /\ gone = (IF LastUser(c, g) THEN {c} ELSE {})
               /\ GiveBack(p, gone)
      BY <2>4, FreeFacts
    <3>2. PICK gone \in SUBSET busy[Slot(p)] :
               /\ gone = (IF LastUser(c, g) THEN {c} ELSE {}) /\ GiveBack(p, gone)
      BY <3>1
    <3>3. \A d \in gone : users'[d][f] = 0
      <4>1. SUFFICES ASSUME LastUser(c, g) PROVE users'[c][f] = 0
        BY <3>2
      <4>2. users[c][f] = IF f = g THEN 1 ELSE 0
        BY <4>1 DEF LastUser
      <4>3. QED
        BY <2>1, <2>4, <4>2, FreeUsers
    <3>4. fstate' = fstate /\ raced' = raced
      BY <2>4 DEF Free, ghosts
    <3>5. QED
      BY <2>3, <3>2, <3>3, <3>4
  <2>5. ASSUME NEW g \in Files, ReleasePool(g)
        PROVE  held'[b][f] = 0
    <3>1. PICK p \in Walked : p = rpool[g]
      BY <2>1, <2>5, ReleaseFacts
    <3>2. PICK gone : gone = {d \in busy[Slot(p)] : \A h \in Files : users'[d][h] = 0}
      OBVIOUS
    <3>3. GiveBack(p, gone) /\ \A d \in gone : users'[d][f] = 0
      BY <2>1, <2>5, <3>1, <3>2, ReleaseFacts
    <3>4. fstate' = fstate /\ raced' = raced
      BY <2>5 DEF ReleasePool, ghosts
    <3>5. QED
      BY <2>3, <3>2, <3>3, <3>4
  <2>6. CASE \/ RegisterChrdev \/ BlockNotGiven \/ SetUpBlock \/ AllocPool \/ AllocHeap
             \/ FailInit \/ Exit \/ WalkWild \/ UNCHANGED vars
    BY <2>0, <2>2, <2>6 DEF RegisterChrdev, BlockNotGiven, SetUpBlock, AllocPool, AllocHeap,
       FailInit, Exit, Unloaded, WalkWild, others, vars
  <2>7. ASSUME NEW g \in Files,
               \/ Open(g) \/ ReleaseBegin(g) \/ ReleaseNoHeap(g) \/ ReleaseEnd(g)
               \/ ReleaseInterrupted(g) \/ \E p \in Pools : Alloc(g, p)
               \/ \E x \in Blocks : AllocFromHeap(g, x)
        PROVE  late' = late
    BY <2>7 DEF Open, ReleaseBegin, ReleaseNoHeap, ReleaseEnd, ReleaseInterrupted, Returns,
       Alloc, AllocFromHeap
  <2>8. ASSUME NEW g \in Files, LateRead(g) \/ \E c \in Addrs : RegUser(g, c) \/ Mmap(g, c)
        PROVE  late'[f] # Gone
    <3>1. \E v \in Addrs \union {None} : late' = [late EXCEPT ![g] = v]
      BY <2>8 DEF LateRead, RegUser, Mmap, GoesOnWith
    <3>2. QED
      BY <2>0, <2>1, <2>2, <3>1, PoolAssumption
  <2>9. QED
    BY <1>1, <2>0, <2>2, <2>4, <2>5, <2>6, <2>7, <2>8 DEF Next, ReleaseStep
<1>2. NotFull /\ PoolInv /\ PoolInv' /\ [Next]_vars => [Stays]_vars
  BY <1>1
<1>3. NotFull => NotFull'
  BY DEF NotFull
<1> QED BY <1>2, <1>3, PoolInvariant, PTL DEF Spec, PendingEntryStays

-------------------------------------------------------------------------------
(* GETPOOL *)

\* A set of numbers that has an element has a least one.
LEMMA LeastElement ==
  ASSUME NEW T \in SUBSET Nat, T # {}
  PROVE  \E m \in T : \A n \in T : m <= n
<1>1. IsWellFoundedOn({ss \in Nat \X Nat : ss[1] < ss[2]}, Nat)
  BY NatLessThanWellFounded, Zenon DEF OpToRel
<1>2. PICK m \in T : \A n \in T : ~ (<<n, m>> \in {ss \in Nat \X Nat : ss[1] < ss[2]})
  BY <1>1, WFMin
<1>3. \A n \in T : <<n, m>> \in Nat \X Nat /\ <<n, m>>[1] = n /\ <<n, m>>[2] = m
  OBVIOUS
<1>4. \A n \in T : ~ (n < m)
  BY <1>2, <1>3
<1> QED BY <1>4

\* The loop takes pool i over best.
Takes(x, reqsize, i, best) ==
    /\ PoolSize(<<x, i>>) - reqsize >= 0
    /\ best = -1 \/ PoolSize(<<x, i>>) - reqsize < PoolSize(<<x, best>>) - reqsize
    /\ free[Slot(<<x, i>>)] # {}

\* f[n] is the best pool after n turns of the loop, m in all.
ScansTo(x, reqsize, m, f) ==
    f = [n \in 0..m |-> IF n = 0 THEN -1
                        ELSE IF Takes(x, reqsize, n - 1, f[n - 1]) THEN n - 1 ELSE f[n - 1]]

LEMMA ScanExists ==
  ASSUME NEW x, NEW reqsize, NEW m \in Nat
  PROVE  \E f : ScansTo(x, reqsize, m, f)
<1> DEFINE Bad == {k \in Nat : ~ \E f : ScansTo(x, reqsize, k, f)}
<1>1. SUFFICES ASSUME Bad # {} PROVE FALSE
  OBVIOUS
<1>2. PICK k \in Bad : \A n \in Bad : k <= n
  BY <1>1, LeastElement
<1>3. k # 0
  <2>1. ScansTo(x, reqsize, 0, [n \in 0..0 |-> -1])
    BY DEF ScansTo
  <2> QED BY <2>1
<1>4. PICK f : ScansTo(x, reqsize, k - 1, f)
  BY <1>2, <1>3
<1> DEFINE g == [n \in 0..k |->
                   IF n < k THEN f[n]
                   ELSE IF Takes(x, reqsize, k - 1, f[k - 1]) THEN k - 1 ELSE f[k - 1]]
<1>5. ScansTo(x, reqsize, k, g)
  <2>1. \A n \in 0..(k - 1) : g[n] = f[n]
    OBVIOUS
  <2>2. \A n \in 0..(k - 1) :
          f[n] = IF n = 0 THEN -1
                 ELSE IF Takes(x, reqsize, n - 1, f[n - 1]) THEN n - 1 ELSE f[n - 1]
    BY <1>4 DEF ScansTo
  <2>3. \A n \in 0..k :
          g[n] = IF n = 0 THEN -1
                 ELSE IF Takes(x, reqsize, n - 1, g[n - 1]) THEN n - 1 ELSE g[n - 1]
    BY <1>3, <2>1, <2>2
  <2> HIDE DEF g
  <2>4. g = [n \in 0..k |-> g[n]]
    BY DEF g
  <2> QED BY <2>3, <2>4 DEF ScansTo
<1> QED BY <1>2, <1>5

\* The pools that can serve a request.
Fitting(x, reqsize) ==
    {i \in 0..(NPools(x) - 1) : /\ PoolSize(<<x, i>>) >= reqsize
                                /\ free[Slot(<<x, i>>)] # {}}

\* best is the best of the first n pools.
BestOf(x, reqsize, n, best) ==
    LET Seen == {i \in Fitting(x, reqsize) : i < n}
    IN  IF Seen = {} THEN best = -1
        ELSE best \in Seen /\ \A i \in Seen : PoolSize(<<x, best>>) <= PoolSize(<<x, i>>)

LEMMA ScanFindsBest ==
  ASSUME NEW x \in Blocks, NEW reqsize \in Int, NPools(x) \in Nat,
         \A i \in 0..(NPools(x) - 1) : PoolSize(<<x, i>>) \in Int,
         NEW f, ScansTo(x, reqsize, MaxPools, f), NPools(x) <= MaxPools
  PROVE  BestOf(x, reqsize, NPools(x), f[NPools(x)])
<1> DEFINE Bad == {k \in 0..NPools(x) : ~ BestOf(x, reqsize, k, f[k])}
<1>1. SUFFICES ASSUME Bad # {} PROVE FALSE
  BY DEF Bad
<1>2. PICK k \in Bad : \A n \in Bad : k <= n
  <2>1. Bad \in SUBSET Nat
    OBVIOUS
  <2> QED BY <1>1, <2>1, LeastElement
<1>0. MaxPools \in Nat
  BY PoolAssumption
<1>3. /\ f[0] = -1
      /\ \A n \in 1..MaxPools :
           f[n] = IF Takes(x, reqsize, n - 1, f[n - 1]) THEN n - 1 ELSE f[n - 1]
  BY <1>0 DEF ScansTo
<1>4. k # 0
  BY <1>3 DEF BestOf, Fitting
<1>5. BestOf(x, reqsize, k - 1, f[k - 1])
  BY <1>2, <1>4
<1>6. f[k] = IF Takes(x, reqsize, k - 1, f[k - 1]) THEN k - 1 ELSE f[k - 1]
  BY <1>0, <1>3, <1>4
<1>7. k - 1 \in 0..(NPools(x) - 1) /\ k \in Nat
  BY <1>4
<1> DEFINE Seen == {i \in Fitting(x, reqsize) : i < k - 1}
           Now == {i \in Fitting(x, reqsize) : i < k}
<1>8. /\ k - 1 \in Fitting(x, reqsize) => Now = Seen \union {k - 1}
      /\ k - 1 \notin Fitting(x, reqsize) => Now = Seen
  BY <1>7 DEF Fitting
<1>9. PICK best : best = f[k - 1]
  OBVIOUS
<1>10. IF Seen = {} THEN best = -1
       ELSE best \in Seen /\ \A i \in Seen : PoolSize(<<x, best>>) <= PoolSize(<<x, i>>)
  BY <1>5, <1>9 DEF BestOf
<1>11. /\ best = -1 \/ PoolSize(<<x, best>>) \in Int
       /\ Seen # {} => best # -1
  <2>1. \A i \in Seen : i \in 0..(NPools(x) - 1)
    BY DEF Fitting
  <2>2. Seen # {} => best \in 0..(NPools(x) - 1)
    BY <1>10, <2>1
  <2>3. best \in 0..(NPools(x) - 1) => best # -1 /\ PoolSize(<<x, best>>) \in Int
    OBVIOUS
  <2> QED BY <1>10, <2>2, <2>3
<1>12. Takes(x, reqsize, k - 1, best) <=>
         /\ k - 1 \in Fitting(x, reqsize)
         /\ Seen = {} \/ PoolSize(<<x, k - 1>>) < PoolSize(<<x, best>>)
  <2>1. PoolSize(<<x, k - 1>>) \in Int
    BY <1>7
  <2>2. (Seen = {}) <=> (best = -1)
    BY <1>10, <1>11
  <2>3. Takes(x, reqsize, k - 1, best) <=>
          /\ PoolSize(<<x, k - 1>>) >= reqsize
          /\ best = -1 \/ PoolSize(<<x, k - 1>>) < PoolSize(<<x, best>>)
          /\ free[Slot(<<x, k - 1>>)] # {}
    BY <1>11, <2>1 DEF Takes
  <2>4. k - 1 \in Fitting(x, reqsize) <=>
          PoolSize(<<x, k - 1>>) >= reqsize /\ free[Slot(<<x, k - 1>>)] # {}
    BY <1>7 DEF Fitting
  <2> QED BY <2>2, <2>3, <2>4
<1>13. \A i \in Now : PoolSize(<<x, i>>) \in Int
  BY DEF Fitting
<1>14. IF Now = {} THEN f[k] = -1
       ELSE f[k] \in Now /\ \A i \in Now : PoolSize(<<x, f[k]>>) <= PoolSize(<<x, i>>)
  <2>1. CASE Takes(x, reqsize, k - 1, best)
    <3>1. f[k] = k - 1 /\ Now = Seen \union {k - 1} /\ PoolSize(<<x, k - 1>>) \in Int
      BY <1>6, <1>8, <1>9, <1>12, <1>13, <2>1
    <3>2. \A i \in Seen : PoolSize(<<x, k - 1>>) <= PoolSize(<<x, i>>)
      BY <1>8, <1>10, <1>11, <1>12, <1>13, <2>1
    <3> QED BY <3>1, <3>2
  <2>2. CASE ~Takes(x, reqsize, k - 1, best)
    <3>1. f[k] = best
      BY <1>6, <1>9, <2>2
    <3>2. CASE k - 1 \notin Fitting(x, reqsize)
      BY <1>8, <1>10, <3>1, <3>2
    <3>3. CASE k - 1 \in Fitting(x, reqsize)
      <4>1. Seen # {} /\ Now = Seen \union {k - 1}
        BY <1>8, <1>12, <2>2, <3>3
      <4>2. PoolSize(<<x, best>>) <= PoolSize(<<x, k - 1>>)
        BY <1>11, <1>12, <1>13, <2>2, <3>3, <4>1
      <4> QED BY <1>10, <3>1, <4>1, <4>2
    <3> QED BY <3>2, <3>3
  <2> QED BY <2>1, <2>2
<1>15. BestOf(x, reqsize, k, f[k])
  BY <1>14 DEF BestOf
<1> QED BY <1>2, <1>15

LEMMA BestFitScans ==
  ASSUME NEW x, NEW reqsize
  PROVE  \E f : ScansTo(x, reqsize, MaxPools, f) /\ BestFit(x, reqsize) = f[NPools(x)]
<1> DEFINE Body(f) == [n \in 0..MaxPools |->
                         IF n = 0 THEN -1
                         ELSE LET best == f[n - 1]
                                  i == n - 1
                              IN  IF /\ PoolSize(<<x, i>>) - reqsize >= 0
                                     /\ \/ best = -1
                                        \/ PoolSize(<<x, i>>) - reqsize
                                             < PoolSize(<<x, best>>) - reqsize
                                     /\ free[Slot(<<x, i>>)] # {}
                                  THEN i ELSE best]
           S == CHOOSE f : f = Body(f)
<1>1. BestFit(x, reqsize) = S[NPools(x)]
  BY DEF BestFit
<1>2. \A f : ScansTo(x, reqsize, MaxPools, f) <=> f = Body(f)
  BY Zenon DEF ScansTo, Takes
<1> HIDE DEF Body
<1>3. \E f : f = Body(f)
  BY <1>2, ScanExists, PoolAssumption
<1>4. S = Body(S)
  BY <1>3, Zenon
<1> QED BY <1>1, <1>2, <1>4

\* GETPOOL finds a pool that fits best, and no pool only when none fits.
THEOREM BestPool == Spec => []GetPoolBestFit
<1>1. ASSUME par \in Params
      PROVE  GetPoolBestFit
  <2> DEFINE Answers(x, n) ==
               IF Fitting(x, n) = {} THEN GetPool(x, n) \in {-1, -2}
               ELSE /\ GetPool(x, n) \in Fitting(x, n)
                    /\ \A i \in Fitting(x, n) :
                         PoolSize(<<x, GetPool(x, n)>>) <= PoolSize(<<x, i>>)
  <2>0. ASSUME NEW x \in Blocks, NEW q \in Pools, NEW n \in {PoolSize(q), PoolSize(q) + 1}
        PROVE  Answers(x, n)
    <3>1. NPools(x) \in Nat /\ NPools(x) <= MaxPools
      BY <1>1, ParFacts
    <3>2. \A i \in 0..(NPools(x) - 1) : PoolSize(<<x, i>>) \in Int
      <4>1. \A i \in 0..(NPools(x) - 1) : <<x, i>> \in Pools
        BY <3>1, PoolAssumption DEF Pools
      <4> QED BY <1>1, <4>1, ParFacts
    <3>3. n \in Int
      BY <1>1, ParFacts
    <3>4. PICK f : ScansTo(x, n, MaxPools, f) /\ BestFit(x, n) = f[NPools(x)]
      BY BestFitScans
    <3>5. BestOf(x, n, NPools(x), BestFit(x, n))
      BY <3>1, <3>2, <3>3, <3>4, ScanFindsBest
    <3>6. {i \in Fitting(x, n) : i < NPools(x)} = Fitting(x, n) /\ -1 \notin Fitting(x, n)
      BY <3>1 DEF Fitting
    <3>7. QED
      BY <3>5, <3>6 DEF BestOf, GetPool
  <2>1. \A x \in Blocks :
          \A n \in UNION {{PoolSize(q), PoolSize(q) + 1} : q \in Pools} : Answers(x, n)
    <3> HIDE DEF Answers
    <3> QED BY <2>0
  <2> QED BY <2>1, Zenon DEF GetPoolBestFit, Fitting
<1> DEFINE Known == par \in Params
<1>2. Init => Known
  BY DEF Init
<1>3. Known /\ [Next]_vars => Known'
  BY ParStays
<1>4. Known => GetPoolBestFit
  BY <1>1
<1> QED BY <1>2, <1>3, <1>4, PTL DEF Spec
================================================================================
