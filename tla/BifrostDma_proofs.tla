-------------------------- MODULE BifrostDma_proofs --------------------------
(***************************************************************************)
(* Proofs about the DMA engine, for any number of threads, requests and    *)
(* channels.  DmaInv is the inductive invariant: the conjunction of the    *)
(* invariants that the model-checking runs check one by one.               *)
(***************************************************************************)
EXTENDS BifrostDma, TLAPS, WellFoundedInduction, SequenceTheorems,
        FunctionTheorems, FiniteSetTheorems

(* Facts about the helpers *)

\* A non-empty set of naturals has a least element.
LEMMA HasMin ==
  ASSUME NEW S \in SUBSET Nat, S # {}
  PROVE  \E c \in S : \A d \in S : c <= d
<1> DEFINE R == {ij \in Nat \X Nat : ij[1] < ij[2]}
<1>1. IsWellFoundedOn(R, Nat)
  BY NatLessThanWellFounded DEF OpToRel
<1>2. PICK x \in S : \A y \in S : ~ (<<y, x>> \in R)
  <2> HIDE DEF R
  <2> QED BY <1>1, WFMin
<1>3. ASSUME NEW y \in S PROVE x <= y
  <2>1. x \in Nat /\ y \in Nat
    OBVIOUS
  <2>2. y < x => <<y, x>> \in R
    BY <2>1
  <2> HIDE DEF R
  <2> QED BY <1>2, <2>1, <2>2
<1> QED BY <1>3

\* __find_1st_idle_chan returns an idle channel, or -1 when there is none, so
\* the test ch >= 0 of start_dma_xfer tells the two cases apart.
LEMMA FirstIdleProperty ==
  ASSUME NEW map \in SUBSET Ch
  PROVE  /\ FirstIdle(map) >= 0 => FirstIdle(map) \in map
         /\ FirstIdle(map) < 0 => map = {}
         /\ FirstIdle(map) \in Ch \union {-1}
<1>1. CASE map = {}
  BY <1>1 DEF FirstIdle
<1>2. CASE map # {}
  <2>1. map \in SUBSET Nat
    BY DmaAssumption DEF Ch
  <2>2. \E c \in map : \A d \in map : c <= d
    BY <1>2, <2>1, HasMin
  <2>3. FirstIdle(map) \in map
    BY <1>2, <2>2 DEF FirstIdle
  <2>4. FirstIdle(map) \in Nat /\ FirstIdle(map) \in Ch
    BY <2>1, <2>3
  <2> QED BY <2>3, <2>4
<1> QED BY <1>1, <1>2

\* list_add_tail adds one element at the end.
LEMMA EnqueueProperty ==
  ASSUME NEW q \in Seq(Reqs), NEW r \in Reqs
  PROVE  /\ Enqueue(q, r) \in Seq(Reqs)
         /\ Elems(Enqueue(q, r)) = Elems(q) \union {r}
         /\ NoDup(q) /\ r \notin Elems(q) => NoDup(Enqueue(q, r))
<1> DEFINE a == Append(q, r)
<1>1. /\ a \in Seq(Reqs)
      /\ Len(a) = Len(q) + 1 /\ Len(q) \in Nat
      /\ \A i \in 1..Len(q) : a[i] = q[i]
      /\ a[Len(q) + 1] = r
  BY AppendProperties
<1>2. Elems(a) = Elems(q) \union {r}
  BY <1>1 DEF Elems
<1>3. NoDup(q) /\ r \notin Elems(q) => NoDup(a)
  BY <1>1 DEF Elems, NoDup
<1> QED BY <1>1, <1>2, <1>3 DEF Enqueue

\* list_del of the first element of a non-empty list.
LEMMA DequeueProperty ==
  ASSUME NEW q \in Seq(Reqs), HasWaiter(q)
  PROVE  /\ Dequeue(q) \in Seq(Reqs)
         /\ Head(q) \in Elems(q) /\ Head(q) \in Reqs
         /\ Elems(q) = Elems(Dequeue(q)) \union {Head(q)}
         /\ NoDup(q) => NoDup(Dequeue(q)) /\ Head(q) \notin Elems(Dequeue(q))
<1> DEFINE b == Tail(q)
<1>1. /\ b \in Seq(Reqs) /\ Head(q) \in Reqs
      /\ Len(b) = Len(q) - 1 /\ Len(q) \in Nat \ {0} /\ Len(b) \in Nat
      /\ \A i \in 1..Len(b) : b[i] = q[i + 1]
      /\ Head(q) = q[1]
  BY HeadTailProperties DEF HasWaiter
<1>2. \A x : x \in Elems(q) <=> \E i \in 1..Len(q) : x = q[i]
  BY DEF Elems
<1>3. \A x : x \in Elems(b) <=> \E i \in 1..Len(b) : x = b[i]
  BY DEF Elems
<1>4. ASSUME NEW i \in 1..Len(q), i # 1
      PROVE  i - 1 \in 1..Len(b) /\ q[i] = b[i - 1]
  BY <1>1, <1>4
<1>5. Elems(q) = Elems(b) \union {Head(q)}
  <2>1. ASSUME NEW x \in Elems(q) PROVE x \in Elems(b) \union {Head(q)}
    <3>1. PICK i \in 1..Len(q) : x = q[i]
      BY <1>2
    <3>2. CASE i = 1
      BY <3>1, <3>2, <1>1
    <3>3. CASE i # 1
      BY <3>1, <3>3, <1>3, <1>4
    <3> QED BY <3>2, <3>3
  <2>2. ASSUME NEW x \in Elems(b) PROVE x \in Elems(q)
    <3>1. PICK i \in 1..Len(b) : x = b[i]
      BY <1>3
    <3>2. i + 1 \in 1..Len(q) /\ x = q[i + 1]
      BY <3>1, <1>1
    <3> QED BY <3>2, <1>2
  <2>3. Head(q) \in Elems(q)
    BY <1>1, <1>2
  <2> QED BY <2>1, <2>2, <2>3
<1>6. NoDup(q) => NoDup(b) /\ Head(q) \notin Elems(b)
  <2> SUFFICES ASSUME NoDup(q) PROVE NoDup(b) /\ Head(q) \notin Elems(b)
    OBVIOUS
  <2>1. \A i, j \in 1..Len(b) : b[i] = b[j] => i = j
    BY <1>1 DEF NoDup
  <2>2. \A i \in 1..Len(b) : b[i] # Head(q)
    BY <1>1 DEF NoDup
  <2> QED BY <2>1, <2>2, <1>3 DEF NoDup
<1> QED BY <1>1, <1>5, <1>6 DEF Dequeue

-------------------------------------------------------------------------------
(* Type correctness *)

\* TypeOK is inductive on its own except that a thread that submits must have a
\* request in hand and a handler that is refilling runs for a real channel.
Hands ==
    /\ \A t \in Threads : pc[t] \in {"ready", "kick"} => treq[t] \in Reqs
    /\ \A t \in Threads : pc[t] = "kick" => tch[t] \in Ch
    /\ \A c \in Ch : hpc[c] = "kick" => hreq[c] \in Reqs

\* The initial state has the right types; nobody holds a channel yet.
LEMMA TypeInit == Init => TypeOK /\ Hands
BY DmaAssumption, EmptySeq DEF Init, TypeOK, Hands, PCs, HPCs, Ch

\* Every step keeps the types and Hands.
LEMMA TypeNext == TypeOK /\ Hands /\ [Next]_vars => TypeOK' /\ Hands'
<1> SUFFICES ASSUME TypeOK, Hands, [Next]_vars
             PROVE  TypeOK' /\ Hands'
  OBVIOUS
<1> USE DmaAssumption DEF TypeOK, Hands, PCs, HPCs
<1>1. ASSUME NEW t \in Threads, AllocReq(t) PROVE TypeOK' /\ Hands'
  BY <1>1 DEF AllocReq, GetTicket, ctlVars, hndVars, hwVars
<1>2. ASSUME NEW t \in Threads, RejectReq(t) PROVE TypeOK' /\ Hands'
  BY <1>2 DEF RejectReq, ctlVars, hndVars, hwVars
<1>3. ASSUME NEW t \in Threads, AbandonReq(t) PROVE TypeOK' /\ Hands'
  BY <1>3 DEF AbandonReq, ctlVars, hndVars, hwVars
<1>4. ASSUME NEW t \in Threads, NEW c \in Ch, StartNow(t, c)
      PROVE  TypeOK' /\ Hands'
  <2>1. treq[t] \in Reqs
    BY <1>4 DEF StartNow
  <2>2. TakeIdle(idle) \in SUBSET Ch
    BY DEF TakeIdle
  <2> QED BY <1>4, <2>1, <2>2 DEF StartNow, reqVars, hndVars, hwVars
<1>14. ASSUME NEW t \in Threads, StartLater(t) PROVE TypeOK' /\ Hands'
  <2>1. treq[t] \in Reqs
    BY <1>14 DEF StartLater
  <2>2. Enqueue(queue, treq[t]) \in Seq(Reqs)
    BY <2>1, EnqueueProperty
  <2> QED BY <1>14, <2>1, <2>2 DEF StartLater, reqVars, hndVars, hwVars
<1>5. ASSUME NEW t \in Threads, KickOff(t) PROVE TypeOK' /\ Hands'
  BY <1>5 DEF KickOff, ChanStart, ctlVars, reqVars, hndVars
<1>6. ASSUME NEW t \in Threads, Return(t) PROVE TypeOK' /\ Hands'
  BY <1>6 DEF Return, ctlVars, reqVars, hndVars, hwVars
<1>7. ASSUME NEW c \in Ch, HwComplete(c) PROVE TypeOK' /\ Hands'
  BY <1>7 DEF HwComplete, ctlVars, reqVars, thrVars, hndVars
<1>8. ASSUME NEW c \in Ch, Spurious(c) PROVE TypeOK' /\ Hands'
  BY <1>8 DEF Spurious, ctlVars, reqVars, thrVars, hndVars
<1>9. ASSUME NEW c \in Ch, TakeDone(c) PROVE TypeOK' /\ Hands'
  BY <1>9 DEF TakeDone, thrVars
<1>10. ASSUME NEW c \in Ch, RefillNext(c) PROVE TypeOK' /\ Hands'
  <2> DEFINE r == Head(queue)
             q == Dequeue(queue)
  <2>1. q \in Seq(Reqs) /\ r \in Reqs
    BY <1>10, DequeueProperty DEF RefillNext
  <2>2. /\ hreq' = [hreq EXCEPT ![c] = r]
        /\ inProgress' = [inProgress EXCEPT ![c] = r]
        /\ queue' = q
        /\ hpc' = [hpc EXCEPT ![c] = "kick"]
        /\ UNCHANGED <<idle, live, reqTicket, ticket, leaked, pc, treq, tch,
                       htick, announced, hw, hwTicket>>
    BY <1>10 DEF RefillNext, reqVars, thrVars, hwVars
  <2> HIDE DEF r, q
  <2> QED BY <2>1, <2>2
<1>15. ASSUME NEW c \in Ch, RefillNone(c) PROVE TypeOK' /\ Hands'
  BY <1>15 DEF RefillNone, FreeChan, reqVars, thrVars, hwVars
<1>11. ASSUME NEW c \in Ch, KickNext(c) PROVE TypeOK' /\ Hands'
  BY <1>11 DEF KickNext, ChanStart, ctlVars, reqVars, thrVars
<1>12. ASSUME NEW c \in Ch, CreateEvent(c) PROVE TypeOK' /\ Hands'
  BY <1>12 DEF CreateEvent, ctlVars, reqVars, thrVars, hwVars
<1>13. CASE UNCHANGED vars
  BY <1>13 DEF vars
<1> QED
  BY <1>1, <1>2, <1>3, <1>4, <1>5, <1>6, <1>7, <1>8, <1>9, <1>10, <1>11,
     <1>12, <1>13, <1>14, <1>15 DEF Next, ThreadStep, StartXfer, ChannelStep

\* Every variable of the engine keeps its type.
THEOREM TypeCorrect == Spec => []TypeOK
<1>1. Spec => [](TypeOK /\ Hands)
  BY TypeInit, TypeNext, PTL DEF Spec
<1> QED BY <1>1, PTL

-------------------------------------------------------------------------------
(* Ownership of requests, for every action *)

\* alloc_dma_req gives the new request to its thread.
LEMMA OwnerAlloc ==
  ASSUME TypeOK, Hands, OneOwner, NEW t \in Threads, AllocReq(t)
  PROVE  OneOwner'
<1>1. PICK r \in Reqs \ live :
        /\ live' = live \union {r}
        /\ treq' = [treq EXCEPT ![t] = r]
        /\ pc' = [pc EXCEPT ![t] = "ready"]
        /\ UNCHANGED <<queue, inProgress, leaked>>
        /\ pc[t] = "user"
  BY DEF AllocReq, ctlVars
<1>2. InHand' = InHand \union {r}
  BY <1>1 DEF TypeOK, InHand
<1>3. OnChannel' = OnChannel /\ Queued' = Queued /\ (NoDup(queue))' = NoDup(queue)
  BY <1>1 DEF OnChannel, Queued
<1>4. r \notin Queued /\ r \notin OnChannel /\ r \notin InHand /\ r \notin leaked
  BY <1>1 DEF OneOwner
<1>5. \A u, v \in Threads : pc'[u] = "ready" /\ pc'[v] = "ready"
                              /\ treq'[u] = treq'[v] => u = v
  BY <1>1, <1>4 DEF TypeOK, OneOwner, InHand
<1> QED BY <1>1, <1>2, <1>3, <1>4, <1>5 DEF OneOwner

\* A request the thread frees or abandons leaves its hand.
LEMMA OwnerDrop ==
  ASSUME TypeOK, Hands, OneOwner, NEW t \in Threads,
         RejectReq(t) \/ AbandonReq(t)
  PROVE  OneOwner'
<1>1. /\ pc[t] = "ready" /\ pc' = [pc EXCEPT ![t] = "user"]
      /\ treq' = [treq EXCEPT ![t] = NULL]
      /\ UNCHANGED <<queue, inProgress>>
      /\ \/ live' = live \ {treq[t]} /\ leaked' = leaked
         \/ live' = live /\ leaked' = leaked \union {treq[t]}
  BY DEF RejectReq, AbandonReq, ctlVars
<1>2. InHand' = InHand \ {treq[t]} /\ treq[t] \in InHand
  BY <1>1 DEF TypeOK, InHand, OneOwner
<1>3. OnChannel' = OnChannel /\ Queued' = Queued /\ (NoDup(queue))' = NoDup(queue)
  BY <1>1 DEF OnChannel, Queued
<1>4. \A u, v \in Threads : pc'[u] = "ready" /\ pc'[v] = "ready"
                              /\ treq'[u] = treq'[v] => u = v
  BY <1>1 DEF TypeOK, OneOwner
<1> QED BY <1>1, <1>2, <1>3, <1>4 DEF OneOwner

\* start_dma_xfer moves a request from the thread to the channel it took.
LEMMA OwnerStartNow ==
  ASSUME TypeOK, Hands, OneOwner, ChannelsConserved,
         NEW t \in Threads, NEW c \in Ch, StartNow(t, c)
  PROVE  OneOwner'
<1>1. /\ pc[t] = "ready" /\ pc' = [pc EXCEPT ![t] = "kick"]
      /\ inProgress' = [inProgress EXCEPT ![c] = treq[t]]
      /\ UNCHANGED <<queue, live, leaked, treq>>
  BY DEF StartNow, reqVars
<1>2. c \in idle
  BY FirstIdleProperty DEF StartNow, TypeOK, Ch
<1>3. inProgress[c] = NULL /\ treq[t] # NULL
  BY <1>1, <1>2, DmaAssumption DEF ChannelsConserved, Hands
<1>4. InHand' = InHand \ {treq[t]} /\ treq[t] \in InHand
  BY <1>1 DEF TypeOK, InHand, OneOwner
<1>5. OnChannel' = OnChannel \union {treq[t]}
  BY <1>1, <1>3 DEF TypeOK, OnChannel
<1>6. Queued' = Queued /\ (NoDup(queue))' = NoDup(queue)
  BY <1>1 DEF Queued
<1>7. \A u, v \in Threads : pc'[u] = "ready" /\ pc'[v] = "ready"
                              /\ treq'[u] = treq'[v] => u = v
  BY <1>1 DEF TypeOK, OneOwner
<1>8. \A a, b \in Ch : inProgress'[a] = inProgress'[b] /\ inProgress'[a] # NULL
                         => a = b
  BY <1>1, <1>3, <1>4 DEF TypeOK, OneOwner, OnChannel
<1> QED BY <1>1, <1>4, <1>5, <1>6, <1>7, <1>8 DEF OneOwner

\* start_dma_xfer moves a request from the thread to the end of the queue.
LEMMA OwnerStartLater ==
  ASSUME TypeOK, Hands, OneOwner, NEW t \in Threads, StartLater(t)
  PROVE  OneOwner'
<1>1. /\ pc[t] = "ready" /\ pc' = [pc EXCEPT ![t] = "started"]
      /\ treq' = [treq EXCEPT ![t] = NULL]
      /\ queue' = Enqueue(queue, treq[t])
      /\ UNCHANGED <<inProgress, live, leaked>>
  BY DEF StartLater, reqVars
<1>2. InHand' = InHand \ {treq[t]} /\ treq[t] \in InHand
  BY <1>1 DEF TypeOK, InHand, OneOwner
<1>3. treq[t] \in Reqs /\ treq[t] \notin Queued
  BY <1>1, <1>2 DEF Hands, OneOwner
<1>4. Queued' = Queued \union {treq[t]} /\ NoDup(queue')
  BY <1>1, <1>3, EnqueueProperty DEF TypeOK, Queued, OneOwner
<1>5. OnChannel' = OnChannel
  BY <1>1 DEF OnChannel
<1>6. \A u, v \in Threads : pc'[u] = "ready" /\ pc'[v] = "ready"
                              /\ treq'[u] = treq'[v] => u = v
  BY <1>1 DEF TypeOK, OneOwner
<1> QED BY <1>1, <1>2, <1>4, <1>5, <1>6 DEF OneOwner, NoDup

\* dma_done takes the finished request off its channel and frees it.
LEMMA OwnerTakeDone ==
  ASSUME TypeOK, OneOwner, NEW c \in Ch, TakeDone(c)
  PROVE  OneOwner'
<1>1. /\ inProgress[c] # NULL
      /\ inProgress' = [inProgress EXCEPT ![c] = NULL]
      /\ live' = live \ {inProgress[c]}
      /\ UNCHANGED <<queue, leaked, pc, treq>>
  BY DEF TakeDone, thrVars
<1>2. OnChannel' = OnChannel \ {inProgress[c]} /\ inProgress[c] \in OnChannel
  BY <1>1 DEF TypeOK, OnChannel, OneOwner
<1>3. InHand' = InHand /\ Queued' = Queued /\ (NoDup(queue))' = NoDup(queue)
  BY <1>1 DEF InHand, Queued
<1>4. \A a, b \in Ch : inProgress'[a] = inProgress'[b] /\ inProgress'[a] # NULL
                         => a = b
  BY <1>1 DEF TypeOK, OneOwner
<1> QED BY <1>1, <1>2, <1>3, <1>4 DEF OneOwner

\* dma_done moves the oldest waiting request from the queue to its channel.
LEMMA OwnerRefillNext ==
  ASSUME TypeOK, OneOwner, ChannelsConserved, NEW c \in Ch, RefillNext(c)
  PROVE  OneOwner'
<1> DEFINE r == Head(queue)
           q == Dequeue(queue)
<1>1. /\ inProgress' = [inProgress EXCEPT ![c] = r]
      /\ queue' = q
      /\ UNCHANGED <<live, leaked, pc, treq>>
      /\ hpc[c] = "refill"
  BY DEF RefillNext, reqVars, thrVars
<1>2. /\ Queued = Elems(q) \union {r} /\ NoDup(q) /\ r \notin Elems(q)
      /\ r \in Reqs
  BY DequeueProperty DEF RefillNext, TypeOK, OneOwner, Queued
<1>3. Queued' = Elems(q)
  BY <1>1 DEF Queued
<1>4. inProgress[c] = NULL
  BY <1>1 DEF ChannelsConserved
<1> HIDE DEF r, q
<1>5. OnChannel' = OnChannel \union {r}
  BY <1>1, <1>2, <1>4, DmaAssumption DEF TypeOK, OnChannel
<1>6. InHand' = InHand
  BY <1>1 DEF InHand
<1>7. r \notin OnChannel
  BY <1>2 DEF OneOwner
<1>8. \A a, b \in Ch : inProgress'[a] = inProgress'[b] /\ inProgress'[a] # NULL
                         => a = b
  BY <1>1, <1>4, <1>7 DEF TypeOK, OneOwner, OnChannel
<1>9. NoDup(queue')
  BY <1>1, <1>2
<1> QED BY <1>1, <1>2, <1>3, <1>5, <1>6, <1>8, <1>9 DEF OneOwner, NoDup

-------------------------------------------------------------------------------
(* The inductive invariant *)

\* Each part needs the others: ownership needs that an idle channel carries no
\* request, a kick stays valid because a completion needs a running channel,
\* a running channel keeps its request because requests have one owner.
DmaInv ==
    /\ TypeOK /\ Hands
    /\ OneOwner
    /\ ChannelsConserved
    /\ WaitsOnlyWhenBusy
    /\ KickIsOwned
    /\ RunsWhatIsInProgress
    /\ TicketsUnique

\* The inductive invariant holds initially.
LEMMA InvInit == Init => DmaInv
<1> SUFFICES ASSUME Init PROVE DmaInv
  OBVIOUS
<1>1. TypeOK /\ Hands
  BY TypeInit
<1>2. Queued = {} /\ OnChannel = {} /\ InHand = {} /\ NoDup(queue)
  BY DEF Init, Queued, Elems, OnChannel, InHand, NoDup
<1>3. OneOwner
  BY <1>2 DEF Init, OneOwner
<1>4. ChannelsConserved
  BY DEF Init, ChannelsConserved
<1> QED BY <1>1, <1>3, <1>4 DEF DmaInv, Init, WaitsOnlyWhenBusy, KickIsOwned,
           RunsWhatIsInProgress, TicketsUnique

\* Every step conserves the channels, and nobody waits while one is idle.
LEMMA ChannelsNext ==
  ASSUME DmaInv, [Next]_vars
  PROVE  ChannelsConserved' /\ WaitsOnlyWhenBusy'
<1> USE DEF DmaInv, TypeOK, ChannelsConserved, WaitsOnlyWhenBusy
<1>1. ASSUME NEW t \in Threads, NEW c \in Ch, StartNow(t, c)
      PROVE  ChannelsConserved' /\ WaitsOnlyWhenBusy'
  <2>1. c \in idle /\ idle' = idle \ {c}
    BY <1>1, FirstIdleProperty DEF StartNow, TakeIdle, Ch
  <2>2. treq[t] # NULL
    BY <1>1, DmaAssumption DEF StartNow, Hands
  <2>3. queue = <<>>
    BY <2>1
  <2> QED BY <1>1, <2>1, <2>2, <2>3 DEF StartNow, hndVars
<1>2. ASSUME NEW t \in Threads, StartLater(t)
      PROVE  ChannelsConserved' /\ WaitsOnlyWhenBusy'
  BY <1>2, FirstIdleProperty DEF StartLater, hndVars
<1>3. ASSUME NEW t \in Threads,
             AllocReq(t) \/ RejectReq(t) \/ AbandonReq(t) \/ KickOff(t) \/ Return(t)
      PROVE  ChannelsConserved' /\ WaitsOnlyWhenBusy'
  <2>1. UNCHANGED <<queue, idle, inProgress, hpc>>
    BY <1>3 DEF AllocReq, RejectReq, AbandonReq, KickOff, Return, ctlVars, hndVars
  <2> QED BY <2>1
<1>4. ASSUME NEW c \in Ch, HwComplete(c) \/ Spurious(c)
      PROVE  ChannelsConserved' /\ WaitsOnlyWhenBusy'
  BY <1>4 DEF HwComplete, Spurious, ctlVars, hndVars
<1>5. ASSUME NEW c \in Ch, TakeDone(c)
      PROVE  ChannelsConserved' /\ WaitsOnlyWhenBusy'
  BY <1>5 DEF TakeDone
<1>6. ASSUME NEW c \in Ch, RefillNext(c)
      PROVE  ChannelsConserved' /\ WaitsOnlyWhenBusy'
  <2>1. queue # <<>> /\ Head(queue) # NULL
    BY <1>6, DequeueProperty, DmaAssumption DEF RefillNext, HasWaiter
  <2> QED BY <1>6, <2>1 DEF RefillNext
<1>7. ASSUME NEW c \in Ch, RefillNone(c)
      PROVE  ChannelsConserved' /\ WaitsOnlyWhenBusy'
  BY <1>7 DEF RefillNone, HasWaiter, FreeChan
<1>8. ASSUME NEW c \in Ch, KickNext(c) \/ CreateEvent(c)
      PROVE  ChannelsConserved' /\ WaitsOnlyWhenBusy'
  BY <1>8 DEF KickNext, CreateEvent, ctlVars
<1>9. CASE UNCHANGED vars
  BY <1>9 DEF vars
<1> QED BY <1>1, <1>2, <1>3, <1>4, <1>5, <1>6, <1>7, <1>8, <1>9
        DEF Next, ThreadStep, ChannelStep, StartXfer

\* Every step keeps exactly one owner per request.
LEMMA OwnerNext ==
  ASSUME DmaInv, [Next]_vars
  PROVE  OneOwner'
<1> USE DEF DmaInv
<1>1. ASSUME NEW t \in Threads, KickOff(t) \/ Return(t) PROVE OneOwner'
  <2>1. UNCHANGED <<queue, inProgress, live, leaked>>
    BY <1>1 DEF KickOff, Return, ctlVars, reqVars
  <2>2. \A u \in Threads :
          /\ (pc'[u] = "ready") <=> (pc[u] = "ready")
          /\ pc[u] = "ready" => treq'[u] = treq[u]
    BY <1>1 DEF KickOff, Return, TypeOK
  <2>3. InHand' = InHand
    BY <2>2 DEF InHand
  <2>4. OnChannel' = OnChannel /\ Queued' = Queued /\ (NoDup(queue))' = NoDup(queue)
    BY <2>1 DEF OnChannel, Queued
  <2>5. \A u, v \in Threads : pc'[u] = "ready" /\ pc'[v] = "ready"
                                /\ treq'[u] = treq'[v] => u = v
    BY <2>2 DEF OneOwner
  <2> QED BY <2>1, <2>3, <2>4, <2>5 DEF OneOwner
<1>2. ASSUME UNCHANGED <<queue, inProgress, live, leaked, pc, treq>>
      PROVE  OneOwner'
  BY <1>2 DEF OneOwner, Queued, OnChannel, InHand
<1>3. ASSUME NEW c \in Ch,
             HwComplete(c) \/ Spurious(c) \/ RefillNone(c) \/ KickNext(c)
             \/ CreateEvent(c)
      PROVE  OneOwner'
  BY <1>2, <1>3 DEF HwComplete, Spurious, RefillNone, KickNext, CreateEvent,
        ctlVars, reqVars, thrVars
<1>4. CASE UNCHANGED vars
  BY <1>2, <1>4 DEF vars
<1> QED BY <1>1, <1>3, <1>4, OwnerAlloc, OwnerDrop, OwnerStartNow,
           OwnerStartLater, OwnerTakeDone, OwnerRefillNext
        DEF Next, ThreadStep, ChannelStep, StartXfer

\* Every step leaves whoever is about to program a channel, and whatever the
\* FPGA runs on it, in agreement with in_progress.
LEMMA KicksNext ==
  ASSUME DmaInv, [Next]_vars
  PROVE  KickIsOwned' /\ RunsWhatIsInProgress'
<1> DEFINE G == KickIsOwned' /\ RunsWhatIsInProgress'
<1> USE DEF DmaInv, TypeOK, KickIsOwned, RunsWhatIsInProgress
<1>1. ASSUME NEW t \in Threads, AllocReq(t) PROVE G
  BY <1>1 DEF AllocReq, ctlVars, hndVars, hwVars
<1>2. ASSUME NEW t \in Threads, RejectReq(t) \/ AbandonReq(t) PROVE G
  <2>1. /\ pc[t] = "ready" /\ pc' = [pc EXCEPT ![t] = "user"]
        /\ treq' = [treq EXCEPT ![t] = NULL]
        /\ live' = live \ {treq[t]} \/ live' = live
        /\ UNCHANGED <<inProgress, reqTicket, tch, hpc, hreq, hw, hwTicket>>
    BY <1>2 DEF RejectReq, AbandonReq, ctlVars, hndVars, hwVars
  <2>2. \A c \in Ch : inProgress[c] # NULL => inProgress[c] # treq[t]
    <3>1. treq[t] \in InHand
      BY <2>1 DEF InHand
    <3>2. \A c \in Ch : inProgress[c] # NULL => inProgress[c] \in OnChannel
      BY DEF OnChannel
    <3> QED BY <3>1, <3>2 DEF OneOwner
  <2>3. \A c \in Ch : inProgress[c] \in live => inProgress[c] \in live'
    BY <2>1, <2>2, DmaAssumption
  <2> QED BY <2>1, <2>3
<1>3. ASSUME NEW t \in Threads, NEW c \in Ch, StartNow(t, c) PROVE G
  <2>1. c \in idle
    BY <1>3, FirstIdleProperty DEF StartNow, Ch
  <2>2. c \notin BusyAtProbe /\ inProgress[c] = NULL /\ hpc[c] # "refill"
    BY <2>1 DEF ChannelsConserved
  <2>3. hw[c] = "stopped" /\ hpc[c] # "kick"
    BY <2>2, DmaAssumption DEF Hands
  <2>4. treq[t] \in live /\ treq[t] # NULL
    BY <1>3, DmaAssumption DEF StartNow, OneOwner, InHand, Hands
  <2>5. \A u \in Threads : pc[u] = "kick" => tch[u] # c
    BY <2>2, DmaAssumption
  <2>6. /\ pc[t] = "ready" /\ pc' = [pc EXCEPT ![t] = "kick"]
        /\ tch' = [tch EXCEPT ![t] = c]
        /\ inProgress' = [inProgress EXCEPT ![c] = treq[t]]
        /\ UNCHANGED <<live, reqTicket, treq, hpc, hreq, hw, hwTicket>>
    BY <1>3 DEF StartNow, reqVars, hndVars, hwVars
  <2> QED BY <2>2, <2>3, <2>4, <2>5, <2>6
<1>4. ASSUME NEW t \in Threads, StartLater(t) PROVE G
  BY <1>4 DEF StartLater, reqVars, hndVars, hwVars
<1>5. ASSUME NEW t \in Threads, KickOff(t) PROVE G
  BY <1>5 DEF KickOff, ChanStart, ctlVars, reqVars, hndVars
<1>6. ASSUME NEW t \in Threads, Return(t) PROVE G
  BY <1>6 DEF Return, ctlVars, reqVars, hndVars, hwVars
<1>7. ASSUME NEW c \in Ch, HwComplete(c) PROVE G
  BY <1>7 DEF HwComplete, ctlVars, reqVars, thrVars, hndVars
<1>8. ASSUME NEW c \in Ch, Spurious(c) PROVE G
  BY <1>8 DEF Spurious, ctlVars, reqVars, thrVars, hndVars
<1>9. ASSUME NEW c \in Ch, TakeDone(c) PROVE G
  <2>1. /\ hw[c] = "msi" /\ inProgress[c] # NULL
        /\ hw' = [hw EXCEPT ![c] = "stopped"]
        /\ inProgress' = [inProgress EXCEPT ![c] = NULL]
        /\ live' = live \ {inProgress[c]}
        /\ hpc' = [hpc EXCEPT ![c] = "refill"]
        /\ UNCHANGED <<reqTicket, pc, treq, tch, hreq, hwTicket>>
    BY <1>9 DEF TakeDone, thrVars
  <2>2. \A d \in Ch \ {c} : inProgress[d] \in live => inProgress[d] \in live'
    BY <2>1, DmaAssumption DEF OneOwner
  <2> QED BY <2>1, <2>2
<1>10. ASSUME NEW c \in Ch, RefillNext(c) PROVE G
  <2> DEFINE r == Head(queue)
  <2>1. /\ hpc[c] = "refill"
        /\ hreq' = [hreq EXCEPT ![c] = r]
        /\ inProgress' = [inProgress EXCEPT ![c] = r]
        /\ hpc' = [hpc EXCEPT ![c] = "kick"]
        /\ UNCHANGED <<live, reqTicket, pc, treq, tch, hw, hwTicket>>
    BY <1>10 DEF RefillNext, reqVars, thrVars, hwVars
  <2>2. r \in live
    BY <1>10, DequeueProperty DEF RefillNext, OneOwner, Queued
  <2> HIDE DEF r
  <2>3. c \notin BusyAtProbe /\ inProgress[c] = NULL
    BY <2>1 DEF ChannelsConserved
  <2>4. hw[c] = "stopped" /\ \A u \in Threads : pc[u] = "kick" => tch[u] # c
    BY <2>3, DmaAssumption
  <2> QED BY <2>1, <2>2, <2>3, <2>4
<1>11. ASSUME NEW c \in Ch, RefillNone(c) PROVE G
  BY <1>11 DEF RefillNone, reqVars, thrVars, hwVars
<1>12. ASSUME NEW c \in Ch, KickNext(c) PROVE G
  BY <1>12 DEF KickNext, ChanStart, ctlVars, reqVars, thrVars
<1>13. ASSUME NEW c \in Ch, CreateEvent(c) PROVE G
  BY <1>13 DEF CreateEvent, ctlVars, reqVars, thrVars, hwVars
<1>14. CASE UNCHANGED vars
  BY <1>14 DEF vars
<1> QED BY <1>1, <1>2, <1>3, <1>4, <1>5, <1>6, <1>7, <1>8, <1>9, <1>10, <1>11,
           <1>12, <1>13, <1>14
        DEF Next, ThreadStep, ChannelStep, StartXfer

\* Every step keeps the tickets apart.
LEMMA TicketsNext ==
  ASSUME DmaInv, [Next]_vars
  PROVE  TicketsUnique'
<1> USE DEF DmaInv, TypeOK, TicketsUnique
<1>1. ASSUME NEW t \in Threads, AllocReq(t) PROVE TicketsUnique'
  <2>0. GetTicket(ticket) = ticket + 1
    BY <1>1, DmaAssumption DEF AllocReq, GetTicket
  <2>1. PICK r \in Reqs \ live :
          /\ live' = live \union {r}
          /\ reqTicket' = [reqTicket EXCEPT ![r] = ticket + 1]
          /\ ticket' = ticket + 1
          /\ UNCHANGED <<hpc, htick, announced>>
    BY <1>1, <2>0 DEF AllocReq, hndVars
  <2>2. \A k \in 1..ticket : k \in 1..ticket' /\ k # ticket + 1
    BY <2>1
  <2>3. ticket + 1 \in 1..ticket' /\ ticket + 1 \notin announced
    BY <2>1
  <2> QED BY <2>1, <2>2, <2>3
<1>2. ASSUME NEW t \in Threads, RejectReq(t) PROVE TicketsUnique'
  BY <1>2 DEF RejectReq, hndVars
<1>3. ASSUME NEW c \in Ch, TakeDone(c) PROVE TicketsUnique'
  <2> DEFINE r == inProgress[c]
  <2>1. /\ hpc[c] = "off"
        /\ htick' = [htick EXCEPT ![c] = reqTicket[r]]
        /\ live' = live \ {r}
        /\ hpc' = [hpc EXCEPT ![c] = "refill"]
        /\ UNCHANGED <<reqTicket, ticket, announced>>
    BY <1>3 DEF TakeDone
  <2>2. r \in live
    BY <1>3 DEF TakeDone, OneOwner, OnChannel
  <2> HIDE DEF r
  <2> QED BY <2>1, <2>2
<1>4. ASSUME NEW c \in Ch, CreateEvent(c) PROVE TicketsUnique'
  <2>1. /\ hpc[c] = "event"
        /\ announced' = announced \union {htick[c]}
        /\ htick' = [htick EXCEPT ![c] = 0]
        /\ hpc' = [hpc EXCEPT ![c] = "off"]
        /\ UNCHANGED <<live, reqTicket, ticket>>
    BY <1>4 DEF CreateEvent, reqVars
  <2> QED BY <2>1
<1>5. ASSUME UNCHANGED <<live, reqTicket, ticket, announced, htick>>,
             \A c \in Ch : (hpc'[c] = "off") <=> (hpc[c] = "off")
      PROVE  TicketsUnique'
  BY <1>5
<1>6. ASSUME NEW t \in Threads,
             AbandonReq(t) \/ StartXfer(t) \/ KickOff(t) \/ Return(t)
      PROVE  TicketsUnique'
  <2>1. UNCHANGED <<live, reqTicket, ticket, announced, htick, hpc>>
    BY <1>6 DEF AbandonReq, StartXfer, StartNow, StartLater, KickOff, Return,
                reqVars, hndVars
  <2> QED BY <1>5, <2>1
<1>7. ASSUME NEW c \in Ch,
             HwComplete(c) \/ Spurious(c) \/ RefillNext(c) \/ RefillNone(c)
             \/ KickNext(c)
      PROVE  TicketsUnique'
  <2>1. UNCHANGED <<live, reqTicket, ticket, announced, htick>>
    BY <1>7 DEF HwComplete, Spurious, RefillNext, RefillNone, KickNext,
                reqVars, hndVars
  <2>2. \A d \in Ch : (hpc'[d] = "off") <=> (hpc[d] = "off")
    BY <1>7 DEF HwComplete, Spurious, RefillNext, RefillNone, KickNext,
                hndVars, HPCs
  <2> QED BY <1>5, <2>1, <2>2
<1>8. CASE UNCHANGED vars
  BY <1>5, <1>8 DEF vars
<1> QED BY <1>1, <1>2, <1>3, <1>4, <1>6, <1>7, <1>8
        DEF Next, ThreadStep, ChannelStep

\* The engine's safety: one owner per request, no channel lost or given out
\* twice, nobody waits while a channel is idle, a channel is programmed only by
\* its owner, and completions belong to the transfer that ran.
THEOREM EngineSafe ==
    Spec => [](/\ OneOwner /\ ChannelsConserved /\ WaitsOnlyWhenBusy
               /\ KickIsOwned /\ RunsWhatIsInProgress /\ TicketsUnique)
<1>1. DmaInv /\ [Next]_vars => DmaInv'
  BY TypeNext, OwnerNext, ChannelsNext, KicksNext, TicketsNext DEF DmaInv
<1>2. Spec => []DmaInv
  BY <1>1, InvInit, PTL DEF Spec
<1>3. DmaInv => /\ OneOwner /\ ChannelsConserved /\ WaitsOnlyWhenBusy
                /\ KickIsOwned /\ RunsWhatIsInProgress /\ TicketsUnique
  BY DEF DmaInv
<1> QED BY <1>2, <1>3, PTL

\* __find_1st_idle_chan and __free_chan: however start_dma_xfer and dma_done
\* interleave, a channel is idle, carries a request, or is in the hands of its
\* interrupt handler, and only one of these: no channel is lost or given out twice.
THEOREM NoChannelLost == Spec => []ChannelsConserved
BY EngineSafe, PTL

\* start_dma_xfer queues and dma_done refills under the same lock: a request never
\* waits in the queue while nobody is going to look at it.
THEOREM NobodyWaitsInVain == Spec => []WaitsOnlyWhenBusy
BY EngineSafe, PTL

\* kick_off_xfer runs without the lock, and yet only programs a channel that still
\* belongs to its request.
THEOREM KickOffSafe == Spec => []KickIsOwned
BY EngineSafe, PTL

\* What dma_done completes is what the FPGA ran: a running channel works for the
\* request the controller has noted for it.
THEOREM CompletesWhatRan == Spec => []RunsWhatIsInProgress
BY EngineSafe, PTL

\* A transfer's DMA_DONE event is created at most once.
THEOREM EventOnce == Spec => DoneOnce
<1>1. TicketsUnique /\ [Next]_vars =>
        [\A c \in Ch : hpc[c] = "event" /\ hpc'[c] = "off" =>
           htick[c] \in 1..ticket /\ htick[c] \notin announced]_vars
  BY DEF TicketsUnique
<1> QED BY <1>1, EngineSafe, PTL DEF Spec, DoneOnce

-------------------------------------------------------------------------------
(* The engine implements DmaService, step by step *)

\* What the service's variables stand for: pending, running, finished.
Pend == [i \in 1..Len(queue) |-> reqTicket[queue[i]]]
Run  == {reqTicket[r] : r \in OnChannel}
Fin  == announced \union {htick[c] : c \in {d \in Ch : hpc[d] # "off"}}

\* The counter of get_ticket stays within the bound.
TicketBound == ticket \in 0..MaxTicket

\* Membership in the three, spelled out.
LEMMA Members ==
  ASSUME TypeOK
  PROVE  /\ \A k : k \in Run <=>
                \E c \in Ch : inProgress[c] # NULL /\ k = reqTicket[inProgress[c]]
         /\ \A k : k \in Fin <=>
                k \in announced \/ \E c \in Ch : hpc[c] # "off" /\ k = htick[c]
         /\ Len(queue) \in Nat
         /\ Pend \in Seq(Nat) /\ Len(Pend) = Len(queue)
         /\ \A i \in 1..Len(queue) : queue[i] \in Reqs /\ Pend[i] = reqTicket[queue[i]]
         /\ Pend = <<>> <=> queue = <<>>
<1>1. Len(queue) \in Nat /\ \A i \in 1..Len(queue) : queue[i] \in Reqs
  BY DEF TypeOK
<1>2. \A i \in 1..Len(queue) : reqTicket[queue[i]] \in Nat
  BY <1>1 DEF TypeOK
<1>3. Pend \in Seq(Nat) /\ Len(Pend) = Len(queue)
  BY <1>1, <1>2, IsASeq DEF Pend
<1>4. \A i \in 1..Len(queue) : Pend[i] = reqTicket[queue[i]]
  BY DEF Pend
<1>5. Pend = <<>> <=> queue = <<>>
  BY <1>1, <1>3, EmptySeq DEF TypeOK
<1> QED BY <1>1, <1>3, <1>4, <1>5 DEF Run, Fin, OnChannel

\* The same, after a step.
LEMMA MembersNext ==
  ASSUME TypeOK'
  PROVE  /\ \A k : k \in Run' <=>
                \E c \in Ch : inProgress'[c] # NULL /\ k = reqTicket'[inProgress'[c]]
         /\ \A k : k \in Fin' <=>
                k \in announced' \/ \E c \in Ch : hpc'[c] # "off" /\ k = htick'[c]
         /\ Len(queue') \in Nat
         /\ Pend' \in Seq(Nat) /\ Len(Pend') = Len(queue')
         /\ \A i \in 1..Len(queue') :
              queue'[i] \in Reqs /\ Pend'[i] = reqTicket'[queue'[i]]
<1>1. Len(queue') \in Nat /\ \A i \in 1..Len(queue') : queue'[i] \in Reqs
  BY DEF TypeOK
<1>2. \A i \in 1..Len(queue') : reqTicket'[queue'[i]] \in Nat
  BY <1>1 DEF TypeOK
<1>3. Pend' \in Seq(Nat) /\ Len(Pend') = Len(queue')
  BY <1>1, <1>2, IsASeq DEF Pend
<1>4. \A i \in 1..Len(queue') : Pend'[i] = reqTicket'[queue'[i]]
  BY DEF Pend
<1> QED BY <1>1, <1>3, <1>4 DEF Run, Fin, OnChannel

\* While a usable channel carries no request, fewer transfers run than the FPGA
\* has channels for.
LEMMA ChannelLeft ==
  ASSUME TypeOK, ChannelsConserved, NEW c \in Ch \ BusyAtProbe, inProgress[c] = NULL
  PROVE  Cardinality(Run) < Cardinality(Ch \ BusyAtProbe)
<1> DEFINE Usable == Ch \ BusyAtProbe
           Used   == {d \in Ch : inProgress[d] # NULL}
           f      == [d \in Used |-> reqTicket[inProgress[d]]]
<1>1. IsFiniteSet(Ch)
  BY DmaAssumption, FS_Interval DEF Ch
<1>2. IsFiniteSet(Usable)
  BY <1>1, FS_Subset
<1>3. /\ IsFiniteSet(Usable \ {c})
      /\ Cardinality(Usable \ {c}) = Cardinality(Usable) - 1
  BY <1>2, FS_RemoveElement
<1>4. Used \subseteq Usable \ {c}
  BY DEF ChannelsConserved
<1>5. IsFiniteSet(Used) /\ Cardinality(Used) <= Cardinality(Usable \ {c})
  BY <1>3, <1>4, FS_Subset
<1>6. f \in Surjection(Used, Run)
  <2>1. \A d \in Used : f[d] \in Run
    BY Members
  <2>2. \A k \in Run : \E d \in Used : f[d] = k
    BY Members
  <2> QED BY <2>1, <2>2 DEF Surjection
<1>7. IsFiniteSet(Run) /\ Cardinality(Run) <= Cardinality(Used)
  BY <1>5, <1>6, FS_Surjection
<1>8. /\ Cardinality(Run) \in Nat /\ Cardinality(Used) \in Nat
      /\ Cardinality(Usable) \in Nat
  BY <1>2, <1>5, <1>7, FS_CardinalityType
<1> QED BY <1>3, <1>5, <1>7, <1>8

\* The tickets the service knows are those of requests that were submitted, and
\* those taken off a channel: never that of another live request.
LEMMA TicketIsNew ==
  ASSUME TypeOK, OneOwner, TicketsUnique, TicketBound, NEW r \in InHand
  PROVE  /\ reqTicket[r] \in Tickets
         /\ reqTicket[r] \notin {Pend[i] : i \in 1..Len(Pend)} \union Run \union Fin
<1>1. r \in live /\ r \notin Queued /\ r \notin OnChannel
  BY DEF OneOwner
<1>2. reqTicket[r] \in 1..ticket
  BY <1>1 DEF TicketsUnique
<1>3. reqTicket[r] \in Tickets
  BY <1>2, DmaAssumption DEF TicketBound, Tickets, TypeOK
<1>4. ASSUME NEW i \in 1..Len(Pend) PROVE Pend[i] # reqTicket[r]
  <2>1. i \in 1..Len(queue) /\ Pend[i] = reqTicket[queue[i]]
    BY Members
  <2>2. queue[i] \in Queued
    BY <2>1 DEF Queued, Elems
  <2>3. queue[i] \in live /\ queue[i] # r
    BY <1>1, <2>2 DEF OneOwner
  <2> QED BY <1>1, <2>1, <2>3 DEF TicketsUnique
<1>5. reqTicket[r] \notin Run
  <2> SUFFICES ASSUME NEW c \in Ch, inProgress[c] # NULL
               PROVE  reqTicket[inProgress[c]] # reqTicket[r]
    BY Members
  <2>1. inProgress[c] \in OnChannel
    BY DEF OnChannel
  <2>2. inProgress[c] \in live /\ inProgress[c] # r
    BY <1>1, <2>1 DEF OneOwner
  <2> QED BY <1>1, <2>2 DEF TicketsUnique
<1>6. reqTicket[r] \notin Fin
  <2>1. reqTicket[r] \notin announced
    BY <1>1 DEF TicketsUnique
  <2>2. \A c \in Ch : hpc[c] # "off" => htick[c] # reqTicket[r]
    BY <1>1 DEF TicketsUnique
  <2> QED BY <2>1, <2>2, Members
<1> QED BY <1>3, <1>4, <1>5, <1>6

\* The service counts as FiniteSets does.
LEMMA SameCardinality ==
  ASSUME NEW S
  PROVE  Service!Cardinality(S) = Cardinality(S)
BY DEF Service!Cardinality, Cardinality

\* Submit, SubmitAndStart and Finish of the service, in terms of Pend, Run and Fin.
LEMMA ServiceActions ==
  ASSUME NEW k \in Tickets
  PROVE  /\ k \notin {Pend[i] : i \in 1..Len(Pend)} \union Run \union Fin
            /\ Pend' = Append(Pend, k) /\ Run' = Run /\ Fin' = Fin
            => Service!SNext
         /\ k \notin {Pend[i] : i \in 1..Len(Pend)} \union Run \union Fin
            /\ Pend = <<>> /\ Cardinality(Run) < Cardinality(Ch \ BusyAtProbe)
            /\ Pend' = Pend /\ Run' = Run \union {k} /\ Fin' = Fin
            => Service!SNext
         /\ k \in Run
            /\ Pend' = Pend /\ Run' = Run \ {k} /\ Fin' = Fin \union {k}
            => Service!SNext
<1>1. k \notin {Pend[i] : i \in 1..Len(Pend)} \union Run \union Fin
      /\ Pend' = Append(Pend, k) /\ Run' = Run /\ Fin' = Fin
      => Service!Submit(k)
  BY DEF Service!Submit, Service!Known, Service!Pending, Pend, Run, Fin
<1>2. k \notin {Pend[i] : i \in 1..Len(Pend)} \union Run \union Fin
      /\ Pend = <<>> /\ Cardinality(Run) < Cardinality(Ch \ BusyAtProbe)
      /\ Pend' = Pend /\ Run' = Run \union {k} /\ Fin' = Fin
      => Service!SubmitAndStart(k)
  <2>1. Service!Cardinality(Run) = Cardinality(Run)
    BY SameCardinality
  <2> QED BY <2>1 DEF Service!SubmitAndStart, Service!Known, Service!Pending,
                      Pend, Run, Fin
<1>3. k \in Run /\ Pend' = Pend /\ Run' = Run \ {k} /\ Fin' = Fin \union {k}
      => Service!Finish(k)
  BY DEF Service!Finish, Pend, Run, Fin
<1> QED BY <1>1, <1>2, <1>3 DEF Service!SNext

\* StartNext: the oldest pending transfer starts.
LEMMA ServiceStarts ==
  Pend # <<>> /\ Cardinality(Run) < Cardinality(Ch \ BusyAtProbe)
  /\ Run' = Run \union {Head(Pend)} /\ Pend' = Tail(Pend) /\ Fin' = Fin
  => Service!SNext
<1>1. Service!Cardinality(Run) = Cardinality(Run)
  BY SameCardinality
<1> QED BY <1>1 DEF Service!SNext, Service!StartNext, Pend, Run, Fin

\* A step that changes none of the three is invisible to the service.
LEMMA ServiceStutters ==
  Pend' = Pend /\ Run' = Run /\ Fin' = Fin => UNCHANGED Service!svars
BY DEF Service!svars, Pend, Run, Fin

\* start_dma_xfer finds an idle channel: the transfer is submitted and starts.
LEMMA StartNowServed ==
  ASSUME DmaInv, TicketBound, TypeOK', NEW t \in Threads, NEW c \in Ch, StartNow(t, c)
  PROVE  Service!SNext
<1> DEFINE r == treq[t]
           k == reqTicket[r]
<1>1. /\ r \in InHand /\ r \in Reqs /\ r # NULL
      /\ c \in idle
      /\ inProgress' = [inProgress EXCEPT ![c] = r]
      /\ UNCHANGED <<queue, reqTicket, hpc, htick, announced>>
  <2>1. c \in idle
    BY FirstIdleProperty, DmaAssumption DEF StartNow, DmaInv, TypeOK, Ch
  <2> QED BY <2>1, DmaAssumption DEF StartNow, InHand, DmaInv, Hands, reqVars, hndVars
<1>2. c \notin BusyAtProbe /\ inProgress[c] = NULL /\ queue = <<>>
  BY <1>1 DEF DmaInv, ChannelsConserved, WaitsOnlyWhenBusy
<1>3. Cardinality(Run) < Cardinality(Ch \ BusyAtProbe)
  BY <1>2, ChannelLeft DEF DmaInv
<1>4. k \in Tickets /\ k \notin {Pend[i] : i \in 1..Len(Pend)} \union Run \union Fin
  BY <1>1, TicketIsNew DEF DmaInv
<1>5. Pend = <<>> /\ Pend' = Pend /\ Fin' = Fin
  BY <1>1, <1>2, Members DEF Pend, Fin, DmaInv
<1>6. Run' = Run \union {k}
  <2>1. \A x : x \in Run <=> \E d \in Ch : inProgress[d] # NULL /\ x = reqTicket[inProgress[d]]
    BY Members DEF DmaInv
  <2>2. \A x : x \in Run' <=> \E d \in Ch : inProgress'[d] # NULL /\ x = reqTicket[inProgress'[d]]
    BY <1>1, MembersNext
  <2>3. \A d \in Ch : inProgress'[d] = IF d = c THEN r ELSE inProgress[d]
    BY <1>1 DEF DmaInv, TypeOK
  <2> HIDE DEF r
  <2> QED BY <1>1, <1>2, <2>1, <2>2, <2>3
<1> HIDE DEF k, r
<1> QED BY <1>3, <1>4, <1>5, <1>6, ServiceActions

\* start_dma_xfer finds none: the transfer is submitted.
LEMMA StartLaterServed ==
  ASSUME DmaInv, TicketBound, TypeOK', NEW t \in Threads, StartLater(t)
  PROVE  Service!SNext
<1> DEFINE r == treq[t]
           k == reqTicket[r]
<1>1. /\ r \in InHand /\ r \in Reqs /\ queue' = Append(queue, r)
      /\ UNCHANGED <<inProgress, reqTicket, hpc, htick, announced>>
  BY DEF StartLater, Enqueue, InHand, DmaInv, Hands, reqVars, hndVars
<1>2. k \in Tickets /\ k \notin {Pend[i] : i \in 1..Len(Pend)} \union Run \union Fin
  BY <1>1, TicketIsNew DEF DmaInv
<1>3. Run' = Run /\ Fin' = Fin
  BY <1>1 DEF Run, Fin, OnChannel
<1>4. Pend' = Append(Pend, k)
  <2>1. k \in Nat /\ queue \in Seq(Reqs)
    BY <1>1 DEF DmaInv, TypeOK
  <2>2. /\ Len(queue') = Len(queue) + 1 /\ Len(queue) \in Nat
        /\ \A i \in 1..Len(queue) : queue'[i] = queue[i]
        /\ queue'[Len(queue) + 1] = r
    BY <1>1, <2>1, AppendProperties
  <2>3. /\ Pend \in Seq(Nat) /\ Len(Pend) = Len(queue)
        /\ \A i \in 1..Len(queue) : Pend[i] = reqTicket[queue[i]]
    BY Members DEF DmaInv
  <2>4. /\ Pend' \in Seq(Nat) /\ Len(Pend') = Len(queue')
        /\ \A i \in 1..Len(queue') : Pend'[i] = reqTicket[queue'[i]]
    BY <1>1, MembersNext
  <2>5. /\ Append(Pend, k) \in Seq(Nat)
        /\ Len(Append(Pend, k)) = Len(queue) + 1
        /\ \A i \in 1..Len(queue) : Append(Pend, k)[i] = Pend[i]
        /\ Append(Pend, k)[Len(queue) + 1] = k
    <3> HIDE DEF k
    <3> QED BY <2>1, <2>3, AppendProperties
  <2>6. \A i \in 1..Len(Pend') : Pend'[i] = Append(Pend, k)[i]
    <3>1. TAKE i \in 1..Len(Pend')
    <3>2. i \in 1..Len(queue') /\ (i = Len(queue) + 1 \/ i \in 1..Len(queue))
      BY <2>2, <2>4
    <3>3. CASE i = Len(queue) + 1
      BY <3>2, <3>3, <2>2, <2>4, <2>5
    <3>4. CASE i \in 1..Len(queue)
      BY <3>2, <3>4, <2>2, <2>3, <2>4, <2>5
    <3> QED BY <3>2, <3>3, <3>4
  <2> QED BY <2>2, <2>4, <2>5, <2>6, SeqEqual
<1> HIDE DEF k, r
<1> QED BY <1>2, <1>3, <1>4, ServiceActions

\* dma_done takes the request off its channel: the transfer is finished.
LEMMA TakeDoneServed ==
  ASSUME DmaInv, TicketBound, TypeOK', NEW c \in Ch, TakeDone(c)
  PROVE  Service!SNext
<1> DEFINE r == inProgress[c]
           k == reqTicket[r]
<1>1. /\ r # NULL /\ hpc[c] = "off"
      /\ inProgress' = [inProgress EXCEPT ![c] = NULL]
      /\ htick' = [htick EXCEPT ![c] = k]
      /\ hpc' = [hpc EXCEPT ![c] = "refill"]
      /\ UNCHANGED <<queue, reqTicket, announced, ticket>>
  BY DEF TakeDone
<1>2. \A d \in Ch : inProgress[d] # NULL => inProgress[d] \in live
  BY DEF DmaInv, OneOwner, OnChannel
<1>3. k \in Run /\ k \in Tickets
  <2>1. k \in Run
    BY <1>1, Members DEF DmaInv
  <2>2. k \in 1..ticket
    BY <1>1, <1>2 DEF DmaInv, TicketsUnique
  <2> QED BY <2>1, <2>2, DmaAssumption DEF TicketBound, Tickets
<1>4. \A d \in Ch \ {c} : inProgress[d] # NULL => reqTicket[inProgress[d]] # k
  BY <1>1, <1>2 DEF DmaInv, TicketsUnique, OneOwner
<1>5. \A d \in Ch : /\ inProgress'[d] = IF d = c THEN NULL ELSE inProgress[d]
                    /\ htick'[d] = IF d = c THEN k ELSE htick[d]
                    /\ hpc'[d] = IF d = c THEN "refill" ELSE hpc[d]
  BY <1>1 DEF DmaInv, TypeOK
<1>6. Pend' = Pend
  BY <1>1 DEF Pend
<1>7. Run' = Run \ {k}
  <2>1. \A x : x \in Run <=> \E d \in Ch : inProgress[d] # NULL /\ x = reqTicket[inProgress[d]]
    BY Members DEF DmaInv
  <2>2. \A x : x \in Run' <=> \E d \in Ch : inProgress'[d] # NULL /\ x = reqTicket[inProgress'[d]]
    BY <1>1, MembersNext
  <2> HIDE DEF k
  <2>3. \A x : x \in Run' => x \in Run /\ x # k
    BY <1>4, <1>5, <2>1, <2>2
  <2>4. \A x : x \in Run /\ x # k => x \in Run'
    BY <1>5, <2>1, <2>2 DEF k
  <2> QED BY <2>3, <2>4
<1>8. Fin' = Fin \union {k}
  <2>1. \A x : x \in Fin <=> x \in announced \/ \E d \in Ch : hpc[d] # "off" /\ x = htick[d]
    BY Members DEF DmaInv
  <2>2. \A x : x \in Fin' <=> x \in announced \/ \E d \in Ch : hpc'[d] # "off" /\ x = htick'[d]
    BY <1>1, MembersNext
  <2> HIDE DEF k
  <2> QED BY <1>1, <1>5, <2>1, <2>2
<1> HIDE DEF k, r
<1> QED BY <1>3, <1>6, <1>7, <1>8, ServiceActions

\* dma_done refills the channel: the oldest pending transfer starts.
LEMMA RefillNextServed ==
  ASSUME DmaInv, TypeOK', NEW c \in Ch, RefillNext(c)
  PROVE  Service!SNext
<1> DEFINE r == Head(queue)
<1>1. /\ hpc[c] = "refill" /\ queue # <<>> /\ queue' = Tail(queue)
      /\ inProgress' = [inProgress EXCEPT ![c] = r]
      /\ hpc' = [hpc EXCEPT ![c] = "kick"]
      /\ UNCHANGED <<reqTicket, htick, announced>>
  BY DEF RefillNext, HasWaiter, Dequeue, reqVars
<1>2. c \notin BusyAtProbe /\ inProgress[c] = NULL
  BY <1>1 DEF DmaInv, ChannelsConserved
<1>3. Cardinality(Run) < Cardinality(Ch \ BusyAtProbe)
  BY <1>2, ChannelLeft DEF DmaInv
<1>4. /\ r \in Reqs /\ r = queue[1] /\ Len(queue) \in Nat \ {0}
      /\ Tail(queue) \in Seq(Reqs) /\ Len(Tail(queue)) = Len(queue) - 1
      /\ \A i \in 1..Len(Tail(queue)) : Tail(queue)[i] = queue[i + 1]
  BY <1>1, HeadTailProperties, EmptySeq DEF DmaInv, TypeOK
<1>5. /\ Pend \in Seq(Nat) /\ Len(Pend) = Len(queue) /\ Pend # <<>>
      /\ \A i \in 1..Len(queue) : Pend[i] = reqTicket[queue[i]]
  BY <1>1, Members DEF DmaInv
<1>6. /\ Head(Pend) = Pend[1] /\ Tail(Pend) \in Seq(Nat)
      /\ Len(Tail(Pend)) = Len(queue) - 1
      /\ \A i \in 1..Len(Tail(Pend)) : Tail(Pend)[i] = Pend[i + 1]
  BY <1>5, HeadTailProperties
<1>7. Head(Pend) = reqTicket[r]
  BY <1>4, <1>5, <1>6
<1>8. Pend' = Tail(Pend)
  <2>1. /\ Pend' \in Seq(Nat) /\ Len(Pend') = Len(queue')
        /\ \A i \in 1..Len(queue') : Pend'[i] = reqTicket[queue'[i]]
    BY <1>1, MembersNext
  <2>2. \A i \in 1..Len(Pend') : Pend'[i] = Tail(Pend)[i]
    <3>1. TAKE i \in 1..Len(Pend')
    <3>2. i \in 1..Len(queue') /\ i \in 1..Len(Tail(queue)) /\ i \in 1..Len(Tail(Pend))
          /\ i + 1 \in 1..Len(queue)
      BY <1>1, <1>4, <1>6, <2>1
    <3>3. Pend'[i] = reqTicket[queue[i + 1]]
      BY <1>1, <1>4, <2>1, <3>2
    <3> QED BY <1>5, <1>6, <3>2, <3>3
  <2> QED BY <1>1, <1>4, <1>6, <2>1, <2>2, SeqEqual
<1>9. Run' = Run \union {reqTicket[r]}
  <2>1. \A x : x \in Run <=> \E d \in Ch : inProgress[d] # NULL /\ x = reqTicket[inProgress[d]]
    BY Members DEF DmaInv
  <2>2. \A x : x \in Run' <=> \E d \in Ch : inProgress'[d] # NULL /\ x = reqTicket[inProgress'[d]]
    BY <1>1, MembersNext
  <2>3. \A d \in Ch : inProgress'[d] = IF d = c THEN r ELSE inProgress[d]
    BY <1>1 DEF DmaInv, TypeOK
  <2>4. r # NULL
    BY <1>4, DmaAssumption
  <2> HIDE DEF r
  <2> QED BY <1>2, <2>1, <2>2, <2>3, <2>4
<1>10. Fin' = Fin
  <2>1. \A d \in Ch : (hpc'[d] # "off") <=> (hpc[d] # "off")
    BY <1>1 DEF DmaInv, TypeOK
  <2>2. \A x : x \in Fin <=> x \in announced \/ \E d \in Ch : hpc[d] # "off" /\ x = htick[d]
    BY Members DEF DmaInv
  <2>3. \A x : x \in Fin' <=> x \in announced \/ \E d \in Ch : hpc'[d] # "off" /\ x = htick[d]
    BY <1>1, MembersNext
  <2> QED BY <2>1, <2>2, <2>3
<1> QED BY <1>3, <1>5, <1>7, <1>8, <1>9, <1>10, ServiceStarts

\* alloc_dma_req: nothing is submitted yet.
LEMMA AllocUnseen ==
  ASSUME DmaInv, TypeOK', NEW t \in Threads, AllocReq(t)
  PROVE  UNCHANGED Service!svars
<1>1. /\ UNCHANGED <<queue, inProgress, hpc, htick, announced>>
      /\ \A r \in live : reqTicket'[r] = reqTicket[r]
  BY DEF AllocReq, ctlVars, hndVars, DmaInv, TypeOK
<1>2. Queued \subseteq live /\ OnChannel \subseteq live
  BY DEF DmaInv, OneOwner
<1>3. Pend' = Pend
  <2>1. \A i \in 1..Len(queue) : queue[i] \in live
    BY <1>2 DEF Queued, Elems
  <2> QED BY <1>1, <2>1 DEF Pend
<1>4. Run' = Run
  BY <1>1, <1>2 DEF Run, OnChannel
<1>5. Fin' = Fin
  BY <1>1 DEF Fin
<1> QED BY <1>3, <1>4, <1>5, ServiceStutters

\* dma_msi_handler creates the event: the transfer was finished already.
LEMMA EventUnseen ==
  ASSUME DmaInv, TypeOK', NEW c \in Ch, CreateEvent(c)
  PROVE  UNCHANGED Service!svars
<1>1. /\ hpc[c] = "event" /\ UNCHANGED <<queue, inProgress, reqTicket>>
      /\ announced' = announced \union {htick[c]}
      /\ \A d \in Ch \ {c} : hpc'[d] = hpc[d] /\ htick'[d] = htick[d]
      /\ hpc'[c] = "off"
  BY DEF CreateEvent, ctlVars, reqVars, DmaInv, TypeOK
<1>2. Pend' = Pend /\ Run' = Run
  BY <1>1 DEF Pend, Run, OnChannel
<1>3. \A x : x \in Fin <=> x \in announced \/ \E d \in Ch : hpc[d] # "off" /\ x = htick[d]
  BY Members DEF DmaInv
<1>4. \A x : x \in Fin' <=> x \in announced' \/ \E d \in Ch : hpc'[d] # "off" /\ x = htick'[d]
  BY MembersNext
<1>5. Fin' = Fin
  BY <1>1, <1>3, <1>4
<1> QED BY <1>2, <1>5, ServiceStutters

\* Every step of the engine is a step of the service or invisible to it.
LEMMA ServiceStep ==
  ASSUME DmaInv, TicketBound, TypeOK', [Next]_vars
  PROVE  [Service!SNext]_(Service!svars)
<1> DEFINE G == [Service!SNext]_(Service!svars)
<1>1. ASSUME NEW t \in Threads, AllocReq(t) PROVE G
  BY <1>1, AllocUnseen
<1>2. ASSUME NEW t \in Threads, NEW c \in Ch, StartNow(t, c) PROVE G
  BY <1>2, StartNowServed
<1>3. ASSUME NEW t \in Threads, StartLater(t) PROVE G
  BY <1>3, StartLaterServed
<1>4. ASSUME NEW c \in Ch, TakeDone(c) PROVE G
  BY <1>4, TakeDoneServed
<1>5. ASSUME NEW c \in Ch, RefillNext(c) PROVE G
  BY <1>5, RefillNextServed
<1>6. ASSUME NEW c \in Ch, CreateEvent(c) PROVE G
  BY <1>6, EventUnseen
<1>7. ASSUME UNCHANGED <<queue, inProgress, reqTicket, announced, htick>>,
             \A c \in Ch : (hpc'[c] = "off") <=> (hpc[c] = "off")
      PROVE  G
  <2>1. Pend' = Pend /\ Run' = Run
    BY <1>7 DEF Pend, Run, OnChannel
  <2>2. {c \in Ch : hpc'[c] # "off"} = {c \in Ch : hpc[c] # "off"}
    BY <1>7
  <2>3. Fin' = Fin
    BY <1>7, <2>2 DEF Fin
  <2> QED BY <2>1, <2>3, ServiceStutters
<1>8. ASSUME NEW t \in Threads,
             RejectReq(t) \/ AbandonReq(t) \/ KickOff(t) \/ Return(t)
      PROVE  G
  <2>1. UNCHANGED <<queue, inProgress, reqTicket, announced, htick, hpc>>
    BY <1>8 DEF RejectReq, AbandonReq, KickOff, Return, ctlVars, reqVars, hndVars
  <2> HIDE DEF G
  <2> QED BY <1>7, <2>1
<1>9. ASSUME NEW c \in Ch,
             HwComplete(c) \/ Spurious(c) \/ RefillNone(c) \/ KickNext(c)
      PROVE  G
  <2>1. UNCHANGED <<queue, inProgress, reqTicket, announced, htick>>
    BY <1>9 DEF HwComplete, Spurious, RefillNone, KickNext, ctlVars, reqVars, hndVars
  <2>2. \A d \in Ch : (hpc'[d] = "off") <=> (hpc[d] = "off")
    BY <1>9 DEF HwComplete, Spurious, RefillNone, KickNext, hndVars, DmaInv, TypeOK
  <2> HIDE DEF G
  <2> QED BY <1>7, <2>1, <2>2
<1>10. ASSUME UNCHANGED vars PROVE G
  <2>1. UNCHANGED <<queue, inProgress, reqTicket, announced, htick, hpc>>
    BY <1>10 DEF vars
  <2> HIDE DEF G
  <2> QED BY <1>7, <2>1
<1> HIDE DEF G
<1>11. G
  BY <1>1, <1>2, <1>3, <1>4, <1>5, <1>6, <1>8, <1>9, <1>10
     DEF Next, ThreadStep, ChannelStep, StartXfer
<1> QED BY <1>11 DEF G

\* The safety part of ImplementsService: whatever the threads, the handlers and the
\* FPGA do, the engine starts transfers in the order in which they were submitted,
\* never past a waiting one, never more at a time than it has channels, and each one
\* finishes once.
ServiceSafety == Service!SInit /\ [][Service!SNext]_(Service!svars)

\* start_dma_xfer and dma_done together implement DmaService, for any number of
\* threads, channels and requests.
THEOREM EngineServes == Spec => ServiceSafety
<1>1. Init => Service!SInit
  <2> SUFFICES ASSUME Init PROVE Service!SInit
    OBVIOUS
  <2>1. Pend = <<>>
    BY InvInit, Members DEF Init, DmaInv
  <2>2. Run = {} /\ Fin = {}
    BY DEF Init, Run, OnChannel, Fin
  <2> QED BY <2>1, <2>2 DEF Service!SInit, Pend, Run, Fin
<1>2. Init => TicketBound
  BY DmaAssumption DEF Init, TicketBound
<1>3. DmaInv /\ TicketBound /\ [Next]_vars => TicketBound'
  <2> SUFFICES ASSUME DmaInv, TicketBound, [Next]_vars PROVE TicketBound'
    OBVIOUS
  <2>1. ASSUME NEW t \in Threads, AllocReq(t) PROVE TicketBound'
    BY <2>1, DmaAssumption DEF AllocReq, GetTicket, TicketBound
  <2>2. UNCHANGED ticket => TicketBound'
    BY DEF TicketBound
  <2> QED BY <2>1, <2>2 DEF Next, ThreadStep, ChannelStep, StartXfer, RejectReq,
       AbandonReq, StartNow, StartLater, KickOff, Return, HwComplete, Spurious,
       TakeDone, RefillNext, RefillNone, KickNext, CreateEvent, reqVars, vars
<1>4. DmaInv /\ [Next]_vars => DmaInv'
  BY TypeNext, OwnerNext, ChannelsNext, KicksNext, TicketsNext DEF DmaInv
<1>5. DmaInv /\ TicketBound /\ [Next]_vars => [Service!SNext]_(Service!svars)
  <2> SUFFICES ASSUME DmaInv, TicketBound, [Next]_vars
               PROVE  [Service!SNext]_(Service!svars)
    OBVIOUS
  <2> QED BY <1>4, ServiceStep DEF DmaInv
<1>6. Spec => [](DmaInv /\ TicketBound)
  BY <1>2, <1>3, <1>4, InvInit, PTL DEF Spec
<1> QED BY <1>1, <1>5, <1>6, PTL DEF Spec, ServiceSafety
===============================================================================
