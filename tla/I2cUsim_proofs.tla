---------------------------- MODULE I2cUsim_proofs ----------------------------
(***************************************************************************)
(* Proofs about the simulated I2C adapter, for any number of senders,      *)
(* simulator threads, messages, kills and loads.  Whatever the simulator   *)
(* does, a message is reported as a success only if its event was served,  *)
(* and a closed device leaves no event in progress.  When the simulator    *)
(* behaves, no event is used after it was freed, and every event goes      *)
(* through its states in order.                                            *)
(***************************************************************************)
EXTENDS I2cUsim, TLAPS, SequenceTheorems

\* Where a sender and a simulator thread hold an event.
Waiting == {"wait", "del", "put"}
Working == {"copy", "fill", "complete", "put"}

(* What holds whatever the simulator does *)

ModType ==
    /\ mod \in {"out", "adapter", "queue", "live", "del"} /\ loads \in 0..MaxLoads
    /\ holders \subseteq Senders

EventType ==
    /\ ticket \in 0..MaxTicket /\ alive \in SUBSET Tickets
    /\ refcnt \in [Tickets -> Int]
    /\ state \in [Tickets -> {"READY", "IN_PROGRESS", "DONE"}]
    /\ status \in [Tickets -> {"ok", "error"}]
    /\ queue \in Seq(Tickets)

SenderType ==
    /\ spc \in [Senders -> {"idle", "post", "wait", "del", "put", "ret"}]
    /\ sev \in [Senders -> 0..MaxTicket] /\ sint \in [Senders -> BOOLEAN]
    /\ todo \in [Senders -> 0..MaxMsgs] /\ failed \in [Senders -> BOOLEAN]

ThreadType ==
    /\ rpc \in [Threads -> {"idle", "poll", "sleep", "copy", "fill", "complete", "put"}]
    /\ rev \in [Threads -> 0..MaxTicket] /\ rstat \in [Threads -> {"ok", "error"}]
    /\ told \in [Threads -> BOOLEAN]

SimType == open \in BOOLEAN /\ gotten \in SUBSET Tickets /\ kills \in 0..MaxKills

UsimType == ModType /\ EventType /\ SenderType /\ ThreadType /\ SimType

\* A sender in a message has one to go; once it has posted an event it has its ticket.
SendersHave ==
    \A s \in Senders : /\ spc[s] \in Waiting \union {"post"} => todo[s] >= 1
                       /\ spc[s] \in Waiting => sev[s] \in 1..ticket

ThreadsHave == \A r \in Threads : rpc[r] \in Working => rev[r] \in Tickets

TypeInv == UsimType /\ SendersHave /\ ThreadsHave

\* The module stays loaded as long as it is in use.
StaysLoaded == (open => mod = "live") /\ (holders # {} => mod # "out")

\* No thread is in the driver once the simulator closed the device.
ClosedIsIdle == ~open => \A r \in Threads : rpc[r] = "idle"

\* An event is done with status 0 only if its data is there.
DoneIsServed ==
    /\ \A e \in Tickets : state[e] = "DONE" /\ status[e] = "ok" => e \in served
    /\ \A r \in Threads : rpc[r] = "complete" /\ rstat[r] = "ok" => rev[r] \in served
    /\ \A s \in Senders : spc[s] \in {"del", "put"} /\ ~sint[s] => state[sev[s]] = "DONE"

UsimInv ==
    /\ TypeInv /\ StaysLoaded /\ ClosedIsIdle /\ DoneIsServed
    /\ SuccessMeansServed /\ OrphansCompleted

(* What holds when the simulator behaves *)

SHolds(e) == \E s \in Senders : spc[s] \in Waiting /\ sev[s] = e
RHolds(e) == e \in gotten \/ \E r \in Threads : rpc[r] \in Working /\ rev[r] = e

\* An event has one sender, and at most one holder on the side of the simulator.
OneHolder ==
    /\ \A s, t \in Senders :
         spc[s] \in Waiting /\ spc[t] \in Waiting /\ sev[s] = sev[t] => s = t
    /\ \A r, q \in Threads :
         rpc[r] \in Working /\ rpc[q] \in Working /\ rev[r] = rev[q] => r = q
    /\ \A r \in Threads : rpc[r] \in Working => rev[r] \notin gotten

\* What the simulator holds is in progress until it is completed.
HeldInProgress ==
    /\ \A e \in gotten : state[e] = "IN_PROGRESS"
    /\ \A r \in Threads :
         /\ rpc[r] \in {"copy", "fill", "complete"} => state[rev[r]] = "IN_PROGRESS"
         /\ rpc[r] = "put" => state[rev[r]] = "DONE"

\* The queue links events of senders that have not unlinked theirs, each once.
Linked(e) == \E s \in Senders : spc[s] \in {"wait", "del"} /\ sev[s] = e

LinkedOnce == \A i, j \in DOMAIN queue : queue[i] = queue[j] => i = j
QueueIsLinked == LinkedOnce /\ \A i \in DOMAIN queue : Linked(queue[i])

\* Somebody is going to complete every posted event that is in progress.
InProgressIsHeld ==
    \A i \in DOMAIN queue : state[queue[i]] = "IN_PROGRESS" => RHolds(queue[i])

\* The references are counted: one of the sender, one of the simulator.
RefsCounted ==
    /\ alive \subseteq 1..ticket
    /\ \A e \in Tickets :
         /\ refcnt[e] >= 0
         /\ SHolds(e) => refcnt[e] >= 1
         /\ RHolds(e) => refcnt[e] >= 1
         /\ SHolds(e) /\ RHolds(e) => refcnt[e] >= 2
         /\ e \in alive <=> refcnt[e] >= 1

RefInv == OneHolder /\ HeldInProgress /\ QueueIsLinked /\ InProgressIsHeld /\ RefsCounted

-------------------------------------------------------------------------------
(* Taking one element out of a sequence, as list_del does *)

RemoveAt(q, i) == SubSeq(q, 1, i - 1) \o SubSeq(q, i + 1, Len(q))

LEMMA RemoveAtFacts ==
  ASSUME NEW S, NEW q \in Seq(S), NEW i \in 1..Len(q)
  PROVE  /\ RemoveAt(q, i) \in Seq(S)
         /\ Len(RemoveAt(q, i)) = Len(q) - 1
         /\ \A j \in 1..(Len(q) - 1) :
              RemoveAt(q, i)[j] = IF j < i THEN q[j] ELSE q[j + 1]
<1> DEFINE a == SubSeq(q, 1, i - 1)
           b == SubSeq(q, i + 1, Len(q))
<1>1. a \in Seq(S) /\ Len(a) = i - 1 /\ \A j \in 1..(i - 1) : a[j] = q[j]
  OBVIOUS
<1>2. b \in Seq(S) /\ Len(b) = Len(q) - i /\ \A j \in 1..(Len(q) - i) : b[j] = q[j + i]
  OBVIOUS
<1> HIDE DEF a, b
<1>3. a \o b \in Seq(S) /\ Len(a \o b) = Len(q) - 1
  <2>1. a \o b \in Seq(S) /\ Len(a \o b) = Len(a) + Len(b)
    BY <1>1, <1>2, ConcatProperties
  <2>2. QED
    BY <2>1, <1>1, <1>2
<1>4. ASSUME NEW j \in 1..(Len(q) - 1)
      PROVE  (a \o b)[j] = IF j < i THEN q[j] ELSE q[j + 1]
  <2>0. j < i \/ j >= i
    OBVIOUS
  <2>1. CASE j < i
    BY <1>1, <1>2, <2>1
  <2>2. CASE j >= i
    <3>1. (a \o b)[j] = b[j - (i - 1)] /\ j - (i - 1) \in 1..(Len(q) - i)
      BY <1>1, <1>2, <2>2
    <3>2. b[j - (i - 1)] = q[(j - (i - 1)) + i] /\ (j - (i - 1)) + i = j + 1
      BY <1>2, <3>1
    <3>3. QED
      BY <2>2, <3>1, <3>2
  <2>3. QED
    BY <2>0, <2>1, <2>2
<1>5. QED
  BY <1>3, <1>4 DEF RemoveAt, a, b

-------------------------------------------------------------------------------
(* What holds whatever the simulator does *)

LEMMA PutEventType ==
  ASSUME EventType, NEW e \in Tickets, PutEvent(e), UNCHANGED <<ticket, state, status, queue>>
  PROVE  EventType'
<1>1. (refcnt \in [Tickets -> Int])'
  BY DEF PutEvent, EventType
<1>2. alive' \subseteq alive
  BY DEF PutEvent
<1>3. QED
  BY <1>1, <1>2 DEF EventType

LEMMA TypeStep == ASSUME TypeInv, [Next]_vars PROVE TypeInv'
<1> USE UsimAssumption DEF Tickets, Waiting, Working, modVars, evVars, sndVars,
      rcvVars, simVars, ghosts
<1>1. ASSUME AddAdapter PROVE TypeInv'
  BY <1>1 DEF AddAdapter, TypeInv, UsimType, ModType, EventType, SenderType, ThreadType,
      SimType, SendersHave, ThreadsHave
<1>2. ASSUME InitEventQueue PROVE TypeInv'
  BY <1>2 DEF InitEventQueue, TypeInv, UsimType, ModType, EventType, SenderType,
      ThreadType, SimType, SendersHave, ThreadsHave
<1>3. ASSUME RegisterChrdev PROVE TypeInv'
  BY <1>3 DEF RegisterChrdev, TypeInv, UsimType, ModType, EventType, SenderType,
      ThreadType, SimType, SendersHave, ThreadsHave
<1>4. ASSUME Exit PROVE TypeInv'
  BY <1>4 DEF Exit, InUse, TypeInv, UsimType, ModType, EventType, SenderType,
      ThreadType, SimType, SendersHave, ThreadsHave
<1>5. ASSUME DelAdapter PROVE TypeInv'
  BY <1>5 DEF DelAdapter, TypeInv, UsimType, ModType, EventType, SenderType, ThreadType,
      SimType, SendersHave, ThreadsHave
<1>6. ASSUME Open PROVE TypeInv'
  BY <1>6 DEF Open, TypeInv, UsimType, ModType, EventType, SenderType, ThreadType,
      SimType, SendersHave, ThreadsHave
<1>7. ASSUME Release PROVE TypeInv'
  <2>1. EventType'
    <3>1. (state \in [Tickets -> {"READY", "IN_PROGRESS", "DONE"}])'
      BY <1>7 DEF Release, TypeInv, UsimType, EventType
    <3>2. (status \in [Tickets -> {"ok", "error"}])'
      BY <1>7 DEF Release, OrphanStatus, TypeInv, UsimType, EventType
    <3>3. (refcnt \in [Tickets -> Int])'
      BY <1>7 DEF Release, TypeInv, UsimType, EventType
    <3>4. alive' \subseteq alive
      BY <1>7 DEF Release
    <3>5. QED
      BY <1>7, <3>1, <3>2, <3>3, <3>4 DEF Release, TypeInv, UsimType, EventType
  <2>2. (ModType /\ SenderType /\ ThreadType /\ SendersHave /\ ThreadsHave)'
    BY <1>7 DEF Release, TypeInv, UsimType, ModType, EventType, SenderType, ThreadType,
        SendersHave, ThreadsHave
  <2>3. SimType'
    <3>1. kills' \in 0..MaxKills
      BY <1>7 DEF Release, TypeInv, UsimType, SimType
    <3>2. QED
      BY <1>7, <3>1 DEF Release, SimType
  <2>4. QED
    BY <2>1, <2>2, <2>3 DEF TypeInv, UsimType
<1>8. ASSUME NEW s \in Senders, GetAdapter(s) PROVE TypeInv'
  BY <1>8 DEF GetAdapter, TypeInv, UsimType, ModType, EventType, SenderType, ThreadType,
      SimType, SendersHave, ThreadsHave
<1>9. ASSUME NEW s \in Senders, PutAdapter(s) PROVE TypeInv'
  BY <1>9 DEF PutAdapter, TypeInv, UsimType, ModType, EventType, SenderType, ThreadType,
      SimType, SendersHave, ThreadsHave
<1>10. ASSUME NEW s \in Senders, WaitSignal(s) PROVE TypeInv'
  BY <1>10 DEF WaitSignal, TypeInv, UsimType, ModType, EventType, SenderType,
      ThreadType, SimType, SendersHave, ThreadsHave
<1>11. ASSUME NEW s \in Senders, Post(s) PROVE TypeInv'
  <2>1. EventType'
    BY <1>11 DEF Post, AllocRefcnt, TypeInv, UsimType, EventType
  <2>2. SenderType' /\ SendersHave'
    BY <1>11 DEF Post, TypeInv, UsimType, EventType, SenderType, SendersHave
  <2>3. ThreadType' /\ ThreadsHave'
    BY <1>11 DEF Post, WakePollers, TypeInv, UsimType, ThreadType, ThreadsHave
  <2>4. QED
    BY <1>11, <2>1, <2>2, <2>3 DEF Post, TypeInv, UsimType, ModType, SimType
<1>12. ASSUME NEW s \in Senders, AllocFails(s) PROVE TypeInv'
  <2>1. SenderType'
    BY <1>12 DEF AllocFails, MessageDone, TypeInv, UsimType, SenderType, SendersHave
  <2>2. SendersHave'
    BY <1>12 DEF AllocFails, MessageDone, TypeInv, UsimType, SenderType, SendersHave
  <2>3. QED
    BY <1>12, <2>1, <2>2 DEF AllocFails, TypeInv, UsimType, ModType, EventType,
        ThreadType,
        SimType, ThreadsHave
<1>13. ASSUME NEW s \in Senders, WaitDone(s) PROVE TypeInv'
  BY <1>13 DEF WaitDone, TypeInv, UsimType, ModType, EventType, SenderType, ThreadType,
      SimType, SendersHave, ThreadsHave
<1>14. ASSUME NEW s \in Senders, ListDel(s) PROVE TypeInv'
  <2>1. queue' \in Seq(Tickets)
    <3>1. CASE UNCHANGED queue
      BY <3>1 DEF TypeInv, UsimType, EventType
    <3>2. CASE \E i \in DOMAIN queue : queue' = RemoveAt(queue, i)
      BY <3>2, RemoveAtFacts DEF TypeInv, UsimType, EventType
    <3>3. QED
      BY <1>14, <3>1, <3>2 DEF ListDel, RemoveAt
  <2>2. QED
    BY <1>14, <2>1 DEF ListDel, TypeInv, UsimType, ModType, EventType, SenderType,
        ThreadType,
        SimType, SendersHave, ThreadsHave
<1>15. ASSUME NEW s \in Senders, SenderPut(s) PROVE TypeInv'
  <2>1. EventType'
    BY <1>15, PutEventType DEF SenderPut, TypeInv, UsimType, SendersHave, EventType
  <2>2. QED
    <3>1. PICK ok \in {status[sev[s]] = "ok" /\ ~sint[s], FALSE} : MessageDone(s, ok)
      BY <1>15 DEF SenderPut
    <3>2. SenderType'
      BY <1>15, <3>1 DEF SenderPut, MessageDone, TypeInv, UsimType, SenderType,
          SendersHave
    <3>3. SendersHave'
      BY <1>15, <3>1 DEF SenderPut, MessageDone, TypeInv, UsimType, SenderType,
          SendersHave
    <3>4. (ModType /\ ThreadType /\ SimType /\ ThreadsHave)'
      BY <1>15 DEF SenderPut, TypeInv, UsimType, ModType, ThreadType, SimType, ThreadsHave
    <3>5. QED
      BY <2>1, <3>2, <3>3, <3>4 DEF TypeInv, UsimType
<1>16. ASSUME NEW s \in Senders, SenderReturn(s) PROVE TypeInv'
  BY <1>16 DEF SenderReturn, TypeInv, UsimType, ModType, EventType, SenderType,
      ThreadType, SimType, SendersHave, ThreadsHave
<1>17. ASSUME NEW s \in Senders, NEW n \in 1..MaxMsgs, Begin(s, n) PROVE TypeInv'
  <2>1. SenderType' /\ SendersHave'
    BY <1>17 DEF Begin, TypeInv, UsimType, EventType, SenderType, SendersHave
  <2>2. QED
    BY <1>17, <2>1 DEF Begin, TypeInv, UsimType, ModType, EventType, ThreadType, SimType,
        ThreadsHave
<1>18. ASSUME NEW r \in Threads, PollWait(r) PROVE TypeInv'
  BY <1>18 DEF PollWait, TypeInv, UsimType, ModType, EventType, SenderType, ThreadType,
      SimType, SendersHave, ThreadsHave
<1>19. ASSUME NEW r \in Threads, Get(r) PROVE TypeInv'
  <2>1. PICK i \in DOMAIN queue :
           /\ state' = [state EXCEPT ![queue[i]] = "IN_PROGRESS"]
           /\ GetEvent(queue[i])
           /\ rev' = [rev EXCEPT ![r] = queue[i]]
    BY <1>19 DEF Get
  <2>2. queue[i] \in Tickets
    BY <2>1 DEF TypeInv, UsimType, EventType
  <2>3. EventType'
    BY <1>19, <2>1, <2>2 DEF Get, GetEvent, TypeInv, UsimType, EventType
  <2>4. (ModType /\ SenderType /\ ThreadType /\ SimType /\ SendersHave /\ ThreadsHave)'
    BY <1>19, <2>1, <2>2 DEF Get, TypeInv, UsimType, ModType, SenderType, ThreadType,
        SimType,
        SendersHave, ThreadsHave
  <2>5. QED
    BY <2>3, <2>4 DEF TypeInv, UsimType
<1>20. ASSUME NEW r \in Threads, GetNone(r) PROVE TypeInv'
  BY <1>20 DEF GetNone, Gettable, TypeInv, UsimType, ModType, EventType, SenderType,
      ThreadType, SimType, SendersHave, ThreadsHave
<1>21. ASSUME NEW r \in Threads, PollCheck(r) PROVE TypeInv'
  BY <1>21 DEF PollCheck, TypeInv, UsimType, ModType, EventType, SenderType, ThreadType,
      SimType, SendersHave, ThreadsHave
<1>22. ASSUME NEW r \in Threads, GetCopied(r) PROVE TypeInv'
  <2>1. ThreadType' /\ ThreadsHave'
    BY <1>22 DEF GetCopied, TypeInv, UsimType, ThreadType, ThreadsHave
  <2>2. SimType'
    BY <1>22 DEF GetCopied, TypeInv, UsimType, SimType, ThreadsHave
  <2>3. QED
    BY <1>22, <2>1, <2>2 DEF GetCopied, TypeInv, UsimType, ModType, EventType, SenderType,
        SendersHave
<1>23. ASSUME NEW r \in Threads, GetFault(r) PROVE TypeInv'
  BY <1>23 DEF GetFault, TypeInv, UsimType, ModType, EventType, SenderType, ThreadType,
      SimType, SendersHave, ThreadsHave
<1>24. ASSUME NEW r \in Threads, Fill(r) PROVE TypeInv'
  BY <1>24 DEF Fill, TypeInv, UsimType, ModType, EventType, SenderType, ThreadType,
      SimType, SendersHave, ThreadsHave
<1>25. ASSUME NEW r \in Threads, Complete(r) PROVE TypeInv'
  BY <1>25 DEF Complete, TypeInv, UsimType, ModType, EventType, SenderType, ThreadType,
      SimType, SendersHave, ThreadsHave
<1>26. ASSUME NEW r \in Threads, CompletePut(r) PROVE TypeInv'
  <2>1. EventType'
    BY <1>26, PutEventType DEF CompletePut, TypeInv, UsimType, ThreadsHave, EventType
  <2>2. QED
    BY <1>26, <2>1 DEF CompletePut, TypeInv, UsimType, ModType, SenderType, ThreadType,
        SimType, SendersHave, ThreadsHave
<1>27. ASSUME NEW r \in Threads, NEW e \in Tickets, PutLookup(r, e) PROVE TypeInv'
  <2>1. ThreadType' /\ ThreadsHave'
    <3>1. CASE InQueue(e)
      BY <1>27, <3>1 DEF PutLookup, TypeInv, UsimType, ThreadType, ThreadsHave
    <3>2. CASE ~InQueue(e)
      BY <1>27, <3>2 DEF PutLookup, TypeInv, UsimType, ThreadType, ThreadsHave
    <3>3. QED
      BY <3>1, <3>2
  <2>2. QED
    BY <1>27, <2>1 DEF PutLookup, TypeInv, UsimType, ModType, EventType, SenderType,
        SimType, SendersHave
<1>28. CASE UNCHANGED vars
  BY <1>28 DEF vars, TypeInv, UsimType, ModType, EventType, SenderType, ThreadType,
      SimType, SendersHave, ThreadsHave
<1>29. QED
  BY <1>1, <1>2, <1>3, <1>4, <1>5, <1>6, <1>7, <1>8, <1>9, <1>10, <1>11, <1>12, <1>13,
      <1>14, <1>15, <1>16, <1>17, <1>18, <1>19, <1>20, <1>21, <1>22, <1>23, <1>24,
      <1>25, <1>26, <1>27, <1>28 DEF Next, SenderStep, ThreadStep


\* ListDel unlinks the event and links no other.
LEMMA ListDelFacts ==
  ASSUME TypeInv, NEW s \in Senders, ListDel(s)
  PROVE  /\ \A i \in DOMAIN queue' : \E k \in DOMAIN queue : queue'[i] = queue[k]
         /\ LinkedOnce => LinkedOnce' /\ \A i \in DOMAIN queue' : queue'[i] # sev[s]
<1>1. CASE UNCHANGED queue /\ ~InQueue(sev[s])
  BY <1>1 DEF LinkedOnce, InQueue
<1>2. ASSUME NEW i \in DOMAIN queue, queue[i] = sev[s], queue' = RemoveAt(queue, i)
      PROVE  /\ \A j \in DOMAIN queue' : \E k \in DOMAIN queue : queue'[j] = queue[k]
             /\ LinkedOnce => LinkedOnce' /\ \A j \in DOMAIN queue' : queue'[j] # sev[s]
  <2>1. queue \in Seq(Tickets) /\ DOMAIN queue = 1..Len(queue)
    BY DEF TypeInv, UsimType, EventType
  <2>2. /\ DOMAIN queue' = 1..(Len(queue) - 1)
        /\ \A j \in 1..(Len(queue) - 1) :
             queue'[j] = IF j < i THEN queue[j] ELSE queue[j + 1]
    BY <1>2, <2>1, RemoveAtFacts
  <2>3. \A j \in 1..(Len(queue) - 1) : j \in DOMAIN queue /\ j + 1 \in DOMAIN queue
    BY <2>1
  <2>4. \A j \in DOMAIN queue' : \E k \in DOMAIN queue : queue'[j] = queue[k]
    BY <2>2, <2>3
  <2>5. ASSUME LinkedOnce, NEW j \in DOMAIN queue' PROVE queue'[j] # sev[s]
    BY <1>2, <2>1, <2>2, <2>3, <2>5 DEF LinkedOnce
  <2>6. ASSUME LinkedOnce, NEW j \in DOMAIN queue', NEW k \in DOMAIN queue', j < k
        PROVE  queue'[j] # queue'[k]
    <3> DEFINE J == IF j < i THEN j ELSE j + 1
               K == IF k < i THEN k ELSE k + 1
    <3>1. J \in DOMAIN queue /\ K \in DOMAIN queue /\ J < K
      BY <2>1, <2>2, <2>3, <2>6
    <3>2. queue'[j] = queue[J] /\ queue'[k] = queue[K]
      BY <2>1, <2>2, <2>6
    <3>3. QED
      BY <2>1, <2>6, <3>1, <3>2 DEF LinkedOnce
  <2>7. ASSUME LinkedOnce PROVE LinkedOnce'
    <3>1. \A j, k \in DOMAIN queue' : j < k \/ k < j \/ j = k
      BY <2>1, <2>2
    <3>2. QED
      BY <2>6, <2>7, <3>1 DEF LinkedOnce
  <2>8. QED
    BY <2>4, <2>5, <2>7
<1>3. QED
  BY <1>1, <1>2 DEF ListDel, RemoveAt, InQueue

LEMMA UsimStep == ASSUME UsimInv, TypeInv', [Next]_vars PROVE UsimInv'
<1> USE UsimAssumption DEF Tickets, Waiting, Working, modVars, evVars, sndVars,
      rcvVars, simVars, ghosts
<1>1. ASSUME AddAdapter PROVE UsimInv'
  BY <1>1 DEF AddAdapter, UsimInv, TypeInv, UsimType, EventType, SenderType, ThreadType,
      SendersHave, ThreadsHave, StaysLoaded, ClosedIsIdle, DoneIsServed,
      SuccessMeansServed, OrphansCompleted
<1>2. ASSUME InitEventQueue PROVE UsimInv'
  BY <1>2 DEF InitEventQueue, UsimInv, TypeInv, UsimType, EventType, SenderType,
      ThreadType, SendersHave, ThreadsHave, StaysLoaded, ClosedIsIdle, DoneIsServed,
      SuccessMeansServed, OrphansCompleted
<1>3. ASSUME RegisterChrdev PROVE UsimInv'
  BY <1>3 DEF RegisterChrdev, UsimInv, TypeInv, UsimType, EventType, SenderType,
      ThreadType, SendersHave, ThreadsHave, StaysLoaded, ClosedIsIdle, DoneIsServed,
      SuccessMeansServed, OrphansCompleted
<1>4. ASSUME Exit PROVE UsimInv'
  BY <1>4 DEF Exit, InUse, UsimInv, TypeInv, UsimType, EventType, SenderType,
      ThreadType, SendersHave, ThreadsHave, StaysLoaded, ClosedIsIdle, DoneIsServed,
      SuccessMeansServed, OrphansCompleted
<1>5. ASSUME DelAdapter PROVE UsimInv'
  BY <1>5 DEF DelAdapter, UsimInv, TypeInv, UsimType, EventType, SenderType, ThreadType,
      SendersHave, ThreadsHave, StaysLoaded, ClosedIsIdle, DoneIsServed,
      SuccessMeansServed, OrphansCompleted
<1>6. ASSUME Open PROVE UsimInv'
  BY <1>6 DEF Open, UsimInv, TypeInv, UsimType, EventType, SenderType, ThreadType,
      SendersHave, ThreadsHave, StaysLoaded, ClosedIsIdle, DoneIsServed,
      SuccessMeansServed, OrphansCompleted
<1>7. ASSUME Release PROVE UsimInv'
  BY <1>7 DEF Release, Orphans, OrphanStatus, InQueue, UsimInv, TypeInv, UsimType,
      EventType, SenderType, ThreadType, SendersHave, ThreadsHave, StaysLoaded,
      ClosedIsIdle, DoneIsServed, SuccessMeansServed, OrphansCompleted
<1>8. ASSUME NEW s \in Senders, GetAdapter(s) PROVE UsimInv'
  BY <1>8 DEF GetAdapter, UsimInv, TypeInv, UsimType, EventType, SenderType, ThreadType,
      SendersHave, ThreadsHave, StaysLoaded, ClosedIsIdle, DoneIsServed,
      SuccessMeansServed, OrphansCompleted
<1>9. ASSUME NEW s \in Senders, PutAdapter(s) PROVE UsimInv'
  BY <1>9 DEF PutAdapter, UsimInv, TypeInv, UsimType, EventType, SenderType, ThreadType,
      SendersHave, ThreadsHave, StaysLoaded, ClosedIsIdle, DoneIsServed,
      SuccessMeansServed, OrphansCompleted
<1>10. ASSUME NEW s \in Senders, WaitSignal(s) PROVE UsimInv'
  BY <1>10 DEF WaitSignal, UsimInv, TypeInv, UsimType, EventType, SenderType,
      ThreadType, SendersHave, ThreadsHave, StaysLoaded, ClosedIsIdle, DoneIsServed,
      SuccessMeansServed, OrphansCompleted
<1>11. ASSUME NEW s \in Senders, Post(s) PROVE UsimInv'
  <2>1. DoneIsServed'
    BY <1>11 DEF Post, WakePollers, UsimInv, TypeInv, UsimType, EventType, SenderType,
        ThreadType, SendersHave, DoneIsServed
  <2>2. OrphansCompleted'
    BY <1>11 DEF Post, UsimInv, TypeInv, UsimType, EventType, OrphansCompleted
  <2>3. StaysLoaded' /\ ClosedIsIdle' /\ SuccessMeansServed'
    BY <1>11 DEF Post, WakePollers, UsimInv, TypeInv, UsimType, ThreadType, StaysLoaded,
        ClosedIsIdle, SuccessMeansServed
  <2>4. QED
    BY <2>1, <2>2, <2>3 DEF UsimInv
<1>12. ASSUME NEW s \in Senders, AllocFails(s) PROVE UsimInv'
  BY <1>12 DEF AllocFails, MessageDone, UsimInv, TypeInv, UsimType, EventType,
      SenderType, ThreadType, SendersHave, ThreadsHave, StaysLoaded, ClosedIsIdle,
      DoneIsServed, SuccessMeansServed, OrphansCompleted
<1>13. ASSUME NEW s \in Senders, WaitDone(s) PROVE UsimInv'
  <2>1. DoneIsServed'
    BY <1>13 DEF WaitDone, UsimInv, TypeInv, UsimType, SenderType, DoneIsServed
  <2>2. QED
    BY <1>13, <2>1 DEF WaitDone, UsimInv, StaysLoaded, ClosedIsIdle, SuccessMeansServed,
        OrphansCompleted
<1>14. ASSUME NEW s \in Senders, ListDel(s) PROVE UsimInv'
  <2>1. OrphansCompleted'
    BY <1>14, ListDelFacts DEF ListDel, UsimInv, OrphansCompleted
  <2>2. DoneIsServed'
    BY <1>14 DEF ListDel, UsimInv, TypeInv, UsimType, SenderType, DoneIsServed
  <2>3. QED
    BY <1>14, <2>1, <2>2 DEF ListDel, UsimInv, StaysLoaded, ClosedIsIdle,
        SuccessMeansServed
<1>15. ASSUME NEW s \in Senders, SenderPut(s) PROVE UsimInv'
  <2>1. PICK ok \in {status[sev[s]] = "ok" /\ ~sint[s], FALSE} :
           /\ okRet' = IF ok THEN okRet \union {sev[s]} ELSE okRet
           /\ MessageDone(s, ok)
    BY <1>15 DEF SenderPut
  <2>2. ok => sev[s] \in served
    <3>1. ok => status[sev[s]] = "ok" /\ ~sint[s]
      BY <2>1
    <3>2. sev[s] \in Tickets /\ (~sint[s] => state[sev[s]] = "DONE")
      BY <1>15 DEF SenderPut, UsimInv, TypeInv, UsimType, EventType, SendersHave,
          DoneIsServed
    <3>3. QED
      BY <3>1, <3>2 DEF UsimInv, DoneIsServed
  <2>3. SuccessMeansServed'
    BY <1>15, <2>1, <2>2 DEF SenderPut, UsimInv, SuccessMeansServed
  <2>4. DoneIsServed'
    BY <1>15, <2>1 DEF SenderPut, MessageDone, UsimInv, TypeInv, UsimType, SenderType,
        DoneIsServed
  <2>5. QED
    BY <1>15, <2>3, <2>4 DEF SenderPut, UsimInv, StaysLoaded, ClosedIsIdle,
        OrphansCompleted
<1>16. ASSUME NEW s \in Senders, SenderReturn(s) PROVE UsimInv'
  BY <1>16 DEF SenderReturn, UsimInv, TypeInv, UsimType, EventType, SenderType,
      ThreadType, SendersHave, ThreadsHave, StaysLoaded, ClosedIsIdle, DoneIsServed,
      SuccessMeansServed, OrphansCompleted
<1>17. ASSUME NEW s \in Senders, NEW n \in 1..MaxMsgs, Begin(s, n) PROVE UsimInv'
  <2>1. DoneIsServed'
    BY <1>17 DEF Begin, UsimInv, TypeInv, UsimType, SenderType, DoneIsServed
  <2>2. QED
    BY <1>17, <2>1 DEF Begin, UsimInv, StaysLoaded, ClosedIsIdle, SuccessMeansServed,
        OrphansCompleted
<1>18. ASSUME NEW r \in Threads, PollWait(r) PROVE UsimInv'
  BY <1>18 DEF PollWait, UsimInv, TypeInv, UsimType, EventType, SenderType, ThreadType,
      SendersHave, ThreadsHave, StaysLoaded, ClosedIsIdle, DoneIsServed,
      SuccessMeansServed, OrphansCompleted
<1>19. ASSUME NEW r \in Threads, Get(r) PROVE UsimInv'
  <2>1. PICK i \in DOMAIN queue :
           /\ state[queue[i]] = "READY"
           /\ state' = [state EXCEPT ![queue[i]] = "IN_PROGRESS"]
    BY <1>19 DEF Get, Gettable
  <2>2. DoneIsServed'
    <3>1. queue[i] \in Tickets /\ \A s \in Senders : spc[s] \in Waiting => sev[s] \in Tickets
      BY DEF UsimInv, TypeInv, UsimType, EventType, SendersHave
    <3>2. \A e \in Tickets : state'[e] = IF e = queue[i] THEN "IN_PROGRESS" ELSE state[e]
      BY <2>1, <3>1 DEF UsimInv, TypeInv, UsimType, EventType
    <3>3. \A q \in Threads : rpc'[q] = "complete" => rpc[q] = "complete" /\ rev'[q] = rev[q]
      BY <1>19 DEF Get, UsimInv, TypeInv, UsimType, ThreadType
    <3>4. QED
      BY <1>19, <2>1, <3>1, <3>2, <3>3 DEF Get, UsimInv, DoneIsServed
  <2>3. QED
    BY <1>19, <2>2 DEF Get, UsimInv, StaysLoaded, ClosedIsIdle, SuccessMeansServed,
        OrphansCompleted
<1>20. ASSUME NEW r \in Threads, GetNone(r) PROVE UsimInv'
  BY <1>20 DEF GetNone, Gettable, UsimInv, TypeInv, UsimType, EventType, SenderType,
      ThreadType, SendersHave, ThreadsHave, StaysLoaded, ClosedIsIdle, DoneIsServed,
      SuccessMeansServed, OrphansCompleted
<1>21. ASSUME NEW r \in Threads, PollCheck(r) PROVE UsimInv'
  <2>1. DoneIsServed'
    BY <1>21 DEF PollCheck, UsimInv, TypeInv, UsimType, ThreadType, DoneIsServed
  <2>2. ClosedIsIdle'
    BY <1>21 DEF PollCheck, UsimInv, TypeInv, UsimType, ThreadType, ClosedIsIdle
  <2>3. QED
    BY <1>21, <2>1, <2>2 DEF PollCheck, UsimInv, StaysLoaded, SuccessMeansServed,
        OrphansCompleted
<1>22. ASSUME NEW r \in Threads, GetCopied(r) PROVE UsimInv'
  BY <1>22 DEF GetCopied, UsimInv, TypeInv, UsimType, EventType, SenderType, ThreadType,
      SendersHave, ThreadsHave, StaysLoaded, ClosedIsIdle, DoneIsServed,
      SuccessMeansServed, OrphansCompleted
<1>23. ASSUME NEW r \in Threads, GetFault(r) PROVE UsimInv'
  BY <1>23 DEF GetFault, UsimInv, TypeInv, UsimType, EventType, SenderType, ThreadType,
      SendersHave, ThreadsHave, StaysLoaded, ClosedIsIdle, DoneIsServed,
      SuccessMeansServed, OrphansCompleted
<1>24. ASSUME NEW r \in Threads, Fill(r) PROVE UsimInv'
  BY <1>24 DEF Fill, UsimInv, TypeInv, UsimType, EventType, SenderType, ThreadType,
      SendersHave, ThreadsHave, StaysLoaded, ClosedIsIdle, DoneIsServed,
      SuccessMeansServed, OrphansCompleted
<1>25. ASSUME NEW r \in Threads, Complete(r) PROVE UsimInv'
  BY <1>25 DEF Complete, UsimInv, TypeInv, UsimType, EventType, SenderType, ThreadType,
      SendersHave, ThreadsHave, StaysLoaded, ClosedIsIdle, DoneIsServed,
      SuccessMeansServed, OrphansCompleted
<1>26. ASSUME NEW r \in Threads, CompletePut(r) PROVE UsimInv'
  BY <1>26 DEF CompletePut, PutEvent, UsimInv, TypeInv, UsimType, EventType, SenderType,
      ThreadType, SendersHave, ThreadsHave, StaysLoaded, ClosedIsIdle, DoneIsServed,
      SuccessMeansServed, OrphansCompleted
<1>27. ASSUME NEW r \in Threads, NEW e \in Tickets, PutLookup(r, e) PROVE UsimInv'
  <2>1. \/ UNCHANGED <<rpc, rev>>
        \/ rpc' = [rpc EXCEPT ![r] = "fill"] /\ rev' = [rev EXCEPT ![r] = e]
    BY <1>27 DEF PutLookup
  <2>2. DoneIsServed'
    BY <1>27, <2>1 DEF PutLookup, UsimInv, TypeInv, UsimType, ThreadType, DoneIsServed
  <2>3. QED
    BY <1>27, <2>1, <2>2 DEF PutLookup, UsimInv, StaysLoaded, ClosedIsIdle,
        SuccessMeansServed,
        OrphansCompleted
<1>28. CASE UNCHANGED vars
  BY <1>28 DEF vars, UsimInv, TypeInv, UsimType, EventType, SenderType, ThreadType,
      SendersHave, ThreadsHave, StaysLoaded, ClosedIsIdle, DoneIsServed,
      SuccessMeansServed, OrphansCompleted
<1>29. QED
  BY <1>1, <1>2, <1>3, <1>4, <1>5, <1>6, <1>7, <1>8, <1>9, <1>10, <1>11, <1>12, <1>13,
      <1>14, <1>15, <1>16, <1>17, <1>18, <1>19, <1>20, <1>21, <1>22, <1>23, <1>24,
      <1>25, <1>26, <1>27, <1>28 DEF Next, SenderStep, ThreadStep


-------------------------------------------------------------------------------
(* What holds when the simulator behaves *)

\* RefInv speaks of nothing but the events and who holds them.
LEMMA RefFrame ==
  ASSUME RefInv, UNCHANGED <<ticket, alive, refcnt, state, queue, gotten, sev, rev>>,
         \A s \in Senders : /\ (spc[s] \in Waiting) <=> (spc'[s] \in Waiting)
                            /\ (spc[s] = "put") <=> (spc'[s] = "put"),
         \A r \in Threads : /\ (rpc[r] \in Working) <=> (rpc'[r] \in Working)
                            /\ (rpc[r] = "put") <=> (rpc'[r] = "put")
  PROVE  RefInv'
<1>1. \A e : /\ SHolds(e) <=> SHolds(e)'
             /\ RHolds(e) <=> RHolds(e)'
             /\ Linked(e) <=> Linked(e)'
  BY DEF SHolds, RHolds, Linked, Waiting
<1>2. (OneHolder /\ HeldInProgress)'
  BY DEF RefInv, OneHolder, HeldInProgress, Working
<1>3. (QueueIsLinked /\ InProgressIsHeld)'
  BY <1>1 DEF RefInv, QueueIsLinked, LinkedOnce, InProgressIsHeld
<1>4. RefsCounted'
  BY <1>1 DEF RefInv, RefsCounted
<1>5. QED
  BY <1>2, <1>3, <1>4 DEF RefInv


LEMMA QueueTickets == ASSUME TypeInv PROVE \A i \in DOMAIN queue : queue[i] \in Tickets
  BY DEF TypeInv, UsimType, EventType

\* put_event by a holder that gives up its reference keeps the count.
LEMMA PutRefsCounted ==
  ASSUME TypeInv, RefsCounted, NEW e \in Tickets, PutEvent(e), ticket' = ticket,
         \A x : (SHolds(x)' => SHolds(x)) /\ (RHolds(x)' => RHolds(x)),
         \/ SHolds(e) /\ ~SHolds(e)'
         \/ RHolds(e) /\ ~RHolds(e)'
  PROVE  RefsCounted'
<1>1. \A x \in Tickets : refcnt'[x] = IF x = e THEN refcnt[x] - 1 ELSE refcnt[x]
  BY DEF PutEvent, TypeInv, UsimType, EventType
<1>2. refcnt[e] \in Int /\ refcnt[e] >= 1
  BY DEF TypeInv, UsimType, EventType, RefsCounted
<1>3. SHolds(e)' \/ RHolds(e)' => refcnt[e] >= 2
  BY DEF RefsCounted
<1>4. \A x \in Tickets : x \in alive' <=> (x \in alive /\ (x = e => refcnt[e] # 1))
  BY DEF PutEvent
<1>5. alive' \subseteq alive
  BY DEF PutEvent
<1>6. QED
  BY <1>1, <1>2, <1>3, <1>4, <1>5 DEF RefsCounted

LEMMA RefStep == ASSUME Behaved, UsimInv, UsimInv', RefInv, [Next]_vars PROVE RefInv'
<1> USE UsimAssumption DEF Tickets, Waiting, Working, modVars, evVars, sndVars,
      rcvVars, simVars, ghosts
<1>1. ASSUME AddAdapter PROVE RefInv'
  BY <1>1, RefFrame DEF AddAdapter
<1>2. ASSUME InitEventQueue PROVE RefInv'
  <2>1. \A e : /\ (SHolds(e) <=> SHolds(e)')
               /\ (RHolds(e) <=> RHolds(e)')
    BY <1>2 DEF InitEventQueue, SHolds, RHolds
  <2>2. OneHolder' /\ HeldInProgress' /\ QueueIsLinked' /\ InProgressIsHeld'
    BY <1>2 DEF InitEventQueue, RefInv, OneHolder, HeldInProgress, QueueIsLinked,
        LinkedOnce,
        InProgressIsHeld
  <2>3. RefsCounted'
    BY <1>2, <2>1 DEF InitEventQueue, RefInv, RefsCounted
  <2>4. QED
    BY <2>2, <2>3 DEF RefInv
<1>3. ASSUME RegisterChrdev PROVE RefInv'
  BY <1>3, RefFrame DEF RegisterChrdev
<1>4. ASSUME Exit PROVE RefInv'
  BY <1>4, RefFrame DEF Exit
<1>5. ASSUME DelAdapter PROVE RefInv'
  BY <1>5, RefFrame DEF DelAdapter
<1>6. ASSUME Open PROVE RefInv'
  BY <1>6, RefFrame DEF Open
<1>7. ASSUME Release PROVE RefInv'
  <2>1. \A r \in Threads : rpc[r] \notin Working /\ rpc'[r] \notin Working
    BY <1>7 DEF Release
  <2>2. \A e : ~RHolds(e)'
    BY <1>7, <2>1 DEF Release, RHolds
  <2>3. \A e : (SHolds(e) <=> SHolds(e)') /\ (Linked(e) <=> Linked(e)')
    BY <1>7 DEF Release, SHolds, Linked
  <2>4. OneHolder' /\ HeldInProgress'
    BY <1>7, <2>1 DEF Release, RefInv, OneHolder, HeldInProgress
  <2>5. QueueIsLinked'
    BY <1>7, <2>3 DEF Release, RefInv, QueueIsLinked, LinkedOnce
  <2>6. InProgressIsHeld'
    <3>1. ~open'
      BY <1>7 DEF Release
    <3>2. QED
      BY <3>1 DEF UsimInv, OrphansCompleted, InProgressIsHeld
  <2>7. \A e \in Orphans : SHolds(e) /\ RHolds(e)
    <3>1. \A e \in Orphans : \E i \in DOMAIN queue : queue[i] = e /\ state[queue[i]] = "IN_PROGRESS"
      BY DEF Orphans, InQueue
    <3>2. QED
      BY <3>1 DEF RefInv, QueueIsLinked, Linked, InProgressIsHeld, SHolds
  <2>8. \A e \in Tickets :
           /\ refcnt'[e] = IF e \in Orphans THEN refcnt[e] - 1 ELSE refcnt[e]
           /\ e \in alive' <=> (e \in alive /\ ~(e \in Orphans /\ refcnt[e] = 1))
    BY <1>7 DEF Release
  <2>9. RefsCounted'
    <3>1. alive' \subseteq alive /\ ticket' = ticket /\ refcnt \in [Tickets -> Int]
      BY <1>7 DEF Release, UsimInv, TypeInv, UsimType, EventType
    <3>2. QED
      BY <2>2, <2>3, <2>7, <2>8, <3>1 DEF RefInv, RefsCounted
  <2>10. QED
    BY <2>4, <2>5, <2>6, <2>9 DEF RefInv
<1>8. ASSUME NEW s \in Senders, GetAdapter(s) PROVE RefInv'
  BY <1>8, RefFrame DEF GetAdapter
<1>9. ASSUME NEW s \in Senders, PutAdapter(s) PROVE RefInv'
  BY <1>9, RefFrame DEF PutAdapter
<1>10. ASSUME NEW s \in Senders, WaitSignal(s) PROVE RefInv'
  BY <1>10, RefFrame DEF WaitSignal, UsimInv, TypeInv, UsimType, SenderType, ThreadType
<1>11. ASSUME NEW s \in Senders, Post(s) PROVE RefInv'
  <2> DEFINE e == ticket + 1
  <2>1. /\ e \in Tickets /\ ticket' = e /\ alive' = alive \union {e}
        /\ refcnt' = [refcnt EXCEPT ![e] = 1] /\ state' = [state EXCEPT ![e] = "READY"]
        /\ queue' = Append(queue, e)
        /\ sev' = [sev EXCEPT ![s] = e] /\ spc' = [spc EXCEPT ![s] = "wait"]
        /\ UNCHANGED <<gotten, rev>> /\ spc[s] = "post"
    BY <1>11 DEF Post, AllocRefcnt, UsimInv, TypeInv, UsimType, EventType
  <2>2. \A r \in Threads : /\ (rpc[r] \in Working) <=> (rpc'[r] \in Working)
                           /\ (rpc[r] = "put") <=> (rpc'[r] = "put")
    BY <1>11 DEF Post, WakePollers, UsimInv, TypeInv, UsimType, ThreadType
  <2> HIDE DEF e
  <2>3. \A x \in Senders : /\ spc'[x] = IF x = s THEN "wait" ELSE spc[x]
                           /\ sev'[x] = IF x = s THEN e ELSE sev[x]
    BY <2>1 DEF UsimInv, TypeInv, UsimType, SenderType
  <2>4. ~SHolds(e) /\ ~RHolds(e) /\ e \notin alive /\ ~Linked(e)
    BY <2>1 DEF e, UsimInv, TypeInv, UsimType, EventType, SendersHave, RefInv,
        RefsCounted,
        SHolds, RHolds, Linked
  <2>5. \A x : /\ SHolds(x)' <=> SHolds(x) \/ x = e
               /\ RHolds(x)' <=> RHolds(x)
               /\ Linked(x)' <=> Linked(x) \/ x = e
    BY <2>1, <2>2, <2>3 DEF SHolds, RHolds, Linked
  <2>6. OneHolder'
    BY <2>1, <2>2, <2>3, <2>4 DEF RefInv, OneHolder, SHolds
  <2>7. HeldInProgress'
    <3>1. \A x : RHolds(x) => x \in Tickets /\ x # e
      BY <2>4 DEF RHolds, UsimInv, TypeInv, UsimType, SimType, ThreadsHave
    <3>2. \A x : RHolds(x) => state'[x] = state[x]
      BY <2>1, <3>1 DEF UsimInv, TypeInv, UsimType, EventType
    <3>3. QED
      BY <2>1, <2>2, <3>2 DEF RefInv, HeldInProgress, RHolds
  <2>8. /\ DOMAIN queue' = DOMAIN queue \union {Len(queue) + 1} /\ queue'[Len(queue) + 1] = e
        /\ Len(queue) + 1 \notin DOMAIN queue
        /\ \A i \in DOMAIN queue : queue'[i] = queue[i]
    BY <2>1 DEF UsimInv, TypeInv, UsimType, EventType
  <2>9. QueueIsLinked'
    <3>1. \A i \in DOMAIN queue : queue[i] # e
      BY <2>4 DEF RefInv, QueueIsLinked
    <3>2. LinkedOnce'
      BY <2>8, <3>1 DEF RefInv, QueueIsLinked, LinkedOnce
    <3>3. QED
      BY <2>5, <2>8, <3>2 DEF RefInv, QueueIsLinked
  <2>10. InProgressIsHeld'
    BY <2>1, <2>5, <2>8 DEF RefInv, InProgressIsHeld, UsimInv, TypeInv, UsimType,
        EventType
  <2>11. RefsCounted'
    <3>1. \A x \in Tickets : refcnt'[x] = IF x = e THEN 1 ELSE refcnt[x]
      BY <2>1 DEF UsimInv, TypeInv, UsimType, EventType
    <3>2. alive' \subseteq 1..ticket'
      BY <2>1 DEF e, RefInv, RefsCounted, UsimInv, TypeInv, UsimType, EventType
    <3>3. QED
      BY <2>1, <2>4, <2>5, <3>1, <3>2 DEF RefInv, RefsCounted
  <2>12. QED
    BY <2>6, <2>7, <2>9, <2>10, <2>11 DEF RefInv
<1>12. ASSUME NEW s \in Senders, AllocFails(s) PROVE RefInv'
  BY <1>12, RefFrame DEF AllocFails, MessageDone, UsimInv, TypeInv, UsimType,
      SenderType, ThreadType
<1>13. ASSUME NEW s \in Senders, WaitDone(s) PROVE RefInv'
  BY <1>13, RefFrame DEF WaitDone, UsimInv, TypeInv, UsimType, SenderType, ThreadType
<1>14. ASSUME NEW s \in Senders, ListDel(s) PROVE RefInv'
  <2>1. \A x \in Senders : spc'[x] = IF x = s THEN "put" ELSE spc[x]
    BY <1>14 DEF ListDel, UsimInv, TypeInv, UsimType, SenderType
  <2>2. \A e : /\ SHolds(e)' <=> SHolds(e)
               /\ RHolds(e)' <=> RHolds(e)
               /\ Linked(e) /\ e # sev[s] => Linked(e)'
    BY <1>14, <2>1 DEF ListDel, SHolds, RHolds, Linked
  <2>3. OneHolder' /\ HeldInProgress'
    BY <1>14, <2>1 DEF ListDel, RefInv, OneHolder, HeldInProgress
  <2>4. QueueIsLinked' /\ InProgressIsHeld'
    BY <1>14, <2>2, ListDelFacts DEF ListDel, UsimInv, RefInv, QueueIsLinked,
        InProgressIsHeld
  <2>5. RefsCounted'
    BY <1>14, <2>2 DEF ListDel, RefInv, RefsCounted
  <2>6. QED
    BY <2>3, <2>4, <2>5 DEF RefInv
<1>15. ASSUME NEW s \in Senders, SenderPut(s) PROVE RefInv'
  <2>0. PICK e \in 0..MaxTicket : e = sev[s]
    BY DEF UsimInv, TypeInv, UsimType, SenderType
  <2>1. e \in Tickets /\ SHolds(e)
    BY <1>15, <2>0 DEF SenderPut, UsimInv, TypeInv, UsimType, EventType, SendersHave,
        SHolds
  <2>2. /\ PutEvent(e)
        /\ UNCHANGED <<ticket, state, queue, rpc, rev, gotten>>
    BY <1>15, <2>0 DEF SenderPut
  <2>3. /\ spc'[s] \notin Waiting /\ spc[s] = "put"
        /\ \A x \in Senders : x # s => spc'[x] = spc[x] /\ sev'[x] = sev[x]
    BY <1>15 DEF SenderPut, MessageDone, UsimInv, TypeInv, UsimType, SenderType
  <2>4. ~SHolds(e)'
    BY <2>0, <2>3 DEF SHolds, RefInv, OneHolder
  <2>5. \A x : /\ SHolds(x)' => SHolds(x)
               /\ RHolds(x)' <=> RHolds(x)
               /\ Linked(x) => Linked(x)'
    BY <2>2, <2>3 DEF SHolds, RHolds, Linked
  <2>6. OneHolder' /\ HeldInProgress'
    BY <2>2, <2>3 DEF RefInv, OneHolder, HeldInProgress
  <2>7. QueueIsLinked' /\ InProgressIsHeld'
    BY <2>2, <2>5 DEF RefInv, QueueIsLinked, LinkedOnce, InProgressIsHeld
  <2>8. RefsCounted'
    BY <2>1, <2>2, <2>4, <2>5, PutRefsCounted DEF UsimInv, RefInv
  <2>9. QED
    BY <2>6, <2>7, <2>8 DEF RefInv
<1>16. ASSUME NEW s \in Senders, SenderReturn(s) PROVE RefInv'
  BY <1>16, RefFrame DEF SenderReturn, UsimInv, TypeInv, UsimType, SenderType, ThreadType
<1>17. ASSUME NEW s \in Senders, NEW n \in 1..MaxMsgs, Begin(s, n) PROVE RefInv'
  BY <1>17, RefFrame DEF Begin, UsimInv, TypeInv, UsimType, SenderType, ThreadType
<1>18. ASSUME NEW r \in Threads, PollWait(r) PROVE RefInv'
  BY <1>18, RefFrame DEF PollWait, UsimInv, TypeInv, UsimType, SenderType, ThreadType
<1>19. ASSUME NEW r \in Threads, Get(r) PROVE RefInv'
  <2>1. PICK i \in DOMAIN queue :
           /\ state[queue[i]] = "READY"
           /\ state' = [state EXCEPT ![queue[i]] = "IN_PROGRESS"]
           /\ GetEvent(queue[i])
           /\ rev' = [rev EXCEPT ![r] = queue[i]]
    BY <1>19 DEF Get, Gettable
  <2>0. PICK e : e = queue[i]
    OBVIOUS
  <2>2. e \in Tickets /\ SHolds(e)
    BY <2>0, <2>1, QueueTickets DEF UsimInv, RefInv, QueueIsLinked, Linked, SHolds
  <2>3. /\ \A x \in Tickets : /\ state'[x] = IF x = e THEN "IN_PROGRESS" ELSE state[x]
                              /\ refcnt'[x] = IF x = e THEN refcnt[x] + 1 ELSE refcnt[x]
        /\ \A q \in Threads : /\ rpc'[q] = IF q = r THEN "copy" ELSE rpc[q]
                              /\ rev'[q] = IF q = r THEN e ELSE rev[q]
        /\ rpc[r] = "idle" /\ UNCHANGED <<ticket, alive, queue, spc, sev, gotten>>
    BY <1>19, <2>0, <2>1, <2>2 DEF Get, GetEvent, UsimInv, TypeInv, UsimType,
        EventType, ThreadType
  <2>4. state[e] = "READY"
    BY <2>0, <2>1
  <2>5. \A j \in DOMAIN queue : queue[j] \in Tickets
    BY QueueTickets DEF UsimInv
  <2>6. /\ gotten \subseteq Tickets /\ refcnt[e] \in Int
        /\ \A q \in Threads : rpc[q] \in Working => rev[q] \in Tickets
    BY <2>2 DEF UsimInv, TypeInv, UsimType, EventType, SimType, ThreadsHave
  <2>7. ~RHolds(e)
    BY <2>4 DEF RHolds, RefInv, HeldInProgress
  <2>8. \A x : /\ SHolds(x)' <=> SHolds(x)
               /\ RHolds(x)' <=> RHolds(x) \/ x = e
               /\ Linked(x)' <=> Linked(x)
    BY <2>3 DEF SHolds, RHolds, Linked
  <2>9. OneHolder'
    BY <2>3, <2>7 DEF RefInv, OneHolder, RHolds
  <2>9a. HeldInProgress'
    <3>1. \A x : RHolds(x) => x \in Tickets /\ state'[x] = state[x]
      BY <2>3, <2>6, <2>7 DEF RHolds
    <3>2. state'[e] = "IN_PROGRESS"
      BY <2>2, <2>3
    <3>3. QED
      BY <2>3, <3>1, <3>2 DEF RefInv, HeldInProgress, RHolds
  <2>10. QueueIsLinked'
    BY <2>3, <2>8 DEF RefInv, QueueIsLinked, LinkedOnce
  <2>11. InProgressIsHeld'
    BY <2>3, <2>5, <2>8 DEF RefInv, InProgressIsHeld
  <2>12. RefsCounted'
    BY <2>2, <2>3, <2>6, <2>7, <2>8 DEF RefInv, RefsCounted
  <2>13. QED
    BY <2>9, <2>9a, <2>10, <2>11, <2>12 DEF RefInv
<1>20. ASSUME NEW r \in Threads, GetNone(r) PROVE RefInv'
  BY <1>20, RefFrame DEF GetNone
<1>21. ASSUME NEW r \in Threads, PollCheck(r) PROVE RefInv'
  BY <1>21, RefFrame DEF PollCheck, UsimInv, TypeInv, UsimType, SenderType, ThreadType
<1>22. ASSUME NEW r \in Threads, GetCopied(r) PROVE RefInv'
  <2>1. /\ \A q \in Threads : /\ rpc'[q] = IF q = r THEN "idle" ELSE rpc[q]
                              /\ q # r => rev'[q] = rev[q]
        /\ rpc[r] = "copy" /\ gotten' = gotten \union {rev[r]}
        /\ UNCHANGED <<ticket, alive, refcnt, state, queue, spc, sev>>
    BY <1>22 DEF GetCopied, UsimInv, TypeInv, UsimType, ThreadType
  <2>2. \A x : /\ SHolds(x)' <=> SHolds(x)
               /\ RHolds(x)' <=> RHolds(x)
               /\ Linked(x)' <=> Linked(x)
    BY <2>1 DEF SHolds, RHolds, Linked
  <2>3. OneHolder' /\ HeldInProgress'
    BY <2>1 DEF RefInv, OneHolder, HeldInProgress
  <2>4. QueueIsLinked' /\ InProgressIsHeld'
    BY <2>1, <2>2 DEF RefInv, QueueIsLinked, LinkedOnce, InProgressIsHeld
  <2>5. RefsCounted'
    BY <2>1, <2>2 DEF RefInv, RefsCounted
  <2>6. QED
    BY <2>3, <2>4, <2>5 DEF RefInv
<1>23. ASSUME NEW r \in Threads, GetFault(r) PROVE RefInv'
  BY <1>23, RefFrame DEF GetFault, UsimInv, TypeInv, UsimType, SenderType, ThreadType
<1>24. ASSUME NEW r \in Threads, Fill(r) PROVE RefInv'
  BY <1>24, RefFrame DEF Fill, UsimInv, TypeInv, UsimType, SenderType, ThreadType
<1>25. ASSUME NEW r \in Threads, Complete(r) PROVE RefInv'
  <2> DEFINE e == rev[r]
  <2>1. /\ e \in Tickets /\ e \notin gotten /\ rpc[r] = "complete"
        /\ UNCHANGED <<ticket, alive, refcnt, queue, spc, sev, rev, gotten>>
    BY <1>25 DEF Complete, UsimInv, TypeInv, ThreadsHave, RefInv, OneHolder
  <2>2. /\ \A x \in Tickets : state'[x] = IF x = e THEN "DONE" ELSE state[x]
        /\ \A q \in Threads : rpc'[q] = IF q = r THEN "put" ELSE rpc[q]
    BY <1>25, <2>1 DEF Complete, UsimInv, TypeInv, UsimType, EventType, ThreadType
  <2>3. /\ gotten \subseteq Tickets
        /\ \A q \in Threads : rpc[q] \in Working => rev[q] \in Tickets
        /\ \A j \in DOMAIN queue : queue[j] \in Tickets
    BY DEF UsimInv, TypeInv, UsimType, EventType, SimType, ThreadsHave
  <2>4. \A x : /\ SHolds(x)' <=> SHolds(x)
               /\ RHolds(x)' <=> RHolds(x)
               /\ Linked(x)' <=> Linked(x)
    BY <2>1, <2>2 DEF SHolds, RHolds, Linked
  <2>5. OneHolder' /\ HeldInProgress'
    <3>1. OneHolder'
      BY <2>1, <2>2 DEF RefInv, OneHolder
    <3>2. \A q \in Threads : rpc[q] \in Working /\ q # r => rev[q] # e
      BY <2>1 DEF RefInv, OneHolder
    <3>3. HeldInProgress'
      BY <2>1, <2>2, <2>3, <3>2 DEF RefInv, HeldInProgress
    <3>4. QED
      BY <3>1, <3>3
  <2>6. QueueIsLinked' /\ InProgressIsHeld'
    BY <2>1, <2>2, <2>3, <2>4 DEF RefInv, QueueIsLinked, LinkedOnce, InProgressIsHeld
  <2>7. RefsCounted'
    BY <2>1, <2>4 DEF RefInv, RefsCounted
  <2>8. QED
    BY <2>5, <2>6, <2>7 DEF RefInv
<1>26. ASSUME NEW r \in Threads, CompletePut(r) PROVE RefInv'
  <2>0. PICK e \in 0..MaxTicket : e = rev[r]
    BY DEF UsimInv, TypeInv, UsimType, ThreadType
  <2>1. e \in Tickets /\ RHolds(e) /\ rpc[r] = "put"
    BY <1>26, <2>0 DEF CompletePut, UsimInv, TypeInv, ThreadsHave, RHolds
  <2>2. PutEvent(e) /\ UNCHANGED <<ticket, state, queue, spc, sev, gotten>>
    BY <1>26, <2>0 DEF CompletePut
  <2>3. \A q \in Threads : /\ rpc'[q] = IF q = r THEN "idle" ELSE rpc[q]
                           /\ q # r => rev'[q] = rev[q]
    BY <1>26 DEF CompletePut, UsimInv, TypeInv, UsimType, ThreadType
  <2>4. e \notin gotten /\ state[e] = "DONE"
    BY <2>0, <2>1 DEF RefInv, OneHolder, HeldInProgress
  <2>5. ~RHolds(e)'
    BY <2>0, <2>1, <2>2, <2>3, <2>4 DEF RHolds, RefInv, OneHolder
  <2>6. \A x : /\ SHolds(x)' <=> SHolds(x)
               /\ RHolds(x)' => RHolds(x)
               /\ RHolds(x) /\ x # e => RHolds(x)'
               /\ Linked(x) <=> Linked(x)'
    BY <2>0, <2>2, <2>3 DEF SHolds, RHolds, Linked
  <2>7. OneHolder' /\ HeldInProgress'
    BY <2>2, <2>3 DEF RefInv, OneHolder, HeldInProgress
  <2>8. QueueIsLinked' /\ InProgressIsHeld'
    BY <2>2, <2>4, <2>6 DEF RefInv, QueueIsLinked, LinkedOnce, InProgressIsHeld
  <2>9. RefsCounted'
    BY <2>1, <2>2, <2>5, <2>6, PutRefsCounted DEF UsimInv, RefInv
  <2>10. QED
    BY <2>7, <2>8, <2>9 DEF RefInv
<1>27. ASSUME NEW r \in Threads, NEW e \in Tickets, PutLookup(r, e) PROVE RefInv'
  <2>1. e \in gotten /\ RHolds(e) /\ rpc[r] = "idle"
    BY <1>27 DEF PutLookup, MayPut, RHolds
  <2>2. UNCHANGED <<ticket, alive, refcnt, state, queue, spc, sev>> /\ gotten' = gotten \ {e}
    BY <1>27 DEF PutLookup
  <2>3. \A x : (SHolds(x)' <=> SHolds(x)) /\ (Linked(x)' <=> Linked(x))
    BY <2>2 DEF SHolds, Linked
  <2>4. CASE InQueue(e)
    <3>1. \A q \in Threads : /\ rpc'[q] = IF q = r THEN "fill" ELSE rpc[q]
                             /\ rev'[q] = IF q = r THEN e ELSE rev[q]
      BY <1>27, <2>4 DEF PutLookup, UsimInv, TypeInv, UsimType, ThreadType
    <3>2. \A x : RHolds(x)' <=> RHolds(x)
      BY <2>1, <2>2, <3>1 DEF RHolds
    <3>3. OneHolder' /\ HeldInProgress'
      BY <2>1, <2>2, <3>1 DEF RefInv, OneHolder, HeldInProgress
    <3>4. QueueIsLinked' /\ InProgressIsHeld'
      BY <2>2, <2>3, <3>2 DEF RefInv, QueueIsLinked, LinkedOnce, InProgressIsHeld
    <3>5. RefsCounted'
      BY <2>2, <2>3, <3>2 DEF RefInv, RefsCounted
    <3>6. QED
      BY <3>3, <3>4, <3>5 DEF RefInv
  <2>5. CASE ~InQueue(e)
    <3>1. UNCHANGED <<rpc, rev>>
      BY <1>27, <2>5 DEF PutLookup
    <3>2. \A x : /\ RHolds(x)' => RHolds(x)
                 /\ RHolds(x) /\ x # e => RHolds(x)'
      BY <2>2, <3>1 DEF RHolds
    <3>3. OneHolder' /\ HeldInProgress'
      BY <2>2, <3>1 DEF RefInv, OneHolder, HeldInProgress
    <3>4. QueueIsLinked' /\ InProgressIsHeld'
      BY <2>2, <2>3, <2>5, <3>2 DEF RefInv, QueueIsLinked, LinkedOnce,
          InProgressIsHeld, InQueue
    <3>5. RefsCounted'
      BY <2>2, <2>3, <3>2 DEF RefInv, RefsCounted
    <3>6. QED
      BY <3>3, <3>4, <3>5 DEF RefInv
  <2>6. QED
    BY <2>4, <2>5
<1>28. CASE UNCHANGED vars
  BY <1>28, RefFrame DEF vars
<1>29. QED
  BY <1>1, <1>2, <1>3, <1>4, <1>5, <1>6, <1>7, <1>8, <1>9, <1>10, <1>11, <1>12, <1>13,
      <1>14, <1>15, <1>16, <1>17, <1>18, <1>19, <1>20, <1>21, <1>22, <1>23, <1>24,
      <1>25, <1>26, <1>27, <1>28 DEF Next, SenderStep, ThreadStep

-------------------------------------------------------------------------------
(* The theorems *)

LEMMA UsimInit == ASSUME Init PROVE UsimInv /\ RefInv
<1> USE UsimAssumption DEF Init, Tickets, Waiting, Working
<1>1. UsimType
  <2>0. loads \in 0..MaxLoads /\ kills \in 0..MaxKills /\ open = FALSE /\ gotten = {}
    OBVIOUS
  <2>1. ModType /\ SimType
    BY <2>0 DEF ModType, SimType
  <2>2. EventType
    BY DEF EventType
  <2>3. SenderType /\ ThreadType
    BY DEF SenderType, ThreadType
  <2>4. QED
    BY <2>1, <2>2, <2>3 DEF UsimType
<1>2. UsimInv
  BY <1>1 DEF UsimInv, TypeInv, SendersHave, ThreadsHave, StaysLoaded, ClosedIsIdle,
      DoneIsServed, SuccessMeansServed, OrphansCompleted
<1>3. \A e : ~SHolds(e) /\ ~RHolds(e)
  BY DEF SHolds, RHolds
<1>4. OneHolder /\ HeldInProgress /\ QueueIsLinked /\ InProgressIsHeld
  BY DEF OneHolder, HeldInProgress, QueueIsLinked, LinkedOnce, InProgressIsHeld
<1>5. RefsCounted
  BY <1>3 DEF RefsCounted
<1>6. QED
  BY <1>2, <1>4, <1>5 DEF RefInv

LEMMA UsimInvariant == Spec => []UsimInv
<1>1. Init => UsimInv
  BY UsimInit
<1>2. UsimInv /\ [Next]_vars => UsimInv'
  BY TypeStep, UsimStep DEF UsimInv
<1>3. QED
  BY <1>1, <1>2, PTL DEF Spec

LEMMA RefInvariant == Behaved /\ Spec => []RefInv
<1>1. Init => RefInv
  BY UsimInit
<1>2. Behaved /\ UsimInv /\ UsimInv' /\ RefInv /\ [Next]_vars => RefInv'
  BY RefStep
<1>3. Behaved => Behaved'
  OBVIOUS
<1>4. QED
  BY <1>1, <1>2, <1>3, UsimInvariant, PTL DEF Spec

\* Whatever the simulator does: a message is a success only if its event was PUT with
\* its data (the status of complete_event and of i2c_usim_release), and once the device
\* is closed no event on the queue is in progress.
THEOREM SuccessIsServed == Spec => [](SuccessMeansServed /\ OrphansCompleted)
<1>1. UsimInv => SuccessMeansServed /\ OrphansCompleted
  BY DEF UsimInv
<1>2. QED
  BY <1>1, UsimInvariant, PTL

LEMMA HeldIsAlive ==
  ASSUME UsimInv, RefInv PROVE \A e \in Tickets : SHolds(e) \/ RHolds(e) => e \in alive
  BY DEF RefInv, RefsCounted, UsimInv, TypeInv, UsimType, EventType

\* A simulator that PUTs only what it got, and once, cannot make the driver use an event
\* that put_event freed, whatever is interrupted, killed or unloaded; the reference
\* counts never drop below zero.
THEOREM EventsSafe == Behaved /\ Spec => [](TypeOK /\ NoUseAfterFree)
<1>1. UsimInv /\ RefInv => TypeOK
  <2> SUFFICES ASSUME UsimInv, RefInv PROVE TypeOK
    OBVIOUS
  <2>1. refcnt \in [Tickets -> Nat]
    BY DEF UsimInv, TypeInv, UsimType, EventType, RefInv, RefsCounted
  <2>2. QED
    BY <2>1 DEF TypeOK, UsimInv, TypeInv, UsimType, ModType, EventType, SenderType,
        ThreadType, SimType
<1>2. UsimInv /\ RefInv => NoUseAfterFree
  <2> SUFFICES ASSUME UsimInv, RefInv PROVE NoUseAfterFree
    OBVIOUS
  <2>1. \A s \in Senders : spc[s] \in Waiting => sev[s] \in alive
    <3>1. \A s \in Senders : spc[s] \in Waiting => sev[s] \in Tickets
      BY UsimAssumption DEF UsimInv, TypeInv, UsimType, EventType, SendersHave, Tickets
    <3>2. QED
      BY <3>1, HeldIsAlive DEF SHolds
  <2>2. \A r \in Threads : rpc[r] \in Working => rev[r] \in alive
    BY HeldIsAlive DEF RHolds, UsimInv, TypeInv, ThreadsHave
  <2>3. \A i \in DOMAIN queue : queue[i] \in alive
    BY QueueTickets, HeldIsAlive DEF UsimInv, RefInv, QueueIsLinked, Linked, SHolds,
        Waiting
  <2>4. QED
    BY <2>1, <2>2, <2>3 DEF NoUseAfterFree, Waiting, Working, UsimInv, StaysLoaded
<1>3. QED
  BY <1>1, <1>2, UsimInvariant, RefInvariant, PTL

\* The same simulator takes every posted event through READY, IN_PROGRESS and DONE, in
\* this order: get_1st_ready_event, complete_event and i2c_usim_release never move one
\* back or complete it twice.
THEOREM EventStates == Behaved /\ Spec => StateMachine
<1> DEFINE Moves ==
      \A e \in alive : <<state[e], state'[e]>> \in
        {<<"READY", "READY">>, <<"READY", "IN_PROGRESS">>,
         <<"IN_PROGRESS", "IN_PROGRESS">>, <<"IN_PROGRESS", "DONE">>,
         <<"DONE", "DONE">>}
<1>1. ASSUME Behaved, UsimInv, RefInv, Next PROVE Moves
  <2> USE DEF modVars, evVars, sndVars, rcvVars, simVars, ghosts
  <2>1. \A e \in alive : e \in Tickets /\ state[e] \in {"READY", "IN_PROGRESS", "DONE"}
    BY <1>1 DEF UsimInv, TypeInv, UsimType, EventType
  <2>2. CASE UNCHANGED state
    BY <2>1, <2>2
  <2>3. ASSUME NEW s \in Senders, Post(s) PROVE Moves
    <3>1. ticket + 1 \notin alive /\ state' = [state EXCEPT ![ticket + 1] = "READY"]
      BY <1>1, <2>3 DEF Post, RefInv, RefsCounted, UsimInv, TypeInv, UsimType, EventType
    <3>2. \A e \in alive : state'[e] = state[e]
      BY <1>1, <2>1, <3>1 DEF UsimInv, TypeInv, UsimType, EventType
    <3>3. QED
      BY <2>1, <3>2
  <2>4. ASSUME NEW r \in Threads, Get(r) PROVE Moves
    <3>1. PICK i \in DOMAIN queue : /\ state[queue[i]] = "READY"
                                    /\ state' = [state EXCEPT ![queue[i]] = "IN_PROGRESS"]
      BY <2>4 DEF Get, Gettable
    <3>2. \A e \in alive : state'[e] = IF e = queue[i] THEN "IN_PROGRESS" ELSE state[e]
      BY <1>1, <2>1, <3>1 DEF UsimInv, TypeInv, UsimType, EventType
    <3>3. QED
      BY <2>1, <3>1, <3>2
  <2>5. ASSUME NEW r \in Threads, Complete(r) PROVE Moves
    <3>1. state[rev[r]] = "IN_PROGRESS" /\ state' = [state EXCEPT ![rev[r]] = "DONE"]
      BY <1>1, <2>5 DEF Complete, RefInv, HeldInProgress
    <3>2. \A e \in alive : state'[e] = IF e = rev[r] THEN "DONE" ELSE state[e]
      BY <1>1, <2>1, <3>1 DEF UsimInv, TypeInv, UsimType, EventType
    <3>3. QED
      BY <2>1, <3>1, <3>2
  <2>6. CASE Release
    <3>1. \A e \in alive : state'[e] = IF e \in Orphans THEN "DONE" ELSE state[e]
      BY <2>1, <2>6 DEF Release
    <3>2. \A e \in Orphans : state[e] = "IN_PROGRESS"
      BY DEF Orphans
    <3>3. QED
      BY <2>1, <3>1, <3>2
  <2>7. \/ UNCHANGED state \/ Release
        \/ \E s \in Senders : Post(s)
        \/ \E r \in Threads : Get(r) \/ Complete(r)
    BY <1>1 DEF Next, SenderStep, ThreadStep, AddAdapter, InitEventQueue, RegisterChrdev,
        Exit, DelAdapter, GetAdapter, PutAdapter, Begin, WaitSignal, AllocFails, WaitDone,
        ListDel, SenderPut, SenderReturn, PollWait, GetNone, PutLookup, PollCheck,
        GetCopied, GetFault, Fill, CompletePut, Open
  <2>8. QED
    BY <2>2, <2>3, <2>4, <2>5, <2>6, <2>7
<1>2. Behaved /\ UsimInv /\ RefInv /\ [Next]_vars => [Moves]_vars
  BY <1>1
<1>3. Behaved => Behaved'
  OBVIOUS
<1>4. QED
  BY <1>2, <1>3, UsimInvariant, RefInvariant, PTL DEF Spec, StateMachine
===============================================================================
