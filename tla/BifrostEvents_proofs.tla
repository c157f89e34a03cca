------------------------- MODULE BifrostEvents_proofs -------------------------
(***************************************************************************)
(* Event delivery: the bounded lists, the order of the events on them,     *)
(* which file a DMA_DONE event reaches, and the poller's wake-up, for any  *)
(* number of files, handle addresses, interrupt sources and events.        *)
(***************************************************************************)
EXTENDS BifrostEvents, TLAPS, SequenceTheorems

HasHandle(f) == fstate[f] \in {"open", "unlinked"}
Delivering == worker # WorkerIdle

\* The worker is idle, or it delivers an event that an interrupt raised.
WorkerType ==
    worker \in {WorkerIdle} \union
               [ev : Event, todo : SUBSET Addrs, wake : Addrs \union {NULL}]

EvType == TypeOK /\ WorkerType

\* Two files that are not closed yet have two handles.
OneHandle ==
    /\ \A f \in Files : HasHandle(f) => addr[f] \in Addrs
    /\ \A f, g \in Files : HasHandle(f) /\ HasHandle(g) /\ addr[f] = addr[g] => f = g

\* bifrost->list holds the handles of the open files, and the worker, which holds
\* lock_list, is about to visit some of them.
ListIsOpen == list = {addr[f] : f \in {g \in Files : fstate[g] = "open"}}
WorkerOnList == worker.todo \subseteq list
PollsAreOpen == \A f \in Files : poll[f] # "none" => fstate[f] = "open"

HandlesInv == OneHandle /\ ListIsOpen /\ WorkerOnList /\ PollsAreOpen

\* Memory that is nobody's handle has no events.
UnusedIsEmpty == \A a \in Addrs \ InUse : evq[a] = <<>> /\ count[a] = 0

\* Events move from work_queue to the worker and to the handles without overtaking
\* each other.
EventsOrdered ==
    /\ \A i, j \in 1..Len(workq) : i < j => Before(workq[i], workq[j])
    /\ \A i \in 1..Len(workq) : workq[i].n <= raised /\ Before(worker.ev, workq[i])
    /\ worker.ev.n <= raised
    /\ \A a \in Addrs : \A i \in 1..Len(evq[a]) :
         /\ evq[a][i].n <= raised
         /\ a \in worker.todo => Before(evq[a][i], worker.ev)
         /\ \A j \in 1..Len(workq) : Before(evq[a][i], workq[j])

\* The event a handler is still to queue may come after all events that were queued,
\* and after those of the other handlers: whatever is younger than it knows of it.
HandlersBehind ==
    \A v \in Running :
      /\ isr[v].ev.n <= raised
      /\ \A i \in 1..Len(workq) : Before(workq[i], isr[v].ev)
      /\ Before(worker.ev, isr[v].ev)
      /\ \A a \in Addrs : \A i \in 1..Len(evq[a]) : Before(evq[a][i], isr[v].ev)
      /\ \A w \in Running \ {v} : Before(isr[w].ev, isr[v].ev)

OrderInv == EventsOrdered /\ HandlersBehind /\ HandledInOrder

\* A DMA_DONE event has the handle of the file that started the transfer as its
\* cookie, and is only queued on the handle with that address.
Cookie(e) ==
    e.type = "dma" => e.who \in Files /\ addr[e.who] = e.arg /\ fstate[e.who] # "new"

CookiesMatch ==
    /\ \A x \in dma : addr[x.who] = x.cookie /\ fstate[x.who] # "new"
    /\ \A v \in Vectors : Cookie(isr[v].ev)
    /\ \A i \in 1..Len(workq) : Cookie(workq[i])
    /\ Cookie(worker.ev)
    /\ \A a \in Addrs : \A i \in 1..Len(evq[a]) :
         Cookie(evq[a][i]) /\ (evq[a][i].type = "dma" => evq[a][i].arg = a)

-------------------------------------------------------------------------------
(* What the operations do *)

LEMMA TailFacts ==
  ASSUME NEW S, NEW q \in Seq(S), q # <<>>
  PROVE  /\ Head(q) \in S /\ Head(q) = q[1] /\ 1 \in 1..Len(q)
         /\ Tail(q) \in Seq(S) /\ Len(Tail(q)) = Len(q) - 1
         /\ \A i \in 1..Len(Tail(q)) : i + 1 \in 1..Len(q) /\ Tail(q)[i] = q[i + 1]
<1>1. Len(q) \in Nat /\ Len(q) > 0
  BY EmptySeq
<1> QED BY <1>1, HeadTailProperties

LEMMA AppendFacts ==
  ASSUME NEW S, NEW q \in Seq(S), NEW e \in S
  PROVE  /\ Append(q, e) \in Seq(S) /\ Len(Append(q, e)) = Len(q) + 1
         /\ Append(q, e)[Len(q) + 1] = e
         /\ \A i \in 1..Len(Append(q, e)) :
              i # Len(q) + 1 => i \in 1..Len(q) /\ Append(q, e)[i] = q[i]
BY AppendProperties

\* A queued event has a number, and so has the one the worker delivers.
LEMMA EventFacts ==
  ASSUME EvType
  PROVE  /\ \A i \in 1..Len(workq) : workq[i] \in Event
         /\ \A a \in Addrs : \A i \in 1..Len(evq[a]) : evq[a][i] \in Event
         /\ worker.ev.n \in Nat /\ raised \in Nat
         /\ \A e \in Event : e.n \in Nat /\ e.n > 0
         /\ Delivering => worker.ev \in Event
         /\ \A v \in Running : v \in Vectors /\ isr[v] \in [ev : Event, mem : BOOLEAN]
         /\ ~Delivering => worker.todo = {} /\ worker.wake = NULL /\ worker.ev = NoEvent
<1>1. \A e \in Event : e.n \in Nat /\ e.n > 0
  BY EventsAssumption DEF Event
<1>2. worker.ev \in Event \/ worker.ev = NoEvent
  BY DEF EvType, WorkerType, WorkerIdle
<1>3. worker.ev.n \in Nat
  BY <1>1, <1>2 DEF NoEvent
<1>4. Delivering => worker.ev \in Event
  BY DEF EvType, WorkerType, Delivering
<1>5. raised \in Nat
  BY EventsAssumption DEF EvType, TypeOK
<1>6. \A a \in Addrs : \A i \in 1..Len(evq[a]) : evq[a][i] \in Event
  BY DEF EvType, TypeOK
<1>7. \A v \in Running : v \in Vectors /\ isr[v] \in [ev : Event, mem : BOOLEAN]
  BY DEF EvType, TypeOK, Running
<1> QED BY <1>1, <1>3, <1>4, <1>5, <1>6, <1>7 DEF EvType, TypeOK, Delivering, WorkerIdle

\* A handler that starts has an event that knows all handlers that run.
LEMMA RaiseFacts ==
  ASSUME EvType, NEW v \in Vectors, NEW e, e.type \in EventTypes,
         e.arg \in Sources \union Addrs, e.who \in Files \union {NULL}, Raise(v, e)
  PROVE  /\ raised' = raised + 1 /\ raised' \in 0..MaxEvents
         /\ v \notin Running /\ Running' = Running \union {v}
         /\ isr' \in [Vectors -> [ev : Event, mem : BOOLEAN] \union {HandlerIdle}]
         /\ \A w \in Vectors \ {v} : isr'[w] = isr[w]
         /\ isr'[v].ev.n = raised + 1 /\ isr'[v].ev.type = e.type
         /\ isr'[v].ev.arg = e.arg /\ isr'[v].ev.who = e.who
         /\ \A w \in Running : isr[w].ev.n \in isr'[v].ev.beside
         /\ UNCHANGED <<handleVars, queueVars, pollVars, workq, worker, reserve>>
<1> USE EventsAssumption
<1> DEFINE beside == {isr[w].ev.n : w \in Running}
           new == [ev |-> [n |-> raised + 1, type |-> e.type, arg |-> e.arg,
                           who |-> e.who, beside |-> beside], mem |-> FALSE]
<1>1. raised \in Nat /\ raised' = raised + 1 /\ raised + 1 \in 1..MaxEvents
  BY DEF Raise, EvType, TypeOK
<1>2. beside \in SUBSET (1..MaxEvents)
  BY EventFacts DEF Event
<1>3. new.ev \in Event /\ new \in [ev : Event, mem : BOOLEAN]
  BY <1>1, <1>2 DEF Event
<1>4. new # HandlerIdle /\ new.ev.n = raised + 1
  BY <1>1 DEF HandlerIdle, NoEvent
<1>5. isr' = [isr EXCEPT ![v] = new]
  BY DEF Raise
<1>6. isr \in [Vectors -> [ev : Event, mem : BOOLEAN] \union {HandlerIdle}]
  BY DEF EvType, TypeOK
<1>7. /\ isr' \in [Vectors -> [ev : Event, mem : BOOLEAN] \union {HandlerIdle}]
      /\ isr'[v] = new /\ \A w \in Vectors \ {v} : isr'[w] = isr[w]
  <2> HIDE DEF new
  <2> QED BY <1>3, <1>5, <1>6
<1>8. v \notin Running /\ Running' = Running \union {v}
  <2> HIDE DEF new
  <2> QED BY <1>4, <1>7 DEF Raise, Running
<1> QED
  BY <1>1, <1>4, <1>7, <1>8 DEF Raise

\* bifrost_create_event_in_atomic takes memory, drops the event, or appends it.
LEMMA PostFacts ==
  ASSUME EvType, NEW v \in Vectors, AllocWork(v) \/ QueueWork(v)
  PROVE  /\ v \in Running /\ isr[v].ev \in Event
         /\ isr' \in [Vectors -> [ev : Event, mem : BOOLEAN] \union {HandlerIdle}]
         /\ \A w \in Vectors \ {v} : isr'[w] = isr[w]
         /\ isr'[v] = HandlerIdle \/ isr'[v].ev = isr[v].ev
         /\ Running' \subseteq Running
         /\ \/ workq' = workq
            \/ /\ workq' = Append(workq, isr[v].ev)
               /\ v \notin Running'
         /\ workq' \in Seq(Event) /\ reserve' \in 0..PoolMin
         /\ UNCHANGED <<handleVars, queueVars, pollVars, dma, worker, raised>>
<1> USE EventsAssumption
<1>1. isr \in [Vectors -> [ev : Event, mem : BOOLEAN] \union {HandlerIdle}] /\ workq \in Seq(Event)
  BY DEF EvType, TypeOK
<1>2. v \in Running
  BY DEF AllocWork, QueueWork, Running, HandlerIdle
<1>3. isr[v] \in [ev : Event, mem : BOOLEAN]
  BY <1>2, EventFacts
<1>4. \/ isr' = [isr EXCEPT ![v].mem = TRUE]
      \/ isr' = [isr EXCEPT ![v] = HandlerIdle]
  BY DEF AllocWork, QueueWork
<1>5. /\ isr' \in [Vectors -> [ev : Event, mem : BOOLEAN] \union {HandlerIdle}]
      /\ \A w \in Vectors \ {v} : isr'[w] = isr[w]
      /\ isr'[v] = HandlerIdle \/ isr'[v].ev = isr[v].ev
  BY <1>1, <1>3, <1>4
<1>6. Running' \subseteq Running
  BY <1>2, <1>5 DEF Running
<1>7. /\ workq' = workq \/ (workq' = Append(workq, isr[v].ev) /\ v \notin Running')
      /\ workq' \in Seq(Event)
  <2>1. Append(workq, isr[v].ev) \in Seq(Event)
    BY <1>1, <1>3
  <2>2. CASE QueueWork(v)
    BY <1>1, <2>1, <2>2 DEF QueueWork, Running
  <2>3. CASE AllocWork(v)
    BY <1>1, <2>3 DEF AllocWork
  <2>4. QED
    BY <2>2, <2>3
<1>8. reserve' \in 0..PoolMin
  BY DEF AllocWork, QueueWork, EvType, TypeOK
<1>9. UNCHANGED <<handleVars, queueVars, pollVars, dma, worker, raised>>
  BY DEF AllocWork, QueueWork
<1> QED
  BY <1>2, <1>3, <1>5, <1>6, <1>7, <1>8, <1>9

Interrupt(v) ==
    \/ v \in Sources /\ Irq(v)
    \/ v \in Channels /\ \E x \in dma : DmaDone(v, x)

LEMMA Interrupts ==
  (\E c \in Channels, x \in dma : DmaDone(c, x)) \/ (\E s \in Sources : Irq(s))
    => \E v \in Vectors : Interrupt(v)
BY DEF Interrupt, Vectors

\* The two kinds of interrupt.
LEMMA InterruptFacts ==
  ASSUME EvType, NEW v \in Vectors, Interrupt(v)
  PROVE  \E e : /\ e.type \in EventTypes /\ e.arg \in Sources \union Addrs
                /\ e.who \in Files \union {NULL} /\ Raise(v, e) /\ dma' \subseteq dma
                /\ e.type = "dma" => \E x \in dma : e.arg = x.cookie /\ e.who = x.who
<1>1. CASE v \in Sources /\ Irq(v)
  <2>1. PICK e : e = [type |-> "irq", arg |-> v, who |-> NULL]
    OBVIOUS
  <2>2. e.type = "irq" /\ e.arg = v /\ e.who = NULL
    BY <2>1
  <2>3. Raise(v, e) /\ dma' = dma
    BY <1>1, <2>1 DEF Irq
  <2>4. e.type \in EventTypes /\ e.type # "dma"
    BY <2>2 DEF EventTypes
  <2>5. QED
    BY <1>1, <2>2, <2>3, <2>4
<1>2. CASE \E x \in dma : DmaDone(v, x)
  <2>1. PICK x \in dma : DmaDone(v, x)
    BY <1>2
  <2>2. PICK e : e = [type |-> "dma", arg |-> x.cookie, who |-> x.who]
    OBVIOUS
  <2>3. e.type = "dma" /\ e.arg = x.cookie /\ e.who = x.who
    BY <2>2
  <2>4. x.cookie \in Addrs /\ x.who \in Files
    BY DEF EvType, TypeOK
  <2>5. Raise(v, e) /\ dma' \subseteq dma
    BY <2>1, <2>2 DEF DmaDone
  <2>6. e.type \in EventTypes
    BY <2>3 DEF EventTypes
  <2>7. QED
    BY <2>3, <2>4, <2>5, <2>6
<1> QED BY <1>1, <1>2 DEF Interrupt

LEMMA HandlerFrame ==
  ASSUME NEW v, Interrupt(v) \/ AllocWork(v) \/ QueueWork(v)
  PROVE  UNCHANGED <<handleVars, queueVars, pollVars, worker>>
BY DEF Interrupt, Irq, DmaDone, Raise, AllocWork, QueueWork

\* The worker's steps on one handle.
LEMMA VisitFacts ==
  ASSUME EvType, HandlesInv, NEW a \in Addrs, Skip(a) \/ EnqueueEvent(a)
  PROVE  /\ a \in worker.todo /\ worker.wake = NULL
         /\ worker.ev \in Event /\ Delivering
         /\ worker' \in [ev : Event, todo : SUBSET Addrs, wake : Addrs \union {NULL}]
         /\ worker'.ev = worker.ev /\ worker'.todo = worker.todo \ {a}
         /\ EnqueueEvent(a) => worker'.wake = a
         /\ Skip(a) => worker'.wake = NULL
         /\ \E f \in Files : fstate[f] = "open" /\ addr[f] = a
<1>1. a \in worker.todo /\ worker.wake = NULL
  BY DEF Skip, EnqueueEvent
<1>2. Delivering
  BY <1>1, EventFacts
<1>3. worker \in [ev : Event, todo : SUBSET Addrs, wake : Addrs \union {NULL}]
  BY <1>2 DEF EvType, WorkerType, Delivering
<1>4. \/ Skip(a) /\ worker' = [worker EXCEPT !.todo = worker.todo \ {a}]
      \/ EnqueueEvent(a) /\ worker' = [worker EXCEPT !.todo = worker.todo \ {a}, !.wake = a]
  BY DEF Skip, EnqueueEvent
<1>5. /\ worker' \in [ev : Event, todo : SUBSET Addrs, wake : Addrs \union {NULL}]
      /\ worker'.ev = worker.ev /\ worker'.todo = worker.todo \ {a}
  BY <1>3, <1>4
<1>6. (EnqueueEvent(a) => worker'.wake = a) /\ (Skip(a) => worker'.wake = NULL)
  BY <1>1, <1>3 DEF Skip, EnqueueEvent
<1>7. \E f \in Files : fstate[f] = "open" /\ addr[f] = a
  BY <1>1 DEF HandlesInv, WorkerOnList, ListIsOpen
<1> QED BY <1>1, <1>2, <1>3, <1>5, <1>6, <1>7

\* enqueue_event appends, or drops the event.
LEMMA EnqueueFacts ==
  ASSUME EvType, HandlesInv, NEW a \in Addrs, EnqueueEvent(a)
  PROVE  /\ \A b \in Addrs \ {a} : evq'[b] = evq[b] /\ count'[b] = count[b]
         /\ \/ evq'[a] = evq[a] /\ count'[a] = count[a]
            \/ /\ evq'[a] = Append(evq[a], worker.ev) /\ count'[a] = count[a] + 1
               /\ count[a] < BufferSize
         /\ evq' \in [Addrs -> Seq(Event)] /\ count' \in [Addrs -> Int]
<1>1. evq[a] \in Seq(Event) /\ count[a] \in Int /\ worker.ev \in Event
  BY VisitFacts DEF EvType, TypeOK
<1>2. Append(evq[a], worker.ev) \in Seq(Event)
  BY <1>1
<1>3. CASE Room(a)
  <2>1. /\ evq' = [evq EXCEPT ![a] = Append(evq[a], worker.ev)]
        /\ count' = [count EXCEPT ![a] = count[a] + 1]
    BY <1>3 DEF EnqueueEvent, Push
  <2>2. QED
    BY <1>1, <1>2, <1>3, <2>1 DEF Room, EvType, TypeOK
<1>4. CASE ~Room(a)
  BY <1>4 DEF EnqueueEvent, queueVars, EvType, TypeOK
<1> QED BY <1>3, <1>4

\* DEQUEUE_EVENT takes the first event.
LEMMA DequeueFacts ==
  ASSUME EvType, HandlesInv, NEW f \in Files, Dequeue(f)
  PROVE  /\ fstate[f] = "open" /\ addr[f] \in Addrs /\ evq[addr[f]] # <<>>
         /\ \A b \in Addrs \ {addr[f]} : evq'[b] = evq[b] /\ count'[b] = count[b]
         /\ evq'[addr[f]] = Tail(evq[addr[f]]) /\ count'[addr[f]] = count[addr[f]] - 1
         /\ evq' \in [Addrs -> Seq(Event)] /\ count' \in [Addrs -> Int]
<1>1. fstate[f] = "open" /\ addr[f] \in Addrs /\ evq[addr[f]] # <<>>
  BY DEF Dequeue, HandlesInv, OneHandle, HasHandle
<1>2. Tail(evq[addr[f]]) \in Seq(Event) /\ count[addr[f]] \in Int
  BY <1>1, TailFacts DEF EvType, TypeOK
<1>3. /\ evq' = [evq EXCEPT ![addr[f]] = Tail(evq[addr[f]])]
      /\ count' = [count EXCEPT ![addr[f]] = count[addr[f]] - 1]
  BY DEF Dequeue
<1> QED BY <1>1, <1>2, <1>3 DEF EvType, TypeOK

\* WorkBegin takes the oldest event and every open handle.
LEMMA BeginFacts ==
  ASSUME EvType, WorkBegin
  PROVE  /\ workq # <<>> /\ worker.todo = {} /\ worker.wake = NULL /\ ~Delivering
         /\ worker' = [ev |-> workq[1], todo |-> list, wake |-> NULL]
         /\ workq[1] \in Event /\ workq' = Tail(workq) /\ Delivering'
<1>1. workq \in Seq(Event) /\ workq # <<>>
  BY DEF WorkBegin, EvType, TypeOK
<1>2. worker' = [ev |-> workq[1], todo |-> list, wake |-> NULL] /\ workq[1] \in Event
  BY <1>1, TailFacts DEF WorkBegin
<1>3. worker'.ev.n # 0
  BY <1>2, EventFacts
<1>4. Delivering'
  BY <1>3 DEF Delivering, WorkerIdle, NoEvent
<1> QED
  BY <1>1, <1>2, <1>4, EventFacts DEF WorkBegin, LockListFree, Delivering

-------------------------------------------------------------------------------
(* The types *)

LEMMA TypeInit == ASSUME Init PROVE EvType
<1>1. worker.ev = NoEvent /\ worker.todo = {} /\ worker.wake = NULL
  BY DEF Init, WorkerIdle
<1> QED BY <1>1, EventsAssumption DEF Init, EvType, TypeOK, WorkerType

LEMMA TypeNext ==
  ASSUME EvType, HandlesInv, [Next]_vars
  PROVE  EvType'
<1> USE EventsAssumption
<1>1. ASSUME NEW f \in Files, Open(f)
      PROVE  EvType'
  <2>1. PICK a \in Addrs :
          /\ addr' = [addr EXCEPT ![f] = a] /\ list' = list \union {a}
          /\ mask' = [mask EXCEPT ![a] = {}] /\ fwd' = [fwd EXCEPT ![a] = {}]
          /\ count' = [count EXCEPT ![a] = 0]
    BY <1>1 DEF Open
  <2>2. QED
    BY <1>1, <2>1 DEF Open, pollVars, workVars, EvType, TypeOK, WorkerType
<1>2. ASSUME NEW f \in Files, ReleaseUnlink(f)
      PROVE  EvType'
  BY <1>2 DEF ReleaseUnlink, queueVars, pollVars, workVars, EvType, TypeOK, WorkerType
<1>3. ASSUME NEW f \in Files, ReleaseFree(f)
      PROVE  EvType'
  <2>1. <<>> \in Seq(Event) /\ {} \in SUBSET EventTypes /\ {} \in SUBSET Sources
    OBVIOUS
  <2>2. /\ evq' \in [Addrs -> Seq(Event)] /\ count' \in [Addrs -> Int]
        /\ mask' \in [Addrs -> SUBSET EventTypes] /\ fwd' \in [Addrs -> SUBSET Sources]
    <3>1. evq' \in [Addrs -> Seq(Event)]
      BY <1>3, <2>1 DEF ReleaseFree, EvType, TypeOK
    <3>2. count' \in [Addrs -> Int]
      <4>1. /\ count \in [Addrs -> Int] /\ count' = [count EXCEPT ![addr[f]] = 0]
            /\ addr[f] \in Addrs
        BY <1>3 DEF ReleaseFree, EvType, TypeOK, HandlesInv, OneHandle, HasHandle
      <4>2. QED
        BY <4>1
    <3>3. mask' \in [Addrs -> SUBSET EventTypes]
      BY <1>3 DEF ReleaseFree, EvType, TypeOK
    <3>4. fwd' \in [Addrs -> SUBSET Sources]
      BY <1>3 DEF ReleaseFree, EvType, TypeOK
    <3>5. QED
      BY <3>1, <3>2, <3>3, <3>4
  <2>3. fstate' \in [Files -> {"new", "open", "unlinked", "closed"}]
    BY <1>3 DEF ReleaseFree, EvType, TypeOK
  <2>4. QED
    BY <1>3, <2>2, <2>3 DEF ReleaseFree, pollVars, workVars, EvType, TypeOK, WorkerType
<1>4. ASSUME NEW f \in Files, NEW m \in SUBSET EventTypes, EnableEvent(f, m)
      PROVE  EvType'
  BY <1>4 DEF EnableEvent, queueVars, pollVars, workVars, EvType, TypeOK, WorkerType
<1>5. ASSUME NEW f \in Files, NEW s \in SUBSET Sources, IrqForwarding(f, s)
      PROVE  EvType'
  BY <1>5 DEF IrqForwarding, queueVars, pollVars, workVars, EvType, TypeOK, WorkerType
<1>6. ASSUME NEW f \in Files, StartDma(f)
      PROVE  EvType'
  <2>1. addr[f] \in Addrs
    BY <1>6 DEF StartDma, HandlesInv, OneHandle, HasHandle
  <2>2. QED
    BY <1>6, <2>1 DEF StartDma, handleVars, queueVars, pollVars, workVars, EvType, TypeOK,
        WorkerType
<1>7. ASSUME NEW f \in Files, Dequeue(f)
      PROVE  EvType'
  BY <1>7, DequeueFacts DEF Dequeue, handleVars, pollVars, workVars, EvType, TypeOK, WorkerType
<1>8. ASSUME NEW f \in Files, PollWait(f) \/ PollCheck(f) \/ PollAgain(f) \/ PollTimeout(f)
      PROVE  EvType'
  BY <1>8 DEF PollWait, PollCheck, PollAgain, PollTimeout, handleVars, queueVars, workVars,
      EvType, TypeOK, WorkerType
<1>9. ASSUME NEW v \in Vectors, Interrupt(v)
      PROVE  EvType'
  <2>1. PICK e : /\ e.type \in EventTypes /\ e.arg \in Sources \union Addrs
                 /\ e.who \in Files \union {NULL} /\ Raise(v, e) /\ dma' \subseteq dma
    BY <1>9, InterruptFacts
  <2>2. /\ raised' \in 0..MaxEvents
        /\ isr' \in [Vectors -> [ev : Event, mem : BOOLEAN] \union {HandlerIdle}]
        /\ UNCHANGED <<handleVars, queueVars, pollVars, workq, worker, reserve>>
    BY <2>1, RaiseFacts
  <2>3. QED
    BY <2>1, <2>2 DEF handleVars, queueVars, pollVars, EvType, TypeOK, WorkerType
<1>10. ASSUME NEW v \in Vectors, AllocWork(v) \/ QueueWork(v)
       PROVE  EvType'
  BY <1>10, PostFacts DEF handleVars, queueVars, pollVars, EvType, TypeOK, WorkerType
<1>12. CASE WorkBegin
  <2>1. workq' \in Seq(Event)
    <3>1. workq \in Seq(Event) /\ workq # <<>> /\ workq' = Tail(workq)
      BY <1>12, BeginFacts DEF EvType, TypeOK
    <3>2. QED
      BY <3>1, TailFacts
  <2>2. worker' \in [ev : Event, todo : SUBSET Addrs, wake : Addrs \union {NULL}]
    BY <1>12, BeginFacts DEF EvType, TypeOK
  <2>3. WorkerType' /\ worker'.ev \in Event
    BY <2>2 DEF WorkerType
  <2>4. QED
    BY <1>12, <2>1, <2>2, <2>3 DEF WorkBegin, handleVars, queueVars, pollVars, EvType, TypeOK
<1>13. CASE WakeUp
  <2>1. Delivering
    BY <1>13, EventFacts DEF WakeUp
  <2>2. worker' \in [ev : Event, todo : SUBSET Addrs, wake : Addrs \union {NULL}]
    BY <1>13, <2>1 DEF WakeUp, EvType, WorkerType, Delivering
  <2>3. WorkerType' /\ worker'.ev \in Event
    BY <2>2 DEF WorkerType
  <2>4. woken' \in [Files -> BOOLEAN]
    <3>1. woken' = [f \in Files |-> woken[f] \/ (poll[f] # "none" /\ addr[f] = worker.wake)]
      BY <1>13 DEF WakeUp, Woken
    <3>2. \A f \in Files : (woken[f] \/ (poll[f] # "none" /\ addr[f] = worker.wake)) \in BOOLEAN
      OBVIOUS
    <3>3. QED
      BY <3>1, <3>2
  <2>5. QED
    BY <1>13, <2>2, <2>3, <2>4 DEF WakeUp, handleVars, queueVars, EvType, TypeOK
<1>14. CASE WorkEnd
  <2>1. worker'.ev = NoEvent /\ worker'.todo = {} /\ worker'.wake = NULL /\ WorkerType'
    BY <1>14 DEF WorkEnd, WorkerIdle, WorkerType
  <2>2. reserve' \in 0..PoolMin
    BY <1>14 DEF WorkEnd, PoolFree, EvType, TypeOK
  <2>3. QED
    BY <1>14, <2>1, <2>2 DEF WorkEnd, handleVars, queueVars, pollVars, EvType, TypeOK
<1>15. ASSUME NEW a \in Addrs, Skip(a) \/ EnqueueEvent(a)
       PROVE  EvType'
  <2>1. evq' \in [Addrs -> Seq(Event)] /\ count' \in [Addrs -> Int]
    BY <1>15, EnqueueFacts DEF Skip, queueVars, EvType, TypeOK
  <2>2. WorkerType' /\ worker'.ev \in Event
    BY <1>15, VisitFacts DEF WorkerType
  <2>3. QED
    BY <1>15, <2>1, <2>2, VisitFacts
    DEF Skip, EnqueueEvent, handleVars, pollVars, EvType, TypeOK
<1>16. CASE UNCHANGED vars
  BY <1>16 DEF vars, EvType, TypeOK, WorkerType
<1> QED
  BY <1>1, <1>2, <1>3, <1>4, <1>5, <1>6, <1>7, <1>8, <1>9, <1>10, <1>12, <1>13, <1>14, <1>15,
     <1>16, Interrupts DEF Next

-------------------------------------------------------------------------------
(* Handles *)

LEMMA HandlesNext ==
  ASSUME EvType, HandlesInv, [Next]_vars
  PROVE  HandlesInv'
<1> USE DEF HandlesInv
<1>1. ASSUME NEW f \in Files, Open(f)
      PROVE  HandlesInv'
  <2>1. PICK a \in Addrs \ InUse : addr' = [addr EXCEPT ![f] = a] /\ list' = list \union {a}
    BY <1>1 DEF Open
  <2>2. /\ fstate[f] = "new" /\ worker' = worker /\ worker.todo = {} /\ poll' = poll
        /\ fstate'[f] = "open" /\ addr'[f] = a
        /\ \A g \in Files \ {f} : fstate'[g] = fstate[g] /\ addr'[g] = addr[g]
    BY <1>1, <2>1 DEF Open, LockListFree, WorkerIdle, pollVars, workVars, EvType, TypeOK
  <2>3. \A g \in Files : HasHandle(g) => addr[g] # a
    BY <2>1 DEF InUse, HasHandle
  <2>4. OneHandle'
    BY <2>2, <2>3 DEF OneHandle, HasHandle
  <2>5. ListIsOpen'
    BY <2>1, <2>2 DEF ListIsOpen
  <2>6. QED
    BY <2>2, <2>4, <2>5 DEF WorkerOnList, PollsAreOpen
<1>2. ASSUME NEW f \in Files, ReleaseUnlink(f)
      PROVE  HandlesInv'
  <2>1. /\ fstate[f] = "open" /\ poll[f] = "none" /\ worker' = worker /\ worker.todo = {}
        /\ poll' = poll /\ addr' = addr /\ list' = list \ {addr[f]} /\ fstate'[f] = "unlinked"
        /\ \A g \in Files \ {f} : fstate'[g] = fstate[g]
    BY <1>2 DEF ReleaseUnlink, LockListFree, WorkerIdle, pollVars, workVars, EvType, TypeOK
  <2>2. OneHandle'
    BY <2>1 DEF OneHandle, HasHandle
  <2>3. ListIsOpen'
    BY <2>1 DEF ListIsOpen, OneHandle, HasHandle
  <2>4. QED
    BY <2>1, <2>2, <2>3 DEF WorkerOnList, PollsAreOpen
<1>3. ASSUME NEW f \in Files, ReleaseFree(f)
      PROVE  HandlesInv'
  <2>1. /\ fstate[f] = "unlinked" /\ UNCHANGED <<worker, poll, addr, list>>
        /\ fstate'[f] = "closed" /\ \A g \in Files \ {f} : fstate'[g] = fstate[g]
    BY <1>3 DEF ReleaseFree, pollVars, workVars, EvType, TypeOK
  <2>2. OneHandle' /\ ListIsOpen'
    BY <2>1 DEF OneHandle, HasHandle, ListIsOpen
  <2>3. QED
    BY <2>1, <2>2 DEF WorkerOnList, PollsAreOpen
<1>4. ASSUME NEW f \in Files, PollWait(f) \/ PollCheck(f) \/ PollAgain(f) \/ PollTimeout(f)
      PROVE  HandlesInv'
  <2>1. /\ UNCHANGED <<fstate, addr, list, worker>> /\ fstate[f] = "open"
        /\ \A g \in Files \ {f} : poll'[g] = poll[g]
    BY <1>4 DEF PollWait, PollCheck, PollAgain, PollTimeout, handleVars, workVars, EvType,
        TypeOK, PollsAreOpen
  <2>2. QED
    BY <2>1 DEF OneHandle, HasHandle, ListIsOpen, WorkerOnList, PollsAreOpen
<1>5. ASSUME UNCHANGED <<fstate, addr, list, poll>>, worker'.todo \subseteq list
      PROVE  HandlesInv'
  BY <1>5 DEF OneHandle, HasHandle, ListIsOpen, WorkerOnList, PollsAreOpen
<1>6. CASE \E f \in Files : \/ \E m \in SUBSET EventTypes : EnableEvent(f, m)
                            \/ \E s \in SUBSET Sources : IrqForwarding(f, s)
                            \/ StartDma(f) \/ Dequeue(f)
  BY <1>5, <1>6 DEF EnableEvent, IrqForwarding, StartDma, Dequeue, handleVars, pollVars,
      workVars, WorkerOnList
<1>7. ASSUME NEW v \in Vectors, Interrupt(v) \/ AllocWork(v) \/ QueueWork(v)
      PROVE  HandlesInv'
  <2>1. UNCHANGED <<handleVars, pollVars, worker>>
    BY <1>7, HandlerFrame
  <2>2. QED
    BY <1>5, <2>1 DEF handleVars, pollVars, WorkerOnList
<1>8. CASE WorkBegin
  BY <1>5, <1>8 DEF WorkBegin, handleVars, pollVars
<1>9. CASE WakeUp
  <2>1. worker'.todo = worker.todo
    BY <1>9, EventFacts DEF WakeUp, EvType, WorkerType, Delivering
  <2>2. QED
    BY <1>5, <1>9, <2>1 DEF WakeUp, handleVars, WorkerOnList
<1>10. CASE WorkEnd
  BY <1>5, <1>10 DEF WorkEnd, WorkerIdle, handleVars, pollVars
<1>11. ASSUME NEW a \in Addrs, Skip(a) \/ EnqueueEvent(a)
       PROVE  HandlesInv'
  BY <1>5, <1>11, VisitFacts DEF Skip, EnqueueEvent, handleVars, pollVars, WorkerOnList
<1>12. CASE UNCHANGED vars
  BY <1>5, <1>12 DEF vars, WorkerOnList
<1> QED
  BY <1>1, <1>2, <1>3, <1>4, <1>6, <1>7, <1>8, <1>9, <1>10, <1>11, <1>12, Interrupts DEF Next

-------------------------------------------------------------------------------
(* The lists of the handles *)

LEMMA ListsNext ==
  ASSUME EvType, HandlesInv, UnusedIsEmpty, BoundedList, [Next]_vars
  PROVE  UnusedIsEmpty' /\ BoundedList'
<1> USE EventsAssumption
<1>0. \A a : a \in InUse <=> \E f \in Files : HasHandle(f) /\ addr[f] = a
  BY DEF InUse, HasHandle
<1>p. \A a : a \in InUse' <=> \E f \in Files : HasHandle(f)' /\ addr'[f] = a
  BY DEF InUse, HasHandle
<1>1. ASSUME NEW f \in Files, Open(f)
      PROVE  UnusedIsEmpty' /\ BoundedList'
  <2>1. PICK a \in Addrs \ InUse : /\ addr' = [addr EXCEPT ![f] = a]
                                   /\ count' = [count EXCEPT ![a] = 0]
    BY <1>1 DEF Open
  <2>2. /\ fstate[f] = "new" /\ fstate'[f] = "open" /\ addr'[f] = a /\ evq' = evq
        /\ \A g \in Files \ {f} : fstate'[g] = fstate[g] /\ addr'[g] = addr[g]
    BY <1>1, <2>1 DEF Open, EvType, TypeOK
  <2>3. \A b : b \in InUse' <=> b \in InUse \/ b = a
    BY <1>0, <1>p, <2>2 DEF HasHandle
  <2>4. count'[a] = 0 /\ evq'[a] = <<>> /\ \A b \in Addrs \ {a} : count'[b] = count[b]
    BY <2>1, <2>2 DEF UnusedIsEmpty, EvType, TypeOK
  <2>5. UnusedIsEmpty'
    BY <2>2, <2>3, <2>4 DEF UnusedIsEmpty
  <2>6. \A b \in InUse : b \in Addrs
    BY <1>0 DEF HandlesInv, OneHandle
  <2>7. QED
    BY <2>1, <2>2, <2>3, <2>4, <2>5, <2>6 DEF BoundedList
<1>2. ASSUME NEW f \in Files, ReleaseUnlink(f)
      PROVE  UnusedIsEmpty' /\ BoundedList'
  <2>1. \A g \in Files : HasHandle(g)' <=> HasHandle(g)
    BY <1>2 DEF ReleaseUnlink, HasHandle, EvType, TypeOK
  <2>2. InUse' = InUse
    BY <1>0, <1>p, <1>2, <2>1 DEF ReleaseUnlink
  <2>3. QED
    BY <1>2, <2>2 DEF ReleaseUnlink, queueVars, UnusedIsEmpty, BoundedList
<1>3. ASSUME NEW f \in Files, ReleaseFree(f)
      PROVE  UnusedIsEmpty' /\ BoundedList'
  <2>1. /\ HasHandle(f) /\ ~HasHandle(f)' /\ addr' = addr /\ addr[f] \in Addrs
        /\ \A g \in Files \ {f} : HasHandle(g)' <=> HasHandle(g)
    BY <1>3 DEF ReleaseFree, HasHandle, HandlesInv, OneHandle, EvType, TypeOK
  <2>2. \A b : b \in InUse' <=> b \in InUse /\ b # addr[f]
    BY <1>0, <1>p, <2>1 DEF HandlesInv, OneHandle
  <2>3. /\ evq'[addr[f]] = <<>> /\ count'[addr[f]] = 0
        /\ \A b : b # addr[f] /\ b \in Addrs => evq'[b] = evq[b] /\ count'[b] = count[b]
    BY <1>3, <2>1 DEF ReleaseFree, EvType, TypeOK
  <2>4. \A b \in InUse : b \in Addrs
    BY <1>0 DEF HandlesInv, OneHandle
  <2>5. QED
    BY <2>2, <2>3, <2>4 DEF UnusedIsEmpty, BoundedList
<1>4. ASSUME NEW f \in Files, Dequeue(f)
      PROVE  UnusedIsEmpty' /\ BoundedList'
  <2>1. addr[f] \in InUse /\ InUse' = InUse
    BY <1>0, <1>4, DequeueFacts DEF Dequeue, handleVars, InUse, HasHandle
  <2>2. Len(evq'[addr[f]]) = Len(evq[addr[f]]) - 1
    <3>1. evq[addr[f]] \in Seq(Event) /\ evq[addr[f]] # <<>>
      BY <1>4, DequeueFacts DEF EvType, TypeOK
    <3>2. QED
      BY <1>4, <3>1, DequeueFacts, TailFacts
  <2>3. count[addr[f]] \in Int
    BY <1>4, DequeueFacts DEF EvType, TypeOK
  <2>4. \A b \in InUse : b \in Addrs
    BY <1>0 DEF HandlesInv, OneHandle
  <2>5. /\ addr[f] \in Addrs /\ count'[addr[f]] = count[addr[f]] - 1
        /\ \A b \in Addrs \ {addr[f]} : evq'[b] = evq[b] /\ count'[b] = count[b]
    BY <1>4, DequeueFacts
  <2>6. UnusedIsEmpty'
    BY <2>1, <2>5 DEF UnusedIsEmpty
  <2>7. count'[addr[f]] = Len(evq'[addr[f]]) /\ count'[addr[f]] <= BufferSize
    BY <2>1, <2>2, <2>3, <2>5 DEF BoundedList
  <2>8. QED
    BY <2>1, <2>4, <2>5, <2>6, <2>7 DEF BoundedList
<1>5. ASSUME NEW a \in Addrs, EnqueueEvent(a)
      PROVE  UnusedIsEmpty' /\ BoundedList'
  <2>1. a \in InUse /\ InUse' = InUse
    <3>1. \E f \in Files : HasHandle(f) /\ addr[f] = a
      BY <1>5, VisitFacts DEF HasHandle
    <3>2. fstate' = fstate /\ addr' = addr
      BY <1>5 DEF EnqueueEvent, handleVars
    <3>3. QED
      BY <1>0, <3>1, <3>2 DEF InUse
  <2>2. Len(Append(evq[a], worker.ev)) = Len(evq[a]) + 1
    <3>1. evq[a] \in Seq(Event) /\ worker.ev \in Event
      BY <1>5, VisitFacts DEF EvType, TypeOK
    <3>2. QED
      BY <3>1, AppendFacts
  <2>3. count[a] \in Int
    BY DEF EvType, TypeOK
  <2>4. \A b \in InUse : b \in Addrs
    BY <1>0 DEF HandlesInv, OneHandle
  <2>5. count'[a] = Len(evq'[a]) /\ count'[a] <= BufferSize
    BY <1>5, <2>1, <2>2, <2>3, EnqueueFacts DEF BoundedList
  <2>6. QED
    BY <1>5, <2>1, <2>4, <2>5, EnqueueFacts DEF UnusedIsEmpty, BoundedList
<1>6. ASSUME UNCHANGED <<fstate, addr, evq, count>>
      PROVE  UnusedIsEmpty' /\ BoundedList'
  BY <1>6 DEF UnusedIsEmpty, BoundedList, InUse
<1>7. CASE \E f \in Files : \/ \E m \in SUBSET EventTypes : EnableEvent(f, m)
                            \/ \E s \in SUBSET Sources : IrqForwarding(f, s)
                            \/ StartDma(f) \/ PollWait(f) \/ PollCheck(f) \/ PollAgain(f)
                            \/ PollTimeout(f)
  BY <1>6, <1>7 DEF EnableEvent, IrqForwarding, StartDma, PollWait, PollCheck, PollAgain,
      PollTimeout, handleVars, queueVars
<1>8. CASE \/ WorkBegin \/ WakeUp \/ WorkEnd
           \/ \E a \in Addrs : Skip(a)
           \/ UNCHANGED vars
  BY <1>6, <1>8 DEF WorkBegin, WakeUp, WorkEnd, Skip, vars, handleVars, queueVars
<1>9. ASSUME NEW v \in Vectors, Interrupt(v) \/ AllocWork(v) \/ QueueWork(v)
      PROVE  UnusedIsEmpty' /\ BoundedList'
  BY <1>6, <1>9, HandlerFrame DEF handleVars, queueVars
<1> QED
  BY <1>1, <1>2, <1>3, <1>4, <1>5, <1>7, <1>8, <1>9, Interrupts DEF Next

-------------------------------------------------------------------------------
(* The order of the events *)

\* The events keep their order as long as the handles' lists only lose events at the
\* front.
LEMMA OrderKept ==
  ASSUME EvType, EvType', OrderInv, UNCHANGED <<isr, workq, worker, raised>>,
         \A a \in Addrs : \/ evq'[a] = evq[a]
                          \/ evq'[a] = <<>>
                          \/ evq[a] # <<>> /\ evq'[a] = Tail(evq[a])
  PROVE  OrderInv'
<1>1. ASSUME NEW a \in Addrs
      PROVE  \E k \in {0, 1} : \A i \in 1..Len(evq'[a]) :
               i + k \in 1..Len(evq[a]) /\ evq'[a][i] = evq[a][i + k]
  <2>1. evq[a] \in Seq(Event)
    BY DEF EvType, TypeOK
  <2>2. CASE evq'[a] = evq[a]
    <3>1. \A i \in 1..Len(evq'[a]) : i + 0 = i
      OBVIOUS
    <3>2. QED
      BY <2>2, <3>1
  <2>3. CASE evq'[a] = <<>>
    BY <2>3
  <2>4. CASE evq[a] # <<>> /\ evq'[a] = Tail(evq[a])
    BY <2>1, <2>4, TailFacts
  <2>5. QED
    BY <2>2, <2>3, <2>4
<1>2. HandledInOrder'
  <2>1. SUFFICES ASSUME NEW a \in Addrs, NEW i \in 1..Len(evq'[a]), NEW j \in 1..Len(evq'[a]),
                        i < j
                 PROVE  Before(evq'[a][i], evq'[a][j])
    BY DEF HandledInOrder
  <2>2. PICK k \in {0, 1} : \A l \in 1..Len(evq'[a]) :
               l + k \in 1..Len(evq[a]) /\ evq'[a][l] = evq[a][l + k]
    BY <1>1
  <2>3. i + k < j + k
    BY <2>1, <2>2
  <2>4. QED
    BY <2>1, <2>2, <2>3 DEF OrderInv, HandledInOrder
<1>3. \A a \in Addrs : \A i \in 1..Len(evq'[a]) : \E j \in 1..Len(evq[a]) :
        evq'[a][i] = evq[a][j]
  BY <1>1
<1>4. EventsOrdered'
  BY <1>3 DEF OrderInv, EventsOrdered
<1>5. HandlersBehind'
  BY <1>3 DEF OrderInv, HandlersBehind, Running
<1> QED BY <1>2, <1>4, <1>5 DEF OrderInv

\* A new event is younger than all others, and knows those still in handlers' hands.
LEMMA OrderRaise ==
  ASSUME EvType, EvType', OrderInv, NEW v \in Vectors, Interrupt(v)
  PROVE  OrderInv'
<1>1. PICK e : /\ e.type \in EventTypes /\ e.arg \in Sources \union Addrs
               /\ e.who \in Files \union {NULL} /\ Raise(v, e)
  BY InterruptFacts
<1>2. /\ raised' = raised + 1 /\ Running' = Running \union {v} /\ v \notin Running
      /\ isr'[v].ev.n = raised + 1 /\ \A w \in Vectors \ {v} : isr'[w] = isr[w]
      /\ \A w \in Running : isr[w].ev.n \in isr'[v].ev.beside
      /\ UNCHANGED <<evq, workq, worker>>
  BY <1>1, RaiseFacts DEF queueVars
<1>3. raised \in Nat /\ worker.ev.n \in Nat
  BY EventFacts
<1>4. \A i \in 1..Len(workq) : workq[i].n \in Nat
  BY EventFacts
<1>5. \A a \in Addrs : \A i \in 1..Len(evq[a]) : evq[a][i].n \in Nat
  BY EventFacts
<1>6. \A w \in Running : w \in Vectors /\ w # v /\ isr[w].ev.n \in Nat /\ isr'[w] = isr[w]
  BY <1>2, EventFacts
<1>7. EventsOrdered'
  BY <1>2, <1>3, <1>4, <1>5 DEF OrderInv, EventsOrdered
<1>8. HandledInOrder'
  BY <1>2 DEF OrderInv, HandledInOrder
<1>9. ASSUME NEW w \in Running
      PROVE  /\ isr'[w].ev.n <= raised'
             /\ \A i \in 1..Len(workq') : Before(workq'[i], isr'[w].ev)
             /\ Before(worker'.ev, isr'[w].ev)
             /\ \A a \in Addrs : \A i \in 1..Len(evq'[a]) : Before(evq'[a][i], isr'[w].ev)
             /\ \A u \in Running' \ {w} : Before(isr'[u].ev, isr'[w].ev)
  <2>1. isr'[w].ev.n <= raised'
    BY <1>2, <1>3, <1>6 DEF OrderInv, HandlersBehind
  <2>2. /\ \A i \in 1..Len(workq') : Before(workq'[i], isr'[w].ev)
        /\ Before(worker'.ev, isr'[w].ev)
        /\ \A a \in Addrs : \A i \in 1..Len(evq'[a]) : Before(evq'[a][i], isr'[w].ev)
    BY <1>2, <1>6 DEF OrderInv, HandlersBehind
  <2>3. \A u \in Running \ {w} : Before(isr'[u].ev, isr'[w].ev)
    BY <1>6 DEF OrderInv, HandlersBehind
  <2>4. Before(isr'[v].ev, isr'[w].ev)
    BY <1>2, <1>6 DEF Before
  <2>5. QED
    BY <1>2, <2>1, <2>2, <2>3, <2>4
<1>10. /\ isr'[v].ev.n <= raised'
       /\ \A i \in 1..Len(workq') : Before(workq'[i], isr'[v].ev)
       /\ Before(worker'.ev, isr'[v].ev)
       /\ \A a \in Addrs : \A i \in 1..Len(evq'[a]) : Before(evq'[a][i], isr'[v].ev)
       /\ \A u \in Running' \ {v} : Before(isr'[u].ev, isr'[v].ev)
  <2>1. isr'[v].ev.n <= raised'
    BY <1>2, <1>3
  <2>2. \A i \in 1..Len(workq') : Before(workq'[i], isr'[v].ev)
    BY <1>2, <1>3, <1>4 DEF OrderInv, EventsOrdered, Before
  <2>3. Before(worker'.ev, isr'[v].ev)
    BY <1>2, <1>3 DEF OrderInv, EventsOrdered, Before
  <2>4. \A a \in Addrs : \A i \in 1..Len(evq'[a]) : Before(evq'[a][i], isr'[v].ev)
    BY <1>2, <1>3, <1>5 DEF OrderInv, EventsOrdered, Before
  <2>5. \A u \in Running' \ {v} : Before(isr'[u].ev, isr'[v].ev)
    BY <1>2, <1>3, <1>6 DEF OrderInv, HandlersBehind, Before
  <2>6. QED
    BY <2>1, <2>2, <2>3, <2>4, <2>5
<1>11. HandlersBehind'
  BY <1>2, <1>9, <1>10 DEF HandlersBehind
<1> QED BY <1>7, <1>8, <1>11 DEF OrderInv

\* queue_work appends the event of one of the handlers.
LEMMA OrderPost ==
  ASSUME EvType, EvType', OrderInv, NEW v \in Vectors, AllocWork(v) \/ QueueWork(v)
  PROVE  OrderInv'
<1>1. /\ v \in Running /\ isr[v].ev \in Event /\ Running' \subseteq Running
      /\ \A w \in Vectors \ {v} : isr'[w] = isr[w]
      /\ isr'[v] = HandlerIdle \/ isr'[v].ev = isr[v].ev
      /\ UNCHANGED <<evq, worker, raised>>
      /\ workq' = workq \/ (workq' = Append(workq, isr[v].ev) /\ v \notin Running')
  BY PostFacts DEF queueVars
<1>2. \A w \in Running' : w \in Running /\ w \in Vectors /\ isr'[w].ev = isr[w].ev
  BY <1>1 DEF Running
<1>3. HandledInOrder'
  BY <1>1 DEF OrderInv, HandledInOrder
<1>4. CASE workq' = workq
  <2>1. EventsOrdered'
    BY <1>1, <1>4 DEF OrderInv, EventsOrdered
  <2>2. HandlersBehind'
    BY <1>1, <1>2, <1>4 DEF OrderInv, HandlersBehind
  <2>3. QED
    BY <1>3, <2>1, <2>2 DEF OrderInv
<1>5. CASE workq' = Append(workq, isr[v].ev) /\ v \notin Running'
  <2>1. /\ Len(workq) \in Nat /\ Len(workq') = Len(workq) + 1
        /\ \A i \in 1..Len(workq') : \/ i \in 1..Len(workq) /\ workq'[i] = workq[i]
                                     \/ i = Len(workq) + 1 /\ workq'[i] = isr[v].ev
    <3>1. workq \in Seq(Event)
      BY DEF EvType, TypeOK
    <3>2. QED
      BY <1>1, <1>5, <3>1, AppendFacts
  <2>2. \A i, j \in 1..Len(workq') : i < j => i \in 1..Len(workq) /\ workq'[i] = workq[i]
    BY <2>1
  <2>3. \A i \in 1..Len(workq) : Before(workq[i], isr[v].ev)
    BY <1>1 DEF OrderInv, HandlersBehind
  <2>4. \A i, j \in 1..Len(workq') : i < j => Before(workq'[i], workq'[j])
    BY <2>1, <2>2, <2>3 DEF OrderInv, EventsOrdered
  <2>5. \A i \in 1..Len(workq') : workq'[i].n <= raised' /\ Before(worker'.ev, workq'[i])
    BY <1>1, <2>1 DEF OrderInv, EventsOrdered, HandlersBehind
  <2>6. \A a \in Addrs : \A i \in 1..Len(evq'[a]) : \A j \in 1..Len(workq') :
          Before(evq'[a][i], workq'[j])
    BY <1>1, <2>1 DEF OrderInv, EventsOrdered, HandlersBehind
  <2>7. EventsOrdered'
    BY <1>1, <2>4, <2>5, <2>6 DEF OrderInv, EventsOrdered
  <2>8. \A w \in Running' : w # v
    BY <1>5
  <2>9. \A w \in Running' : \A i \in 1..Len(workq') : Before(workq'[i], isr'[w].ev)
    BY <1>1, <1>2, <2>1, <2>8 DEF OrderInv, HandlersBehind
  <2>10. HandlersBehind'
    BY <1>1, <1>2, <2>9 DEF OrderInv, HandlersBehind
  <2>11. QED
    BY <1>3, <2>7, <2>10 DEF OrderInv
<1> QED BY <1>1, <1>4, <1>5

LEMMA OrderNext ==
  ASSUME EvType, EvType', HandlesInv, OrderInv, [Next]_vars
  PROVE  OrderInv'
<1>1. ASSUME NEW f \in Files, ReleaseFree(f)
      PROVE  OrderInv'
  <2>1. /\ UNCHANGED <<isr, workq, worker, raised>>
        /\ \A a \in Addrs : evq'[a] = evq[a] \/ evq'[a] = <<>>
    BY <1>1 DEF ReleaseFree, workVars, EvType, TypeOK
  <2>2. QED
    BY <2>1, OrderKept
<1>2. ASSUME NEW f \in Files, Dequeue(f)
      PROVE  OrderInv'
  <2>1. /\ UNCHANGED <<isr, workq, worker, raised>>
        /\ \A a \in Addrs : evq'[a] = evq[a] \/ (evq[a] # <<>> /\ evq'[a] = Tail(evq[a]))
    BY <1>2, DequeueFacts DEF Dequeue, workVars
  <2>2. QED
    BY <2>1, OrderKept
<1>3. ASSUME NEW v \in Vectors, Interrupt(v) \/ AllocWork(v) \/ QueueWork(v)
      PROVE  OrderInv'
  BY <1>3, OrderRaise, OrderPost
<1>4. CASE WorkBegin
  <2>1. /\ worker'.ev = workq[1] /\ UNCHANGED <<evq, raised, isr>> /\ 1 \in 1..Len(workq)
        /\ \A i \in 1..Len(workq') : i + 1 \in 1..Len(workq) /\ workq'[i] = workq[i + 1]
    <3>1. workq \in Seq(Event) /\ workq # <<>> /\ workq' = Tail(workq)
      BY <1>4, BeginFacts DEF EvType, TypeOK
    <3>2. worker'.ev = workq[1] /\ UNCHANGED <<evq, raised, isr>>
      BY <1>4, BeginFacts DEF WorkBegin, queueVars
    <3>3. QED
      BY <3>1, <3>2, TailFacts
  <2>2. /\ \A i, j \in 1..Len(workq') : i < j => i + 1 < j + 1
        /\ \A i \in 1..Len(workq') : 1 < i + 1
    OBVIOUS
  <2>3. \A i, j \in 1..Len(workq') : i < j => Before(workq'[i], workq'[j])
    BY <2>1, <2>2 DEF OrderInv, EventsOrdered
  <2>4. \A i \in 1..Len(workq') : workq'[i].n <= raised' /\ Before(worker'.ev, workq'[i])
    BY <2>1, <2>2 DEF OrderInv, EventsOrdered
  <2>5. worker'.ev.n <= raised'
    BY <2>1 DEF OrderInv, EventsOrdered
  <2>6. \A a \in Addrs : \A i \in 1..Len(evq'[a]) :
         /\ evq'[a][i].n <= raised' /\ Before(evq'[a][i], worker'.ev)
         /\ \A j \in 1..Len(workq') : Before(evq'[a][i], workq'[j])
    BY <2>1 DEF OrderInv, EventsOrdered
  <2>7. EventsOrdered'
    BY <2>3, <2>4, <2>5, <2>6 DEF EventsOrdered
  <2>8. HandlersBehind'
    BY <2>1 DEF OrderInv, HandlersBehind, Running
  <2>9. QED
    BY <2>1, <2>7, <2>8 DEF OrderInv, HandledInOrder
<1>5. CASE WorkEnd
  <2>1. UNCHANGED <<isr, workq, evq, raised>> /\ worker' = WorkerIdle
    BY <1>5 DEF WorkEnd, queueVars
  <2>2. worker'.ev.n = 0 /\ worker'.todo = {}
    BY <2>1 DEF WorkerIdle, NoEvent
  <2>3. raised \in Nat /\ \A i \in 1..Len(workq) : workq[i].n > 0 /\ workq[i].n \in Nat
    BY EventFacts
  <2>4. \A v \in Running : isr[v].ev.n > 0 /\ isr[v].ev.n \in Nat
    BY EventFacts
  <2>5. EventsOrdered'
    BY <2>1, <2>2, <2>3 DEF OrderInv, EventsOrdered, Before
  <2>6. \A v \in Running : Before(worker'.ev, isr[v].ev)
    BY <2>2, <2>4 DEF Before
  <2>7. HandlersBehind'
    BY <2>1, <2>6 DEF OrderInv, HandlersBehind, Running
  <2>8. QED
    BY <2>1, <2>5, <2>7 DEF OrderInv, HandledInOrder
<1>6. ASSUME NEW a \in Addrs, Skip(a) \/ EnqueueEvent(a)
      PROVE  OrderInv'
  <2>1. /\ UNCHANGED <<isr, workq, raised>> /\ worker'.ev = worker.ev
        /\ a \in worker.todo /\ worker'.todo = worker.todo \ {a} /\ worker.ev \in Event
    BY <1>6, VisitFacts DEF Skip, EnqueueEvent
  <2>2. \A b \in Addrs \ {a} : evq'[b] = evq[b]
    BY <1>6, EnqueueFacts DEF Skip, queueVars
  <2>3. CASE evq'[a] = evq[a]
    <3>1. \A b \in Addrs : evq'[b] = evq[b]
      BY <2>2, <2>3
    <3>2. EventsOrdered' /\ HandledInOrder'
      BY <2>1, <3>1 DEF OrderInv, EventsOrdered, HandledInOrder
    <3>3. HandlersBehind'
      BY <2>1, <3>1 DEF OrderInv, HandlersBehind, Running
    <3>4. QED
      BY <3>2, <3>3 DEF OrderInv
  <2>4. CASE evq'[a] = Append(evq[a], worker.ev)
    <3>1. /\ Len(evq[a]) \in Nat /\ Len(evq'[a]) = Len(evq[a]) + 1
          /\ \A i \in 1..Len(evq'[a]) : \/ i \in 1..Len(evq[a]) /\ evq'[a][i] = evq[a][i]
                                        \/ i = Len(evq[a]) + 1 /\ evq'[a][i] = worker.ev
      <4>1. evq[a] \in Seq(Event)
        BY DEF EvType, TypeOK
      <4>2. QED
        BY <2>1, <2>4, <4>1, AppendFacts
    <3>2. \A i, j \in 1..Len(evq'[a]) : i < j => i \in 1..Len(evq[a]) /\ evq'[a][i] = evq[a][i]
      BY <3>1
    <3>3. \A i, j \in 1..Len(evq'[a]) : i < j => Before(evq'[a][i], evq'[a][j])
      BY <2>1, <3>1, <3>2 DEF OrderInv, EventsOrdered, HandledInOrder
    <3>4. HandledInOrder'
      BY <2>2, <3>3 DEF OrderInv, HandledInOrder
    <3>5. \A b \in Addrs : \A i \in 1..Len(evq'[b]) :
            /\ evq'[b][i].n <= raised'
            /\ b \in worker'.todo => Before(evq'[b][i], worker'.ev)
            /\ \A j \in 1..Len(workq') : Before(evq'[b][i], workq'[j])
      BY <2>1, <2>2, <3>1 DEF OrderInv, EventsOrdered
    <3>6. EventsOrdered'
      BY <2>1, <3>5 DEF OrderInv, EventsOrdered
    <3>7. HandlersBehind'
      <4>1. \A v \in Running : \A b \in Addrs : \A i \in 1..Len(evq'[b]) :
              Before(evq'[b][i], isr[v].ev)
        BY <2>2, <3>1 DEF OrderInv, HandlersBehind
      <4>2. QED
        BY <2>1, <4>1 DEF OrderInv, HandlersBehind, Running
    <3>8. QED
      BY <3>4, <3>6, <3>7 DEF OrderInv
  <2>5. QED
    BY <1>6, <2>3, <2>4, EnqueueFacts DEF Skip, queueVars
<1>7. CASE WakeUp
  <2>1. /\ UNCHANGED <<isr, workq, evq, raised>> /\ worker'.ev = worker.ev
        /\ worker'.todo = worker.todo
    BY <1>7, EventFacts DEF WakeUp, queueVars, EvType, WorkerType, Delivering
  <2>2. EventsOrdered' /\ HandledInOrder'
    BY <2>1 DEF OrderInv, EventsOrdered, HandledInOrder
  <2>3. HandlersBehind'
    BY <2>1 DEF OrderInv, HandlersBehind, Running
  <2>4. QED
    BY <2>2, <2>3 DEF OrderInv
<1>8. CASE UNCHANGED <<isr, workq, evq, worker, raised>>
  BY <1>8, OrderKept
<1>9. CASE \/ \E f \in Files : \/ Open(f) \/ ReleaseUnlink(f)
                               \/ \E m \in SUBSET EventTypes : EnableEvent(f, m)
                               \/ \E s \in SUBSET Sources : IrqForwarding(f, s)
                               \/ StartDma(f) \/ PollWait(f) \/ PollCheck(f) \/ PollAgain(f)
                               \/ PollTimeout(f)
           \/ UNCHANGED vars
  BY <1>8, <1>9 DEF Open, ReleaseUnlink, EnableEvent, IrqForwarding, StartDma, PollWait,
      PollCheck, PollAgain, PollTimeout, vars, workVars, queueVars
<1> QED
  BY <1>1, <1>2, <1>3, <1>4, <1>5, <1>6, <1>7, <1>9, Interrupts DEF Next

-------------------------------------------------------------------------------
(* The cookies *)

LEMMA CookiesNext ==
  ASSUME EvType, EvType', HandlesInv, CookiesMatch, [Next]_vars
  PROVE  CookiesMatch'
<1>1. ASSUME \A g \in Files : fstate[g] # "new" => addr'[g] = addr[g] /\ fstate'[g] # "new"
      PROVE  /\ \A e : Cookie(e) => Cookie(e)'
             /\ UNCHANGED <<dma, isr, workq, worker, evq>> => CookiesMatch'
  <2>1. \A e : Cookie(e) => Cookie(e)'
    BY <1>1 DEF Cookie
  <2>2. \A x \in dma : x.who \in Files
    BY DEF EvType, TypeOK
  <2>3. QED
    BY <1>1, <2>1, <2>2 DEF CookiesMatch
<1>2. ASSUME NEW f \in Files, Open(f)
      PROVE  CookiesMatch'
  <2>1. \A g \in Files : fstate[g] # "new" => addr'[g] = addr[g] /\ fstate'[g] # "new"
    BY <1>2 DEF Open, EvType, TypeOK
  <2>2. QED
    BY <1>1, <1>2, <2>1 DEF Open, workVars
<1>3. ASSUME NEW f \in Files, ReleaseUnlink(f)
      PROVE  CookiesMatch'
  <2>1. \A g \in Files : fstate[g] # "new" => addr'[g] = addr[g] /\ fstate'[g] # "new"
    BY <1>3 DEF ReleaseUnlink, EvType, TypeOK
  <2>2. QED
    BY <1>1, <1>3, <2>1 DEF ReleaseUnlink, queueVars, workVars
<1>4. ASSUME NEW f \in Files, ReleaseFree(f)
      PROVE  CookiesMatch'
  <2>1. \A g \in Files : fstate[g] # "new" => addr'[g] = addr[g] /\ fstate'[g] # "new"
    BY <1>4 DEF ReleaseFree, EvType, TypeOK
  <2>2. \A e : Cookie(e) => Cookie(e)'
    BY <1>1, <2>1
  <2>3. \A a \in Addrs : evq'[a] = evq[a] \/ evq'[a] = <<>>
    BY <1>4 DEF ReleaseFree, EvType, TypeOK
  <2>4. \A x \in dma : x.who \in Files
    BY DEF EvType, TypeOK
  <2>5. UNCHANGED <<dma, isr, workq, worker>>
    BY <1>4 DEF ReleaseFree, workVars
  <2>6. \A a \in Addrs : \A i \in 1..Len(evq'[a]) :
          Cookie(evq'[a][i]) /\ (evq'[a][i].type = "dma" => evq'[a][i].arg = a)
    BY <2>3 DEF CookiesMatch
  <2>7. QED
    BY <2>1, <2>2, <2>4, <2>5, <2>6 DEF CookiesMatch
<1>5. ASSUME UNCHANGED <<fstate, addr>>
      PROVE  \A e : Cookie(e)' <=> Cookie(e)
  BY <1>5 DEF Cookie
<1>6. ASSUME NEW f \in Files, StartDma(f)
      PROVE  CookiesMatch'
  <2>1. /\ UNCHANGED <<fstate, addr, isr, workq, worker, evq>> /\ fstate[f] = "open"
        /\ dma' = dma \union {[who |-> f, cookie |-> addr[f]]}
    BY <1>6 DEF StartDma, handleVars, queueVars, workVars
  <2>2. QED
    BY <1>5, <2>1 DEF CookiesMatch
<1>7. ASSUME NEW f \in Files, Dequeue(f)
      PROVE  CookiesMatch'
  <2>1. UNCHANGED <<fstate, addr, dma, isr, workq, worker>>
    BY <1>7 DEF Dequeue, handleVars, workVars
  <2>2. \A a \in Addrs : \A i \in 1..Len(evq'[a]) : \E j \in 1..Len(evq[a]) :
          evq'[a][i] = evq[a][j]
    <3>1. /\ addr[f] \in Addrs /\ evq[addr[f]] \in Seq(Event) /\ evq[addr[f]] # <<>>
          /\ evq'[addr[f]] = Tail(evq[addr[f]])
          /\ \A b \in Addrs \ {addr[f]} : evq'[b] = evq[b]
      BY <1>7, DequeueFacts DEF EvType, TypeOK
    <3>2. \A i \in 1..Len(evq'[addr[f]]) :
            i + 1 \in 1..Len(evq[addr[f]]) /\ evq'[addr[f]][i] = evq[addr[f]][i + 1]
      BY <3>1, TailFacts
    <3>3. QED
      BY <3>1, <3>2
  <2>3. \A a \in Addrs : \A i \in 1..Len(evq'[a]) :
          Cookie(evq'[a][i]) /\ (evq'[a][i].type = "dma" => evq'[a][i].arg = a)
    BY <2>2 DEF CookiesMatch
  <2>4. QED
    BY <1>5, <2>1, <2>3 DEF CookiesMatch
<1>8. ASSUME NEW v \in Vectors, Interrupt(v)
      PROVE  CookiesMatch'
  <2>1. PICK e : /\ e.type \in EventTypes /\ e.arg \in Sources \union Addrs
                 /\ e.who \in Files \union {NULL} /\ Raise(v, e) /\ dma' \subseteq dma
                 /\ e.type = "dma" => \E x \in dma : e.arg = x.cookie /\ e.who = x.who
    BY <1>8, InterruptFacts
  <2>2. UNCHANGED <<fstate, addr, evq, workq, worker>>
    BY <2>1, RaiseFacts DEF handleVars, queueVars
  <2>3. /\ isr'[v].ev.type = e.type /\ isr'[v].ev.arg = e.arg /\ isr'[v].ev.who = e.who
        /\ \A w \in Vectors \ {v} : isr'[w] = isr[w]
    BY <2>1, RaiseFacts
  <2>4. Cookie(isr'[v].ev)
    <3>1. \A x \in dma : x.who \in Files
      BY DEF EvType, TypeOK
    <3>2. QED
      BY <2>1, <2>3, <3>1 DEF CookiesMatch, Cookie
  <2>5. \A w \in Vectors : Cookie(isr'[w].ev)
    BY <2>3, <2>4 DEF CookiesMatch
  <2>6. QED
    BY <1>5, <2>1, <2>2, <2>5 DEF CookiesMatch
<1>9. ASSUME NEW v \in Vectors, AllocWork(v) \/ QueueWork(v)
      PROVE  CookiesMatch'
  <2>1. UNCHANGED <<fstate, addr, evq, dma, worker>>
    BY <1>9, PostFacts DEF handleVars, queueVars
  <2>2. \A w \in Vectors : Cookie(isr'[w].ev)
    <3>1. Cookie(HandlerIdle.ev)
      BY DEF Cookie, HandlerIdle, NoEvent
    <3>2. QED
      BY <1>9, <3>1, PostFacts DEF CookiesMatch
  <2>3. \A i \in 1..Len(workq') : (i \in 1..Len(workq) /\ workq'[i] = workq[i])
                                  \/ workq'[i] = isr[v].ev
    <3>1. workq \in Seq(Event) /\ isr[v].ev \in Event
      BY <1>9, PostFacts DEF EvType, TypeOK
    <3>2. workq' = workq \/ workq' = Append(workq, isr[v].ev)
      BY <1>9, PostFacts
    <3>3. QED
      BY <3>1, <3>2, AppendFacts
  <2>4. QED
    BY <1>5, <2>1, <2>2, <2>3 DEF CookiesMatch
<1>11. CASE WorkBegin
  <2>1. /\ worker'.ev = workq[1] /\ UNCHANGED <<fstate, addr, dma, isr, evq>> /\ 1 \in 1..Len(workq)
        /\ \A i \in 1..Len(workq') : i + 1 \in 1..Len(workq) /\ workq'[i] = workq[i + 1]
    <3>1. workq \in Seq(Event) /\ workq # <<>> /\ workq' = Tail(workq)
      BY <1>11, BeginFacts DEF EvType, TypeOK
    <3>2. worker'.ev = workq[1] /\ UNCHANGED <<fstate, addr, dma, isr, evq>>
      BY <1>11, BeginFacts DEF WorkBegin, handleVars, queueVars
    <3>3. QED
      BY <3>1, <3>2, TailFacts
  <2>2. QED
    BY <1>5, <2>1 DEF CookiesMatch
<1>12. CASE WorkEnd
  <2>1. UNCHANGED <<fstate, addr, dma, isr, workq, evq>> /\ worker'.ev = NoEvent
    BY <1>12 DEF WorkEnd, WorkerIdle, handleVars, queueVars
  <2>2. Cookie(NoEvent)
    BY DEF Cookie, NoEvent
  <2>3. QED
    BY <1>5, <2>1, <2>2 DEF CookiesMatch
<1>13. CASE WakeUp
  <2>1. UNCHANGED <<fstate, addr, dma, isr, workq, evq>> /\ worker'.ev = worker.ev
    BY <1>13, EventFacts DEF WakeUp, handleVars, queueVars, EvType, WorkerType, Delivering
  <2>2. QED
    BY <1>5, <2>1 DEF CookiesMatch
<1>14. ASSUME NEW a \in Addrs, Skip(a) \/ EnqueueEvent(a)
       PROVE  CookiesMatch'
  <2>1. UNCHANGED <<fstate, addr, dma, isr, workq>> /\ worker'.ev = worker.ev /\ worker.ev \in Event
    BY <1>14, VisitFacts DEF Skip, EnqueueEvent, handleVars
  <2>2. \A b \in Addrs \ {a} : evq'[b] = evq[b]
    BY <1>14, EnqueueFacts DEF Skip, queueVars
  <2>3. \A i \in 1..Len(evq'[a]) :
          \/ i \in 1..Len(evq[a]) /\ evq'[a][i] = evq[a][i]
          \/ evq'[a][i] = worker.ev /\ (worker.ev.type = "dma" => worker.ev.arg = a)
    <3>1. CASE evq'[a] = evq[a]
      BY <3>1
    <3>2. CASE EnqueueEvent(a) /\ evq'[a] = Append(evq[a], worker.ev)
      <4>1. evq[a] \in Seq(Event) /\ (worker.ev.type = "dma" => worker.ev.arg = a)
        BY <3>2 DEF EnqueueEvent, Wanted, EvType, TypeOK
      <4>2. QED
        BY <2>1, <3>2, <4>1, AppendFacts
    <3>3. QED
      BY <1>14, <3>1, <3>2, EnqueueFacts DEF Skip, queueVars
  <2>4. QED
    BY <1>5, <2>1, <2>2, <2>3 DEF CookiesMatch
<1>15. CASE UNCHANGED <<fstate, addr, dma, isr, workq, worker, evq>>
  BY <1>1, <1>15
<1>16. CASE \/ \E f \in Files : \/ \E m \in SUBSET EventTypes : EnableEvent(f, m)
                                \/ \E s \in SUBSET Sources : IrqForwarding(f, s)
                                \/ PollWait(f) \/ PollCheck(f) \/ PollAgain(f)
                                \/ PollTimeout(f)
            \/ UNCHANGED vars
  BY <1>15, <1>16 DEF EnableEvent, IrqForwarding, PollWait, PollCheck, PollAgain,
      PollTimeout, vars, handleVars, workVars, queueVars
<1> QED
  BY <1>2, <1>3, <1>4, <1>6, <1>7, <1>8, <1>9, <1>11, <1>12, <1>13, <1>14, <1>16,
     Interrupts DEF Next

-------------------------------------------------------------------------------
(* The wake-ups *)

LEMMA WakeUpsNext ==
  ASSUME EvType, HandlesInv, NoLostWakeup, [Next]_vars
  PROVE  NoLostWakeup'
<1> USE EventsAssumption
<1>0. \A f \in Files : poll[f] # "none" => fstate[f] = "open" /\ addr[f] \in Addrs
  BY DEF HandlesInv, PollsAreOpen, OneHandle, HasHandle
<1>1. ASSUME NEW f \in Files, Open(f)
      PROVE  NoLostWakeup'
  <2>1. /\ poll[f] = "none" /\ UNCHANGED <<poll, woken, worker, evq>>
        /\ \A g \in Files \ {f} : addr'[g] = addr[g]
    BY <1>0, <1>1 DEF Open, pollVars, workVars, EvType, TypeOK
  <2>2. QED
    BY <2>1 DEF NoLostWakeup
<1>2. ASSUME NEW f \in Files, ReleaseFree(f)
      PROVE  NoLostWakeup'
  <2>1. /\ UNCHANGED <<poll, woken, worker, addr>>
        /\ \A a \in Addrs : evq'[a] = evq[a] \/ evq'[a] = <<>>
    BY <1>2 DEF ReleaseFree, pollVars, workVars, EvType, TypeOK
  <2>2. QED
    BY <1>0, <2>1 DEF NoLostWakeup
<1>3. ASSUME NEW f \in Files, Dequeue(f)
      PROVE  NoLostWakeup'
  <2>1. /\ UNCHANGED <<poll, woken, worker, addr>> /\ evq[addr[f]] # <<>> /\ addr[f] \in Addrs
        /\ \A a \in Addrs \ {addr[f]} : evq'[a] = evq[a]
    BY <1>3, DequeueFacts DEF Dequeue, handleVars, pollVars, workVars
  <2>2. QED
    BY <1>0, <2>1 DEF NoLostWakeup
<1>4. ASSUME NEW f \in Files, PollWait(f) \/ PollCheck(f) \/ PollAgain(f) \/ PollTimeout(f)
      PROVE  NoLostWakeup'
  <2>1. /\ UNCHANGED <<worker, addr, evq>>
        /\ \A g \in Files \ {f} : poll'[g] = poll[g] /\ woken'[g] = woken[g]
        /\ poll'[f] # "asleep" \/ evq[addr[f]] = <<>>
    BY <1>4 DEF PollWait, PollCheck, PollAgain, PollTimeout, handleVars, queueVars, workVars,
        EvType, TypeOK
  <2>2. QED
    BY <2>1 DEF NoLostWakeup
<1>5. ASSUME UNCHANGED <<poll, woken, addr, evq>>, worker.wake = NULL \/ worker'.wake = worker.wake
      PROVE  NoLostWakeup'
  BY <1>0, <1>5 DEF NoLostWakeup
<1>6. CASE \E f \in Files : \/ ReleaseUnlink(f) \/ StartDma(f)
                            \/ \E m \in SUBSET EventTypes : EnableEvent(f, m)
                            \/ \E s \in SUBSET Sources : IrqForwarding(f, s)
  BY <1>5, <1>6 DEF ReleaseUnlink, StartDma, EnableEvent, IrqForwarding, handleVars, queueVars,
      pollVars, workVars
<1>7. ASSUME NEW v \in Vectors, Interrupt(v) \/ AllocWork(v) \/ QueueWork(v)
      PROVE  NoLostWakeup'
  BY <1>5, <1>7, HandlerFrame DEF handleVars, queueVars, pollVars
<1>8. CASE WorkBegin
  BY <1>5, <1>8, BeginFacts DEF WorkBegin, handleVars, queueVars, pollVars
<1>9. CASE WakeUp
  <2>1. /\ UNCHANGED <<poll, addr, evq>>
        /\ \A f \in Files : woken[f] \/ (poll[f] # "none" /\ addr[f] = worker.wake) => woken'[f]
    BY <1>9 DEF WakeUp, Woken, handleVars, queueVars
  <2>2. QED
    BY <2>1 DEF NoLostWakeup
<1>10. CASE WorkEnd
  BY <1>5, <1>10 DEF WorkEnd, handleVars, queueVars, pollVars
<1>11. ASSUME NEW a \in Addrs, Skip(a)
       PROVE  NoLostWakeup'
  BY <1>5, <1>11 DEF Skip, handleVars, queueVars, pollVars
<1>12. ASSUME NEW a \in Addrs, EnqueueEvent(a)
       PROVE  NoLostWakeup'
  <2>1. /\ UNCHANGED <<poll, woken, addr>> /\ worker.wake = NULL /\ worker'.wake = a
        /\ \A b \in Addrs \ {a} : evq'[b] = evq[b]
    BY <1>12, VisitFacts, EnqueueFacts DEF EnqueueEvent, handleVars, pollVars
  <2>2. QED
    BY <1>0, <2>1 DEF NoLostWakeup
<1>13. CASE UNCHANGED vars
  BY <1>5, <1>13 DEF vars
<1> QED
  BY <1>1, <1>2, <1>3, <1>4, <1>6, <1>7, <1>8, <1>9, <1>10, <1>11, <1>12, <1>13, Interrupts
  DEF Next

-------------------------------------------------------------------------------
(* The theorems *)

EventsInv ==
    /\ EvType /\ HandlesInv /\ UnusedIsEmpty /\ BoundedList /\ OrderInv /\ CookiesMatch
    /\ NoLostWakeup

LEMMA EventsInit == ASSUME Init PROVE EventsInv
<1>1. EvType
  BY TypeInit
<1>2. HandlesInv
  BY DEF Init, HandlesInv, OneHandle, HasHandle, ListIsOpen, WorkerOnList, PollsAreOpen, WorkerIdle
<1>3. \A a \in Addrs : evq[a] = <<>> /\ count[a] = 0
  BY DEF Init
<1>4. InUse = {}
  BY DEF Init, InUse
<1>5. UnusedIsEmpty /\ BoundedList /\ HandledInOrder
  BY <1>3, <1>4 DEF UnusedIsEmpty, BoundedList, HandledInOrder
<1>6. OrderInv /\ CookiesMatch
  <2>1. worker.ev.n = 0 /\ worker.ev.type = "irq" /\ worker.todo = {} /\ raised = 0
    BY DEF Init, WorkerIdle, NoEvent
  <2>2. \A v \in Vectors : isr[v] = HandlerIdle /\ Cookie(isr[v].ev)
    BY DEF Init, HandlerIdle, NoEvent, Cookie
  <2>3. EventsOrdered /\ HandlersBehind
    BY <1>3, <2>1, <2>2 DEF Init, EventsOrdered, HandlersBehind, Running
  <2>4. CookiesMatch
    BY <1>3, <2>1, <2>2 DEF Init, CookiesMatch, Cookie
  <2>5. QED
    BY <1>5, <2>3, <2>4 DEF OrderInv
<1>7. NoLostWakeup
  BY DEF Init, NoLostWakeup
<1> QED BY <1>1, <1>2, <1>5, <1>6, <1>7 DEF EventsInv

\* The inductive invariant: every step keeps it.
LEMMA EventsInvariant == Spec => []EventsInv
<1>1. EventsInv /\ [Next]_vars => EventsInv'
  BY TypeNext, HandlesNext, ListsNext, OrderNext, CookiesNext, WakeUpsNext DEF EventsInv
<1> QED BY <1>1, EventsInit, PTL DEF Spec

\* bifrost_cdev.c never has more than BIFROST_EVENT_BUFFER_SIZE events on a handle and
\* counts them right, and closing a handle leaves nothing behind for the worker or for
\* the next open that gets the same memory.
THEOREM ListsSafe == Spec => [](TypeOK /\ BoundedList /\ FreedIsUnreachable)
<1>1. EventsInv => FreedIsUnreachable
  BY DEF EventsInv, HandlesInv, ListIsOpen, UnusedIsEmpty, FreedIsUnreachable, InUse
<1>2. EventsInv => TypeOK /\ BoundedList
  BY DEF EventsInv, EvType
<1> QED BY <1>1, <1>2, EventsInvariant, PTL

\* enqueue_event and DEQUEUE_EVENT keep event_list_count equal to the length of the
\* list, so the bound it enforces is one on the list.
THEOREM ListsBounded == Spec => []BoundedList
BY ListsSafe, PTL

\* bifrost_create_event_in_atomic and the one worker keep the order of events whose
\* handlers did not overlap: on every handle, an event is behind all events whose
\* handlers had returned when its interrupt came, for any number of vectors and any
\* interleaving of their handlers.
THEOREM DeliveredInOrder == Spec => []HandledInOrder
<1>1. EventsInv => HandledInOrder
  BY DEF EventsInv, OrderInv
<1> QED BY <1>1, EventsInvariant, PTL

\* The handle as cookie for DMA done event matching: the event of a transfer reaches
\* the file that started it, or that file was closed in the meantime.
THEOREM CookieFindsStarter == Spec => []DoneReachesStarterOrClosed
<1>1. ASSUME EventsInv
      PROVE  DoneReachesStarterOrClosed
  <2>1. SUFFICES ASSUME NEW a \in InUse, NEW i \in 1..Len(evq[a]), evq[a][i].type = "dma",
                        fstate[evq[a][i].who] # "closed"
                 PROVE  evq[a][i].who = Owner(a)
    BY DEF DoneReachesStarterOrClosed
  <2>2. PICK w : w = evq[a][i].who
    OBVIOUS
  <2>3. PICK f \in Files : HasHandle(f) /\ addr[f] = a
    BY DEF InUse, HasHandle
  <2>4. a \in Addrs
    BY <1>1, <2>3 DEF EventsInv, HandlesInv, OneHandle
  <2>5. w \in Files /\ addr[w] = a /\ fstate[w] # "new"
    BY <1>1, <2>1, <2>2, <2>4 DEF EventsInv, CookiesMatch, Cookie
  <2>6. HasHandle(w)
    BY <1>1, <2>1, <2>2, <2>5 DEF HasHandle, EventsInv, EvType, TypeOK
  <2>7. \A g \in Files : addr[g] = a /\ fstate[g] \in {"open", "unlinked"} => g = w
    BY <1>1, <2>5, <2>6 DEF HasHandle, EventsInv, HandlesInv, OneHandle
  <2>8. QED
    BY <2>2, <2>5, <2>6, <2>7 DEF Owner, HasHandle
<1> QED BY <1>1, EventsInvariant, PTL

\* bifrost_poll registers before it looks and enqueue_event wakes after it has queued:
\* no poller sleeps with an event on its list and nobody about to wake it.
THEOREM WakeUpNotLost == Spec => []NoLostWakeup
<1>1. EventsInv => NoLostWakeup
  BY DEF EventsInv
<1> QED BY <1>1, EventsInvariant, PTL
===============================================================================
