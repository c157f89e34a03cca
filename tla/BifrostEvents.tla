----------------------------- MODULE BifrostEvents -----------------------------
(***************************************************************************)
(* Event delivery of the bifrost driver.  Interrupt handlers, several at a *)
(* time, hand events to a single-threaded workqueue (bifrost_main.c); its  *)
(* worker copies each event to the bounded list of every open handle that  *)
(* subscribed to it (bifrost_cdev.c), where the user polls for it and      *)
(* dequeues it.                                                            *)
(*                                                                         *)
(* A handle is the memory kzalloc returned for it: its address is also the *)
(* cookie that marks the events of the DMA transfers it starts, and a      *)
(* later open may get the same address.  A file is one open .. close.      *)
(***************************************************************************)
EXTENDS Integers, Sequences, FiniteSets

CONSTANTS Files,      \* open instances of the device, each opened once
          Addrs,      \* addresses kzalloc can return for a user handle
          NULL,
          Sources,    \* interrupt sources, each with a vector of its own
          Channels,   \* DMA channels, the same
          BufferSize, \* BIFROST_EVENT_BUFFER_SIZE
          PoolMin,    \* elements mempool_create keeps in reserve
          MaxEvents   \* bound: events raised by interrupts

ASSUME EventsAssumption ==
    /\ NULL \notin Addrs
    /\ BufferSize \in Nat /\ PoolMin \in Nat /\ MaxEvents \in Nat

VARIABLES
    fstate,     \* per file: "new", "open", "unlinked", "closed"
    addr,       \* per file: file->private_data
    list,       \* bifrost->list
    mask,       \* per handle: event_enable_mask, a set of event types
    fwd,        \* per handle: irq_forwarding_mask, a set of sources
    evq, count, \* per handle: event_list, event_list_count
    poll,       \* per file: where a thread is in poll()
    woken,      \* per file: the poller's wait queue entry was triggered
    dma,        \* transfers under way: [who, cookie]
    isr,        \* per vector: the event its handler is about to post, and
                \* whether it has the memory for it
    workq,      \* work_queue
    worker,     \* the event work_create_event is delivering, the handles still
                \* to be visited, and the one whose wake_up is due
    reserve,    \* elements in work_pool
    raised      \* number of events raised so far

handleVars == <<fstate, addr, list, mask, fwd>>
queueVars  == <<evq, count>>
pollVars   == <<poll, woken>>
workVars   == <<isr, workq, worker, reserve, raised>>
vars == <<fstate, addr, list, mask, fwd, evq, count, poll, woken, dma, isr, workq,
          worker, reserve, raised>>

Vectors == Sources \union Channels

EventTypes == {"irq", "dma"}
NoEvent == [n |-> 0, type |-> "irq", arg |-> NULL, who |-> NULL, beside |-> {}]
HandlerIdle == [ev |-> NoEvent, mem |-> FALSE]
WorkerIdle == [ev |-> NoEvent, todo |-> {}, wake |-> NULL]

\* bifrost_create_event holds lock_list while it visits the handles.
LockListFree == worker = WorkerIdle

InUse == {addr[f] : f \in {g \in Files : fstate[g] \in {"open", "unlinked"}}}

Init ==
    /\ fstate = [f \in Files |-> "new"]
    /\ addr = [f \in Files |-> NULL]
    /\ list = {}
    /\ mask = [a \in Addrs |-> {}] /\ fwd = [a \in Addrs |-> {}]
    /\ evq = [a \in Addrs |-> <<>>] /\ count = [a \in Addrs |-> 0]
    /\ poll = [f \in Files |-> "none"] /\ woken = [f \in Files |-> FALSE]
    /\ dma = {} /\ isr = [v \in Vectors |-> HandlerIdle]
    /\ workq = <<>> /\ worker = WorkerIdle /\ reserve = PoolMin /\ raised = 0

-------------------------------------------------------------------------------
(* open, close *)

\* bifrost_open: kzalloc, empty lists, all masks zero, then on the list.
Open(f) ==
    /\ fstate[f] = "new" /\ LockListFree
    /\ \E a \in Addrs \ InUse :
         /\ addr' = [addr EXCEPT ![f] = a]
         /\ list' = list \union {a}
         /\ mask' = [mask EXCEPT ![a] = {}]
         /\ fwd' = [fwd EXCEPT ![a] = {}]
         /\ count' = [count EXCEPT ![a] = 0]
    /\ fstate' = [fstate EXCEPT ![f] = "open"]
    /\ UNCHANGED <<evq, pollVars, dma, workVars>>

\* bifrost_release, under lock_list.  The VFS calls it when no other call on
\* the file is running.
ReleaseUnlinkForgotten(f) ==
    /\ fstate[f] = "open" /\ poll[f] = "none" /\ LockListFree
    /\ fstate' = [fstate EXCEPT ![f] = "unlinked"]
    /\ UNCHANGED <<addr, list, mask, fwd, queueVars, pollVars, dma, workVars>>

ReleaseUnlink(f) ==
    /\ fstate[f] = "open" /\ poll[f] = "none" /\ LockListFree
    /\ list' = list \ {addr[f]}
    /\ fstate' = [fstate EXCEPT ![f] = "unlinked"]
    /\ UNCHANGED <<addr, mask, fwd, queueVars, pollVars, dma, workVars>>

\* bifrost_release, under event_list_lock: free the events, then the handle
\* (whose contents are forgotten: kzalloc clears them).  Transfers the handle
\* started stay under way.
ReleaseFree(f) ==
    /\ fstate[f] = "unlinked"
    /\ evq' = [evq EXCEPT ![addr[f]] = <<>>]
    /\ count' = [count EXCEPT ![addr[f]] = 0]
    /\ mask' = [mask EXCEPT ![addr[f]] = {}]
    /\ fwd' = [fwd EXCEPT ![addr[f]] = {}]
    /\ fstate' = [fstate EXCEPT ![f] = "closed"]
    /\ UNCHANGED <<addr, list, pollVars, dma, workVars>>

-------------------------------------------------------------------------------
(* ioctls *)

EnableEvent(f, m) ==
    /\ fstate[f] = "open"
    /\ mask' = [mask EXCEPT ![addr[f]] = m]
    /\ UNCHANGED <<fstate, addr, list, fwd, queueVars, pollVars, dma, workVars>>

IrqForwarding(f, s) ==
    /\ fstate[f] = "open"
    /\ fwd' = [fwd EXCEPT ![addr[f]] = s]
    /\ UNCHANGED <<fstate, addr, list, mask, queueVars, pollVars, dma, workVars>>

\* START_DMA: the handle is the cookie of the transfer.  Bounds: one transfer of
\* a file at a time, and MaxEvents events in all.
StartDma(f) ==
    /\ fstate[f] = "open"
    /\ Cardinality(dma) + raised < MaxEvents
    /\ dma' = dma \union {[who |-> f, cookie |-> addr[f]]}
    /\ UNCHANGED <<handleVars, queueVars, pollVars, workVars>>

\* DEQUEUE_EVENT; -EINVAL when the list is empty.
Dequeue(f) ==
    /\ fstate[f] = "open" /\ evq[addr[f]] # <<>>
    /\ evq' = [evq EXCEPT ![addr[f]] = Tail(@)]
    /\ count' = [count EXCEPT ![addr[f]] = @ - 1]
    /\ UNCHANGED <<handleVars, pollVars, dma, workVars>>

-------------------------------------------------------------------------------
(* poll *)

\* bifrost_poll registers on waitq before it looks at the list.
PollWait(f) ==
    /\ fstate[f] = "open" /\ poll[f] = "none"
    /\ poll' = [poll EXCEPT ![f] = "registered"]
    /\ woken' = [woken EXCEPT ![f] = FALSE]
    /\ UNCHANGED <<handleVars, queueVars, dma, workVars>>

\* ... then returns POLLIN, or the caller goes to sleep.
PollCheck(f) ==
    /\ poll[f] = "registered"
    /\ poll' = [poll EXCEPT ![f] = IF evq[addr[f]] = <<>> THEN "asleep" ELSE "none"]
    /\ UNCHANGED <<handleVars, queueVars, woken, dma, workVars>>

\* The kernel lets a triggered sleeper poll again.
PollAgain(f) ==
    /\ poll[f] = "asleep" /\ woken[f]
    /\ poll' = [poll EXCEPT ![f] = "registered"]
    /\ woken' = [woken EXCEPT ![f] = FALSE]
    /\ UNCHANGED <<handleVars, queueVars, dma, workVars>>

\* A sleeper's own timeout or a signal ends the poll.
PollTimeout(f) ==
    /\ poll[f] = "asleep"
    /\ poll' = [poll EXCEPT ![f] = "none"]
    /\ UNCHANGED <<handleVars, queueVars, woken, dma, workVars>>

-------------------------------------------------------------------------------
(* The interrupt handlers *)

\* The handlers of different vectors run on several CPUs, or one within another;
\* the handler of one vector does not run twice at a time.
Running == {v \in Vectors : isr[v] # HandlerIdle}

\* A handler starts and has its event on the stack.  History: the event's number,
\* and the numbers of the events that other handlers are still posting.
Raise(v, e) ==
    /\ v \notin Running /\ raised < MaxEvents
    /\ raised' = raised + 1
    /\ isr' = [isr EXCEPT ![v] =
         [ev |-> [n |-> raised + 1, type |-> e.type, arg |-> e.arg, who |-> e.who,
                  beside |-> {isr[w].ev.n : w \in Running}], mem |-> FALSE]]
    /\ UNCHANGED <<handleVars, queueVars, pollVars, workq, worker, reserve>>

\* dma_msi_handler of a channel whose transfer ended: dma_done takes the transfer.
DmaDone(c, x) ==
    /\ x \in dma /\ dma' = dma \ {x}
    /\ Raise(c, [type |-> "dma", arg |-> x.cookie, who |-> x.who])

\* default_msi_handler, FVDInterruptService.
Irq(s) ==
    /\ Raise(s, [type |-> "irq", arg |-> s, who |-> NULL])
    /\ UNCHANGED dma

\* bifrost_create_event_in_atomic, mempool_alloc(GFP_ATOMIC): kmalloc, or else the
\* reserve, or else NULL and the event is dropped.
AllocWork(v) ==
    /\ v \in Running /\ ~isr[v].mem
    /\ \/ isr' = [isr EXCEPT ![v].mem = TRUE] /\ UNCHANGED reserve
       \/ /\ reserve > 0
          /\ isr' = [isr EXCEPT ![v].mem = TRUE] /\ reserve' = reserve - 1
       \/ reserve = 0 /\ isr' = [isr EXCEPT ![v] = HandlerIdle] /\ UNCHANGED reserve
    /\ UNCHANGED <<handleVars, queueVars, pollVars, dma, workq, worker, raised>>

\* ... then the copy of the event and queue_work.
QueueWork(v) ==
    /\ isr[v].mem
    /\ workq' = Append(workq, isr[v].ev)
    /\ isr' = [isr EXCEPT ![v] = HandlerIdle]
    /\ UNCHANGED <<handleVars, queueVars, pollVars, dma, worker, reserve, raised>>

-------------------------------------------------------------------------------
(* work_create_event: bifrost_create_event, then mempool_free *)

\* The worker takes an event from the queue and takes lock_list.
WorkBegin ==
    /\ LockListFree /\ workq # <<>>
    /\ worker' = [ev |-> Head(workq), todo |-> list, wake |-> NULL]
    /\ workq' = Tail(workq)
    /\ UNCHANGED <<handleVars, queueVars, pollVars, dma, isr, reserve, raised>>

\* enqueue_on_this_handle
WantedAnyCookie(a) ==
    /\ worker.ev.type \in mask[a]
    /\ worker.ev.type = "irq" => worker.ev.arg \in fwd[a]

Wanted(a) ==
    /\ worker.ev.type \in mask[a]
    /\ worker.ev.type = "irq" => worker.ev.arg \in fwd[a]
    /\ worker.ev.type = "dma" => worker.ev.arg = a

\* The event is not for this handle, or duplicate_event gets no memory.
Skip(a) ==
    /\ a \in worker.todo /\ worker.wake = NULL
    /\ worker' = [worker EXCEPT !.todo = @ \ {a}]
    /\ UNCHANGED <<handleVars, queueVars, pollVars, dma, isr, workq, reserve, raised>>

\* enqueue_event: a full list drops the new event.
RoomOffByOne(a) == count[a] <= BufferSize
Room(a) == count[a] < BufferSize

PushFirst(q, e) == <<e>> \o q
Push(q, e) == Append(q, e)

\* enqueue_event on a handle that wants the event, under its event_list_lock.
\* The handles are independent, so any order of visiting them will do.
EnqueueEvent(a) ==
    /\ a \in worker.todo /\ worker.wake = NULL /\ Wanted(a)
    /\ IF Room(a)
       THEN /\ evq' = [evq EXCEPT ![a] = Push(@, worker.ev)]
            /\ count' = [count EXCEPT ![a] = @ + 1]
       ELSE UNCHANGED queueVars
    /\ worker' = [worker EXCEPT !.todo = @ \ {a}, !.wake = a]
    /\ UNCHANGED <<handleVars, pollVars, dma, isr, workq, reserve, raised>>

\* wake_up_interruptible(&hnd->waitq), also when the list was full.
WokenNobody(a) == woken
Woken(a) == [f \in Files |-> woken[f] \/ (poll[f] # "none" /\ addr[f] = a)]

WakeUp ==
    /\ worker.wake # NULL
    /\ woken' = Woken(worker.wake)
    /\ worker' = [worker EXCEPT !.wake = NULL]
    /\ UNCHANGED <<handleVars, queueVars, poll, dma, isr, workq, reserve, raised>>

\* mempool_free: the reserve is filled up first.
PoolFree(n) == IF n < PoolMin THEN n + 1 ELSE n

WorkEnd ==
    /\ worker # WorkerIdle /\ worker.todo = {} /\ worker.wake = NULL
    /\ worker' = WorkerIdle
    /\ reserve' = PoolFree(reserve)
    /\ UNCHANGED <<handleVars, queueVars, pollVars, dma, isr, workq, raised>>

-------------------------------------------------------------------------------
Next ==
    \/ \E f \in Files : \/ Open(f) \/ ReleaseUnlink(f) \/ ReleaseFree(f)
                        \/ \E m \in SUBSET EventTypes : EnableEvent(f, m)
                        \/ \E s \in SUBSET Sources : IrqForwarding(f, s)
                        \/ StartDma(f) \/ Dequeue(f)
                        \/ PollWait(f) \/ PollCheck(f) \/ PollAgain(f)
                        \/ PollTimeout(f)
    \/ \E c \in Channels, x \in dma : DmaDone(c, x)
    \/ \E s \in Sources : Irq(s)
    \/ \E v \in Vectors : AllocWork(v) \/ QueueWork(v)
    \/ WorkBegin \/ WakeUp \/ WorkEnd
    \/ \E a \in Addrs : Skip(a) \/ EnqueueEvent(a)

Spec == Init /\ [][Next]_vars

\* The kernel runs the worker, and lets a poller it has triggered look again.
FairSpec ==
    /\ Spec
    /\ WF_vars(WorkBegin) /\ WF_vars(WakeUp) /\ WF_vars(WorkEnd)
    /\ WF_vars(\E a \in Addrs : Skip(a) \/ EnqueueEvent(a))
    /\ \A f \in Files : WF_vars(PollAgain(f)) /\ WF_vars(PollCheck(f))

-------------------------------------------------------------------------------
(* Properties *)

Event == [n : 1..MaxEvents, type : EventTypes, arg : Sources \union Addrs,
          who : Files \union {NULL}, beside : SUBSET (1..MaxEvents)]

\* Every variable stays in its type; the reserve never exceeds the pool.
TypeOK ==
    /\ fstate \in [Files -> {"new", "open", "unlinked", "closed"}]
    /\ addr \in [Files -> Addrs \union {NULL}]
    /\ list \in SUBSET Addrs
    /\ mask \in [Addrs -> SUBSET EventTypes] /\ fwd \in [Addrs -> SUBSET Sources]
    /\ evq \in [Addrs -> Seq(Event)] /\ count \in [Addrs -> Int]
    /\ poll \in [Files -> {"none", "registered", "asleep"}]
    /\ woken \in [Files -> BOOLEAN]
    /\ dma \in SUBSET [who : Files, cookie : Addrs]
    /\ isr \in [Vectors -> [ev : Event, mem : BOOLEAN] \union {HandlerIdle}]
    /\ workq \in Seq(Event)
    /\ worker.ev \in Event \union {NoEvent}
    /\ worker.todo \in SUBSET Addrs /\ worker.wake \in Addrs \union {NULL}
    /\ reserve \in 0..PoolMin /\ raised \in 0..MaxEvents

Owner(a) == CHOOSE f \in Files : addr[f] = a /\ fstate[f] \in {"open", "unlinked"}

\* event_list_count, which decides whether an event is dropped, agrees with the
\* list, and a handle never holds more than BIFROST_EVENT_BUFFER_SIZE events.
BoundedList ==
    \A a \in InUse : count[a] = Len(evq[a]) /\ count[a] <= BufferSize

\* The release order (unlink, then free the events, then the handle) leaves
\* nothing behind: the worker never writes to a freed handle, and a recycled
\* handle does not start with another file's events.
FreedIsUnreachable ==
    \A a \in Addrs \ InUse : a \notin list /\ evq[a] = <<>>

\* A poller is never asleep with an event on its list and no wake-up delivered
\* or due, whatever the order of poll, enqueue and dequeue.
NoLostWakeup ==
    \A f \in Files : poll[f] = "asleep" /\ evq[addr[f]] # <<>>
                     => woken[f] \/ worker.wake = addr[f]

\* A sleeping poller with an event to fetch wakes up, without its timeout.
PollerWakes ==
    \A f \in Files : poll[f] = "asleep" /\ evq[addr[f]] # <<>> ~> poll[f] # "asleep"

\* The events of a handle are in the order in which the interrupts raised them.
InOrder ==
    \A a \in Addrs : \A i, j \in 1..Len(evq[a]) : i < j => evq[a][i].n < evq[a][j].n

\* What bifrost_create_event_in_atomic and the one worker do guarantee: an event may
\* overtake an older one only when the handlers of both ran at the same time.  An
\* event whose handler had returned before another interrupt came stays ahead of it
\* on every handle, whatever vectors they have and whatever is dropped between them.
Before(e, d) == e.n < d.n \/ d.n \in e.beside

HandledInOrder ==
    \A a \in Addrs : \A i, j \in 1..Len(evq[a]) : i < j => Before(evq[a][i], evq[a][j])

\* "the user handle is used as cookie for DMA done event matching"
\* (bifrost_cdev.c:610): the DMA_DONE event of a transfer reaches only the file
\* that started it.
DoneReachesStarter ==
    \A a \in InUse : \A i \in 1..Len(evq[a]) :
      evq[a][i].type = "dma" => evq[a][i].who = Owner(a)

\* What the cookie does guarantee: the event reaches another file only when the
\* one that started the transfer was closed before the event was delivered.
DoneReachesStarterOrClosed ==
    \A a \in InUse : \A i \in 1..Len(evq[a]) :
      evq[a][i].type = "dma" =>
        evq[a][i].who = Owner(a) \/ fstate[evq[a][i].who] = "closed"
===============================================================================
