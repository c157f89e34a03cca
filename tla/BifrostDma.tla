------------------------------ MODULE BifrostDma ------------------------------
(***************************************************************************)
(* The DMA engine of the bifrost driver: the controller in bifrost_dma.c   *)
(* (queue, idle bitmap, one request in progress per channel), the FPGA's   *)
(* channels as bifrost_pci.c programs them, and its two kinds of caller:   *)
(* ioctl threads that submit a request and MSI handlers that complete one. *)
(*                                                                         *)
(* ctl->lock is held for exactly one action here (Start.., Refill..), and  *)
(* everything the code does before taking it or after dropping it is an    *)
(* action of its own, so every interleaving of threads and handlers with   *)
(* the unlocked parts is explored.  bifrost_dma_chan_start programs a      *)
(* channel under mem->lock with interrupts off, so it is one step.         *)
(* The handlers of two channels interleave; a channel's own handler does   *)
(* not overlap itself (the kernel serialises an interrupt line).           *)
(***************************************************************************)
EXTENDS Integers, Sequences, FiniteSets

CONSTANTS Threads,      \* user threads inside the START_DMA ioctls
          Reqs,         \* addresses that kzalloc can return for a dma_req
          NULL,         \* the null pointer
          NumCh,        \* channels the FPGA has (CAPABILITY & 0xf)
          BusyAtProbe,  \* channels whose STATUS bit was set at probe
          TicketMask,   \* 0x7fffffff
          MaxTicket     \* bound: tickets handed out

Ch == 0 .. NumCh - 1

ASSUME DmaAssumption ==
    /\ NumCh \in Nat
    /\ BusyAtProbe \subseteq Ch
    /\ NULL \notin Reqs
    /\ TicketMask \in Nat /\ MaxTicket \in 0 .. TicketMask

VARIABLES
    queue,       \* ctl->list
    idle,        \* ctl->idle_bitmap
    inProgress,  \* ctl->ch[].in_progress
    live,        \* requests allocated and not freed
    reqTicket,   \* req->ticket
    ticket,      \* the counter of get_ticket
    pc,          \* per thread: where it is in do_dma_start_xfer
    treq,        \* per thread: its local req
    tch,         \* per thread: its local ch (-1: none)
    hpc,         \* per channel: where its MSI handler is in dma_done
    hreq,        \* per channel: the handler's local req, the one to kick off
    htick,       \* per channel: the ticket the handler announces
    hw,          \* per channel: the FPGA's side of it
    hwTicket,    \* per channel: the ticket whose transfer was started last
    announced,   \* tickets whose DMA_DONE event was created
    leaked       \* requests no one can reach any more

ctlVars == <<queue, idle, inProgress>>
reqVars == <<live, reqTicket, ticket, leaked>>
thrVars == <<pc, treq, tch>>
hndVars == <<hpc, hreq, htick, announced>>
hwVars  == <<hw, hwTicket>>
vars    == <<queue, idle, inProgress, live, reqTicket, ticket, leaked,
             pc, treq, tch, hpc, hreq, htick, announced, hw, hwTicket>>

-------------------------------------------------------------------------------
(* Helpers of bifrost_dma.c *)

\* __find_1st_idle_chan: the lowest set bit, or a negative error (-EBUSY).
FirstIdle(map) ==
    IF map = {} THEN -1 ELSE CHOOSE c \in map : \A d \in map : c <= d

\* ... and clears that bit.
TakeIdleKeepsBit(map) == map
TakeIdle(map) == map \ {FirstIdle(map)}

\* __free_chan
FreeChanNextBit(map, c) == map \union {c + 1}
FreeChanForgotten(map, c) == map
FreeChan(map, c) == map \union {c}

\* The controller's list: list_add_tail, list_empty, and list_del of the first.
EnqueueFirst(q, r) == <<r>> \o q
Enqueue(q, r) == Append(q, r)

HasWaiterNever(q) == FALSE
HasWaiter(q) == q # <<>>

DequeueNoDel(q) == q
Dequeue(q) == Tail(q)

\* get_ticket: atomic_add_return(1) & 0x7fffffff, which is never negative.
GetTicketNarrow(k) == (k % 2) + 1
GetTicket(k) == IF k = TicketMask THEN 0 ELSE k + 1

\* bifrost_dma_chan_start, called through ctl->start_xfer by kick_off_xfer:
\* select the channel, program the transfer, start it.
ChanStartNoSelect(c, r) ==
    /\ hw' = [hw EXCEPT ![0] = "running"]
    /\ hwTicket' = [hwTicket EXCEPT ![0] = reqTicket[r]]

ChanStart(c, r) ==
    /\ hw' = [hw EXCEPT ![c] = "running"]
    /\ hwTicket' = [hwTicket EXCEPT ![c] = reqTicket[r]]

-------------------------------------------------------------------------------
(* bifrost_dma_init: idle_map = ~STATUS; a channel that was busy at probe  *)
(* is running a transfer the driver knows nothing of.                      *)

Init ==
    /\ queue = <<>>
    /\ idle = Ch \ BusyAtProbe
    /\ inProgress = [c \in Ch |-> NULL]
    /\ live = {} /\ leaked = {}
    /\ reqTicket = [r \in Reqs |-> 0]
    /\ ticket = 0
    /\ pc = [t \in Threads |-> "user"]
    /\ treq = [t \in Threads |-> NULL]
    /\ tch = [t \in Threads |-> -1]
    /\ hpc = [c \in Ch |-> "off"]
    /\ hreq = [c \in Ch |-> NULL]
    /\ htick = [c \in Ch |-> 0]
    /\ announced = {}
    /\ hw = [c \in Ch |-> IF c \in BusyAtProbe THEN "running" ELSE "stopped"]
    /\ hwTicket = [c \in Ch |-> 0]

-------------------------------------------------------------------------------
(* A thread in do_dma_start_xfer *)

\* alloc_dma_req: kzalloc may return any free address.  (kzalloc failing
\* returns -ENOMEM with nothing changed.)
AllocReq(t) ==
    /\ pc[t] = "user"
    /\ ticket < MaxTicket
    /\ \E r \in Reqs \ live :
         /\ live' = live \union {r}
         /\ reqTicket' = [reqTicket EXCEPT ![r] = GetTicket(ticket)]
         /\ treq' = [treq EXCEPT ![t] = r]
    /\ ticket' = GetTicket(ticket)
    /\ pc' = [pc EXCEPT ![t] = "ready"]
    /\ UNCHANGED <<ctlVars, leaked, tch, hndVars, hwVars>>

\* An unknown direction: free_dma_req and -EINVAL.
RejectReq(t) ==
    /\ pc[t] = "ready"
    /\ live' = live \ {treq[t]}
    /\ treq' = [treq EXCEPT ![t] = NULL]
    /\ pc' = [pc EXCEPT ![t] = "user"]
    /\ UNCHANGED <<ctlVars, reqTicket, ticket, leaked, tch, hndVars, hwVars>>

\* prepare_dma_buffer fails: -ENOMEM is returned and the request is not freed.
AbandonReq(t) ==
    /\ pc[t] = "ready"
    /\ leaked' = leaked \union {treq[t]}
    /\ treq' = [treq EXCEPT ![t] = NULL]
    /\ pc' = [pc EXCEPT ![t] = "user"]
    /\ UNCHANGED <<ctlVars, live, reqTicket, ticket, tch, hndVars, hwVars>>

\* start_dma_xfer up to spin_unlock: take the first idle channel ...
StartNow(t, c) ==
    /\ pc[t] = "ready"
    /\ c = FirstIdle(idle)
    /\ idle' = TakeIdle(idle)
    /\ inProgress' = [inProgress EXCEPT ![c] = treq[t]]
    /\ tch' = [tch EXCEPT ![t] = c]
    /\ pc' = [pc EXCEPT ![t] = "kick"]
    /\ UNCHANGED <<queue, reqVars, treq, hndVars, hwVars>>

\* ... or queue when there is none.
StartLater(t) ==
    /\ pc[t] = "ready"
    /\ FirstIdle(idle) < 0
    /\ queue' = Enqueue(queue, treq[t])
    /\ treq' = [treq EXCEPT ![t] = NULL]
    /\ pc' = [pc EXCEPT ![t] = "started"]
    /\ UNCHANGED <<idle, inProgress, reqVars, tch, hndVars, hwVars>>

StartXfer(t) == (\E c \in Ch : StartNow(t, c)) \/ StartLater(t)

\* start_dma_xfer after spin_unlock: kick_off_xfer.
KickOff(t) ==
    /\ pc[t] = "kick"
    /\ ChanStart(tch[t], treq[t])
    /\ treq' = [treq EXCEPT ![t] = NULL]
    /\ tch' = [tch EXCEPT ![t] = -1]
    /\ pc' = [pc EXCEPT ![t] = "started"]
    /\ UNCHANGED <<ctlVars, reqVars, hndVars>>

\* The ioctl returns the ticket.
Return(t) ==
    /\ pc[t] = "started"
    /\ pc' = [pc EXCEPT ![t] = "user"]
    /\ UNCHANGED <<ctlVars, reqVars, treq, tch, hndVars, hwVars>>

-------------------------------------------------------------------------------
(* The FPGA finishes a transfer and raises the channel's MSI. *)

HwComplete(c) ==
    /\ hw[c] = "running"
    /\ hw' = [hw EXCEPT ![c] = "msi"]
    /\ UNCHANGED <<ctlVars, reqVars, thrVars, hndVars, hwTicket>>

-------------------------------------------------------------------------------
(* dma_msi_handler of a channel, and dma_done *)

\* No request in progress: "Spurious DMA interrupt", -EINVAL, no event.
Spurious(c) ==
    /\ hw[c] = "msi" /\ hpc[c] = "off"
    /\ inProgress[c] = NULL
    /\ hw' = [hw EXCEPT ![c] = "stopped"]
    /\ UNCHANGED <<ctlVars, reqVars, thrVars, hndVars, hwTicket>>

\* dma_done before the lock: take the request off the channel, remember its
\* ticket and cookie, complete its waiter, free it.
TakeDone(c) ==
    /\ hw[c] = "msi" /\ hpc[c] = "off"
    /\ inProgress[c] # NULL
    /\ hw' = [hw EXCEPT ![c] = "stopped"]
    /\ inProgress' = [inProgress EXCEPT ![c] = NULL]
    /\ htick' = [htick EXCEPT ![c] = reqTicket[inProgress[c]]]
    /\ live' = live \ {inProgress[c]}
    /\ hpc' = [hpc EXCEPT ![c] = "refill"]
    /\ UNCHANGED <<queue, idle, reqTicket, ticket, leaked, thrVars,
                   hreq, announced, hwTicket>>

\* dma_done under the lock: the channel gets the oldest queued request ...
RefillNext(c) ==
    /\ hpc[c] = "refill"
    /\ HasWaiter(queue)
    /\ hreq' = [hreq EXCEPT ![c] = Head(queue)]
    /\ inProgress' = [inProgress EXCEPT ![c] = Head(queue)]
    /\ queue' = Dequeue(queue)
    /\ hpc' = [hpc EXCEPT ![c] = "kick"]
    /\ UNCHANGED <<idle, reqVars, thrVars, htick, announced, hwVars>>

\* ... or is idle again.
RefillNone(c) ==
    /\ hpc[c] = "refill"
    /\ ~HasWaiter(queue)
    /\ idle' = FreeChan(idle, c)
    /\ hpc' = [hpc EXCEPT ![c] = "event"]
    /\ UNCHANGED <<queue, inProgress, hreq, reqVars, thrVars, htick, announced,
                   hwVars>>

KickNextForgotten(c) ==
    /\ hpc[c] = "kick"
    /\ hreq' = [hreq EXCEPT ![c] = NULL]
    /\ hpc' = [hpc EXCEPT ![c] = "event"]
    /\ UNCHANGED <<ctlVars, reqVars, thrVars, htick, announced, hwVars>>

\* dma_done after the lock: kick_off_xfer for the request just taken.
KickNext(c) ==
    /\ hpc[c] = "kick"
    /\ ChanStart(c, hreq[c])
    /\ hreq' = [hreq EXCEPT ![c] = NULL]
    /\ hpc' = [hpc EXCEPT ![c] = "event"]
    /\ UNCHANGED <<ctlVars, reqVars, thrVars, htick, announced>>

\* dma_msi_handler after dma_done: bifrost_create_event_in_atomic.
CreateEvent(c) ==
    /\ hpc[c] = "event"
    /\ announced' = announced \union {htick[c]}
    /\ htick' = [htick EXCEPT ![c] = 0]
    /\ hpc' = [hpc EXCEPT ![c] = "off"]
    /\ UNCHANGED <<ctlVars, reqVars, thrVars, hreq, hwVars>>

-------------------------------------------------------------------------------
ThreadStep(t) == \/ AllocReq(t) \/ RejectReq(t) \/ AbandonReq(t)
                 \/ StartXfer(t) \/ KickOff(t) \/ Return(t)

ChannelStep(c) == \/ HwComplete(c) \/ Spurious(c) \/ TakeDone(c)
                  \/ RefillNext(c) \/ RefillNone(c)
                  \/ KickNext(c) \/ CreateEvent(c)

Next == \/ \E t \in Threads : ThreadStep(t)
        \/ \E c \in Ch : ChannelStep(c)

Spec == Init /\ [][Next]_vars

\* A thread past its submission and a handler keep running; the FPGA finishes
\* every transfer it was told to start.  Nobody is obliged to submit.
Fairness ==
    /\ \A t \in Threads : WF_vars(KickOff(t))
    /\ \A c \in Ch : WF_vars(ChannelStep(c))

FairSpec == Spec /\ Fairness
-------------------------------------------------------------------------------
(* Properties *)

PCs  == {"user", "ready", "kick", "started"}
HPCs == {"off", "refill", "kick", "event"}
Tickets == 1 .. MaxTicket

\* Every variable stays in its type; in particular idle_bitmap only ever names
\* channels that exist and a local channel number is a channel or -1.
TypeOK ==
    /\ queue \in Seq(Reqs)
    /\ idle \in SUBSET Ch
    /\ inProgress \in [Ch -> Reqs \union {NULL}]
    /\ live \in SUBSET Reqs /\ leaked \in SUBSET Reqs
    /\ reqTicket \in [Reqs -> Nat] /\ ticket \in Nat
    /\ pc \in [Threads -> PCs]
    /\ treq \in [Threads -> Reqs \union {NULL}]
    /\ tch \in [Threads -> Ch \union {-1}]
    /\ hpc \in [Ch -> HPCs]
    /\ hreq \in [Ch -> Reqs \union {NULL}]
    /\ htick \in [Ch -> Nat] /\ announced \in SUBSET Nat
    /\ hw \in [Ch -> {"stopped", "running", "msi"}]
    /\ hwTicket \in [Ch -> Nat]

Elems(q) == {q[i] : i \in 1..Len(q)}
NoDup(q) == \A i, j \in 1..Len(q) : q[i] = q[j] => i = j

Queued    == Elems(queue)
OnChannel == {inProgress[c] : c \in {d \in Ch : inProgress[d] # NULL}}
InHand    == {treq[t] : t \in {u \in Threads : pc[u] = "ready"}}

\* A request that is allocated has exactly one owner: the queue (once), one
\* channel, one thread that has not submitted it, or nobody because
\* prepare_dma_buffer failed (bifrost_cdev.c:420).  So kfree in dma_done frees
\* memory that nothing else still points to, whatever the interleaving of
\* start_dma_xfer and dma_done.
OneOwner ==
    /\ live = Queued \union OnChannel \union InHand \union leaked
    /\ Queued \intersect (OnChannel \union InHand \union leaked) = {}
    /\ OnChannel \intersect (InHand \union leaked) = {}
    /\ InHand \intersect leaked = {}
    /\ NoDup(queue)
    /\ \A c, d \in Ch :
          inProgress[c] = inProgress[d] /\ inProgress[c] # NULL => c = d
    /\ \A t, u \in Threads :
          pc[t] = "ready" /\ pc[u] = "ready" /\ treq[t] = treq[u] => t = u

\* No channel the driver may use is ever lost or given out twice: it is idle,
\* or has a request in progress, or its handler is between taking the old
\* request off it and refilling it.  A channel busy at probe is never used.
ChannelsConserved ==
    \A c \in Ch :
      IF c \in BusyAtProbe
      THEN c \notin idle /\ inProgress[c] = NULL /\ hpc[c] = "off"
      ELSE /\ (c \in idle) <=> (inProgress[c] = NULL /\ hpc[c] # "refill")
           /\ hpc[c] = "refill" => inProgress[c] = NULL

\* start_dma_xfer and dma_done agree through the lock: a request waits in the
\* queue only while there is no idle channel, so a queued request is always
\* picked up by some later dma_done.
WaitsOnlyWhenBusy == queue # <<>> => idle = {}

\* kick_off_xfer runs after the lock is dropped.  Whoever is about to program
\* a channel still owns it: its request is alive and in progress there, the
\* FPGA is not running the channel, and nobody else is about to program it.
KickIsOwned ==
    /\ \A t \in Threads : pc[t] = "kick" =>
         /\ tch[t] \in Ch
         /\ treq[t] \in live /\ inProgress[tch[t]] = treq[t]
         /\ hw[tch[t]] = "stopped" /\ hpc[tch[t]] # "kick"
         /\ \A u \in Threads \ {t} : pc[u] = "kick" => tch[u] # tch[t]
    /\ \A c \in Ch : hpc[c] = "kick" =>
         /\ hreq[c] \in live /\ inProgress[c] = hreq[c]
         /\ hw[c] = "stopped"

\* The transfer the FPGA runs on a channel is the one the driver has in
\* progress there, so dma_done announces and frees the request whose transfer
\* ended and not a successor's.
RunsWhatIsInProgress ==
    \A c \in Ch \ BusyAtProbe : hw[c] # "stopped" =>
      /\ inProgress[c] \in live
      /\ hwTicket[c] = reqTicket[inProgress[c]]

\* The DMA_DONE event of a ticket is created at most once
\* (bifrost_pci.c:398-404), even though the memory of a request is reused by
\* later requests while the handler of the earlier one is still running.
DoneOnce ==
    [][\A c \in Ch : hpc[c] = "event" /\ hpc'[c] = "off" =>
         htick[c] \in 1..ticket /\ htick[c] \notin announced]_vars

\* Why DoneOnce holds: a ticket names one live request, or the completion one
\* handler is about to announce, or an announced completion, never two of them.
TicketsUnique ==
    /\ \A r \in live : reqTicket[r] \in (1..ticket) \ announced
    /\ \A r, s \in live : reqTicket[r] = reqTicket[s] => r = s
    /\ \A c \in Ch : hpc[c] # "off" =>
         /\ htick[c] \in (1..ticket) \ announced
         /\ \A r \in live : reqTicket[r] # htick[c]
         /\ \A d \in Ch \ {c} : hpc[d] # "off" => htick[d] # htick[c]
    /\ announced \subseteq 1..ticket

Submitted == {reqTicket[r] : r \in Queued \union OnChannel}

\* A transfer that was submitted is eventually announced, also when it had to
\* wait in the queue: dma_done always restarts the channel it is called for.
SubmittedIsAnnounced ==
    \A k \in Tickets : (k \in Submitted) ~> (k \in announced)

\* The engine implements the transfer service: FIFO order, bounded
\* concurrency, every started transfer finishes.
Service == INSTANCE DmaService WITH
    Capacity <- Cardinality(Ch \ BusyAtProbe),
    pending  <- [i \in 1..Len(queue) |-> reqTicket[queue[i]]],
    running  <- {reqTicket[r] : r \in OnChannel},
    finished <- announced \union
                {htick[c] : c \in {d \in Ch : hpc[d] # "off"}}

ImplementsService == Service!SSpec
===============================================================================
