-------------------------------- MODULE I2cUsim --------------------------------
(***************************************************************************)
(* The simulated I2C adapter of i2c_usim.c.  A sender (an I2C or SMBus     *)
(* transfer) posts an event and blocks; threads of a simulator process GET *)
(* the event, process it and PUT it back.  Events are reference counted;   *)
(* a sender can be interrupted, and the simulator killed and restarted.    *)
(* The module is loaded and unloaded; senders hold a reference to its      *)
(* adapter, the simulator an open file, and each keeps it loaded.          *)
(*                                                                         *)
(* An event is named by its ticket: every allocation gets a new one.       *)
(***************************************************************************)
EXTENDS Integers, Sequences, FiniteSets

CONSTANTS Senders, Threads,
          MaxMsgs,   \* bound: messages of a transfer
          MaxTicket, \* bound: events allocated
          MaxKills,  \* bound: how often the simulator is killed
          MaxLoads,  \* bound: how often the module is loaded
          Behaved,   \* the simulator PUTs only what it got, once, and before it polls again
          BusLock,   \* the I2C core lets one transfer at a time use the adapter
          EarlyUse   \* the adapter may be used before i2c_usim_init returns

ASSUME UsimAssumption ==
    /\ MaxMsgs \in Nat /\ MaxTicket \in Nat /\ MaxKills \in Nat /\ MaxLoads \in Nat
    /\ Behaved \in BOOLEAN /\ BusLock \in BOOLEAN /\ EarlyUse \in BOOLEAN

Tickets == 1..MaxTicket

VARIABLES
    mod, loads,    \* how far i2c_usim_init or i2c_usim_exit is; loads so far
    holders,       \* senders with a reference to the adapter
    ticket,        \* __ticket__
    alive, refcnt, \* per event: allocated and not freed, reference count
    state, status, \* per event
    queue,         \* i2c_eventq.list
    spc, sev, sint,\* per sender: where it is, its event, was it interrupted
    todo, failed,  \* per sender: messages to go, has one of them failed
    rpc, rev,      \* per simulator thread: where it is, the event it works on
    rstat, told,   \* per simulator thread: the status it completes with, did poll
                   \* tell it of an event
    open,          \* i2c_usim_users = 1
    gotten,        \* what the simulator got and has not PUT back
    kills,
    served, okRet  \* ghost: events PUT with their data, events reported as success

modVars == <<mod, loads, holders>>
evVars  == <<ticket, alive, refcnt, state, status, queue>>
sndVars == <<spc, sev, sint, todo, failed>>
rcvVars == <<rpc, rev, rstat, told>>
simVars == <<open, gotten, kills>>
ghosts  == <<served, okRet>>
vars == <<modVars, evVars, sndVars, rcvVars, simVars, ghosts>>

Init ==
    /\ mod = "out" /\ loads = 0 /\ holders = {}
    /\ ticket = 0
    /\ alive = {} /\ refcnt = [e \in Tickets |-> 0]
    /\ state = [e \in Tickets |-> "READY"] /\ status = [e \in Tickets |-> "ok"]
    /\ queue = <<>>
    /\ spc = [s \in Senders |-> "idle"] /\ sev = [s \in Senders |-> 0]
    /\ sint = [s \in Senders |-> FALSE]
    /\ todo = [s \in Senders |-> 0] /\ failed = [s \in Senders |-> FALSE]
    /\ rpc = [r \in Threads |-> "idle"] /\ rev = [r \in Threads |-> 0]
    /\ rstat = [r \in Threads |-> "ok"] /\ told = [r \in Threads |-> FALSE]
    /\ open = FALSE /\ gotten = {} /\ kills = 0
    /\ served = {} /\ okRet = {}

-------------------------------------------------------------------------------
(* i2c_usim_init and i2c_usim_exit.  The adapter is live with                 *)
(* i2c_add_adapter, before the queue is initialised and the character device  *)
(* is registered.                                                             *)

AddAdapter ==
    /\ mod = "out" /\ loads < MaxLoads
    /\ mod' = "adapter" /\ loads' = loads + 1
    /\ UNCHANGED <<holders, evVars, sndVars, rcvVars, simVars, ghosts>>

InitEventQueue ==
    /\ mod = "adapter" /\ mod' = "queue"
    /\ queue' = <<>>
    /\ UNCHANGED <<loads, holders, ticket, alive, refcnt, state, status, sndVars, rcvVars,
                   simVars, ghosts>>

\* register_chrdev succeeds, or fails and the adapter is removed.
RegisterChrdev ==
    /\ mod = "queue" /\ mod' \in {"live", "del"}
    /\ UNCHANGED <<loads, holders, evVars, sndVars, rcvVars, simVars, ghosts>>

\* rmmod: refused as long as the module is in use.
InUse == open \/ holders # {}

Exit ==
    /\ mod = "live" /\ ~InUse /\ mod' = "del"
    /\ UNCHANGED <<loads, holders, evVars, sndVars, rcvVars, simVars, ghosts>>

\* i2c_del_adapter waits for the references to the adapter.
DelAdapter ==
    /\ mod = "del" /\ holders = {} /\ mod' = "out"
    /\ UNCHANGED <<loads, holders, evVars, sndVars, rcvVars, simVars, ghosts>>

\* i2c_get_adapter and i2c_put_adapter in the users of the adapter
GetAdapter(s) ==
    /\ mod = "live" \/ (EarlyUse /\ mod \in {"adapter", "queue"})
    /\ s \notin holders /\ holders' = holders \union {s}
    /\ UNCHANGED <<mod, loads, evVars, sndVars, rcvVars, simVars, ghosts>>

PutAdapter(s) ==
    /\ s \in holders /\ spc[s] = "idle" /\ holders' = holders \ {s}
    /\ UNCHANGED <<mod, loads, evVars, sndVars, rcvVars, simVars, ghosts>>

-------------------------------------------------------------------------------
\* get_event, put_event
NoGetEvent(e) == UNCHANGED refcnt
GetEvent(e) == refcnt' = [refcnt EXCEPT ![e] = @ + 1]

PutEvent(e) ==
    /\ refcnt' = [refcnt EXCEPT ![e] = @ - 1]
    /\ alive' = IF refcnt[e] = 1 THEN alive \ {e} ELSE alive

-------------------------------------------------------------------------------
(* The sender: alloc_i2c_event, post_event, wait_event_completion, put_event *)

\* smb_usim_xfer, one message, and i2c_usim_xfer, any number.
Begin(s, n) ==
    /\ s \in holders /\ spc[s] = "idle" /\ ticket + n <= MaxTicket
    /\ BusLock => \A x \in Senders : spc[x] = "idle"
    /\ todo' = [todo EXCEPT ![s] = n] /\ spc' = [spc EXCEPT ![s] = "post"]
    /\ UNCHANGED <<modVars, evVars, sev, sint, failed, rcvVars, simVars, ghosts>>

\* i2c_usim_xfer goes on with the next message, also after one that failed.
MessageDone(s, ok) ==
    /\ failed' = [failed EXCEPT ![s] = @ \/ ~ok]
    /\ todo' = [todo EXCEPT ![s] = @ - 1]
    /\ spc' = [spc EXCEPT ![s] = IF todo[s] > 1 THEN "post" ELSE "ret"]

\* alloc_event fails: -ENOMEM
AllocFails(s) ==
    /\ spc[s] = "post" /\ MessageDone(s, FALSE)
    /\ UNCHANGED <<modVars, evVars, sev, sint, rcvVars, simVars, ghosts>>

AllocRefcnt == 1

\* wake_up(&e->queue->waitq)
NoWake == rpc
WakePollers == [r \in Threads |-> IF rpc[r] = "sleep" THEN "poll" ELSE rpc[r]]

Post(s) ==
    LET e == ticket + 1
    IN  /\ spc[s] = "post" /\ ticket < MaxTicket
        /\ ticket' = e
        /\ alive' = alive \union {e}
        /\ refcnt' = [refcnt EXCEPT ![e] = AllocRefcnt]
        /\ state' = [state EXCEPT ![e] = "READY"]
        /\ queue' = Append(queue, e)
        /\ sev' = [sev EXCEPT ![s] = e] /\ spc' = [spc EXCEPT ![s] = "wait"]
        /\ rpc' = WakePollers
        /\ UNCHANGED <<modVars, status, sint, todo, failed, rev, rstat, told, simVars, ghosts>>

\* wait_event_interruptible sees STATE_DONE: before it sleeps, or once woken.
WaitDone(s) ==
    /\ spc[s] = "wait" /\ state[sev[s]] = "DONE"
    /\ spc' = [spc EXCEPT ![s] = "del"]
    /\ UNCHANGED <<modVars, evVars, sev, sint, todo, failed, rcvVars, simVars, ghosts>>

\* ... or a signal ends the wait: -ERESTARTSYS.
WaitSignal(s) ==
    /\ spc[s] = "wait" /\ state[sev[s]] # "DONE"
    /\ spc' = [spc EXCEPT ![s] = "del"]
    /\ sint' = [sint EXCEPT ![s] = TRUE]
    /\ UNCHANGED <<modVars, evVars, sev, todo, failed, rcvVars, simVars, ghosts>>

InQueue(e) == \E i \in DOMAIN queue : queue[i] = e

\* list_del.  (Not on the queue: it was initialised again since the event was posted.)
ListDel(s) ==
    /\ spc[s] = "del"
    /\ IF InQueue(sev[s])
       THEN \E i \in DOMAIN queue :
              /\ queue[i] = sev[s]
              /\ queue' = SubSeq(queue, 1, i - 1) \o SubSeq(queue, i + 1, Len(queue))
       ELSE UNCHANGED queue
    /\ spc' = [spc EXCEPT ![s] = "put"]
    /\ UNCHANGED <<modVars, ticket, alive, refcnt, state, status, sev, sint, todo, failed,
                   rcvVars, simVars, ghosts>>

\* Success only with v = 0 and status 0; then the data is copied out of the event,
\* unless it is a block of an impossible length (-EPROTO).
SenderPut(s) ==
    LET done == status[sev[s]] = "ok" /\ ~sint[s]
    IN  /\ spc[s] = "put"
        /\ \E ok \in {done, FALSE} :
             /\ okRet' = IF ok THEN okRet \union {sev[s]} ELSE okRet
             /\ MessageDone(s, ok)
        /\ PutEvent(sev[s])
        /\ sev' = [sev EXCEPT ![s] = 0] /\ sint' = [sint EXCEPT ![s] = FALSE]
        /\ UNCHANGED <<modVars, ticket, state, status, queue, rcvVars, simVars, served>>

\* smb_usim_xfer returns the error, i2c_usim_xfer the number of successes.
SenderReturn(s) ==
    /\ spc[s] = "ret" /\ spc' = [spc EXCEPT ![s] = "idle"]
    /\ failed' = [failed EXCEPT ![s] = FALSE]
    /\ UNCHANGED <<modVars, evVars, sev, sint, todo, rcvVars, simVars, ghosts>>

-------------------------------------------------------------------------------
(* The simulator *)

\* i2c_usim_open: one user at a time.
Open ==
    /\ mod = "live" /\ ~open
    /\ open' = TRUE
    /\ UNCHANGED <<modVars, evVars, sndVars, rcvVars, gotten, kills, ghosts>>

\* poll: first on the wait queue, then look for an event that is ready.
PollWait(r) ==
    /\ open /\ rpc[r] = "idle" /\ ~told[r] /\ (Behaved => gotten = {})
    /\ rpc' = [rpc EXCEPT ![r] = "poll"]
    /\ UNCHANGED <<modVars, evVars, sndVars, rev, rstat, told, simVars, ghosts>>

PollCheck(r) ==
    LET ready == \E i \in DOMAIN queue : state[queue[i]] = "READY"
    IN  /\ rpc[r] = "poll"
        /\ rpc' = [rpc EXCEPT ![r] = IF ready THEN "idle" ELSE "sleep"]
        /\ told' = [told EXCEPT ![r] = ready]
        /\ UNCHANGED <<modVars, evVars, sndVars, rev, rstat, simVars, ghosts>>

\* GET_EVENT, get_1st_ready_event under the queue lock; -EINVAL if there is none.
Gettable(e) == state[e] = "READY"

Get(r) ==
    /\ open /\ rpc[r] = "idle"
    /\ \E i \in DOMAIN queue :
         LET e == queue[i]
         IN  /\ Gettable(e)
             /\ \A j \in 1..(i - 1) : ~Gettable(queue[j])
             /\ state' = [state EXCEPT ![e] = "IN_PROGRESS"]
             /\ GetEvent(e)
             /\ rev' = [rev EXCEPT ![r] = e]
    /\ rpc' = [rpc EXCEPT ![r] = "copy"] /\ told' = [told EXCEPT ![r] = FALSE]
    /\ UNCHANGED <<modVars, ticket, alive, status, queue, sndVars, rstat, simVars, ghosts>>

GetNone(r) ==
    /\ open /\ rpc[r] = "idle" /\ told[r]
    /\ ~\E i \in DOMAIN queue : Gettable(queue[i])
    /\ told' = [told EXCEPT ![r] = FALSE]
    /\ UNCHANGED <<modVars, evVars, sndVars, rpc, rev, rstat, simVars, ghosts>>

\* The copy to user-space succeeds, or the event is completed with -EIO.
GetCopied(r) ==
    /\ rpc[r] = "copy"
    /\ gotten' = gotten \union {rev[r]}
    /\ rpc' = [rpc EXCEPT ![r] = "idle"] /\ rev' = [rev EXCEPT ![r] = 0]
    /\ UNCHANGED <<modVars, evVars, sndVars, rstat, told, open, kills, ghosts>>

GetFault(r) ==
    /\ rpc[r] = "copy"
    /\ rstat' = [rstat EXCEPT ![r] = "error"] /\ rpc' = [rpc EXCEPT ![r] = "complete"]
    /\ UNCHANGED <<modVars, evVars, sndVars, rev, told, simVars, ghosts>>

\* PUT_EVENT: lookup_event_w_ticket, under the queue lock; -EINVAL if the event is
\* not on the queue.
MayPut(e) == e \in gotten \/ ~Behaved

PutLookup(r, e) ==
    /\ open /\ rpc[r] = "idle" /\ MayPut(e)
    /\ gotten' = gotten \ {e}
    /\ IF InQueue(e)
       THEN rev' = [rev EXCEPT ![r] = e] /\ rpc' = [rpc EXCEPT ![r] = "fill"]
       ELSE UNCHANGED <<rev, rpc>>
    /\ UNCHANGED <<modVars, evVars, sndVars, rstat, told, open, kills, ghosts>>

\* The data of a read is copied into the event, or this fails.
Fill(r) ==
    /\ rpc[r] = "fill"
    /\ \/ rstat' = [rstat EXCEPT ![r] = "ok"] /\ served' = served \union {rev[r]}
       \/ rstat' = [rstat EXCEPT ![r] = "error"] /\ UNCHANGED served
    /\ rpc' = [rpc EXCEPT ![r] = "complete"]
    /\ UNCHANGED <<modVars, evVars, sndVars, rev, told, simVars, okRet>>

\* complete_event: set status and state ...
Complete(r) ==
    /\ rpc[r] = "complete"
    /\ status' = [status EXCEPT ![rev[r]] = rstat[r]]
    /\ state' = [state EXCEPT ![rev[r]] = "DONE"]
    /\ rpc' = [rpc EXCEPT ![r] = "put"]
    /\ UNCHANGED <<modVars, ticket, alive, refcnt, queue, sndVars, rev, rstat, told, simVars,
                   ghosts>>

\* ... then wake_up(&e->waitq), and drop the reference.
CompletePut(r) ==
    /\ rpc[r] = "put"
    /\ PutEvent(rev[r])
    /\ rpc' = [rpc EXCEPT ![r] = "idle"] /\ rev' = [rev EXCEPT ![r] = 0]
    /\ rstat' = [rstat EXCEPT ![r] = "ok"]
    /\ UNCHANGED <<modVars, ticket, state, status, queue, sndVars, told, simVars, ghosts>>

\* i2c_usim_release, when no ioctl is running (a poll is given up): under the queue
\* lock, complete the events in progress, with -EIO.
OrphanStatusOk == "ok"
OrphanStatus == "error"
Orphans == {e \in Tickets : InQueue(e) /\ state[e] = "IN_PROGRESS"}

Release ==
    /\ open /\ kills < MaxKills /\ \A r \in Threads : rpc[r] \in {"idle", "poll", "sleep"}
    /\ status' = [e \in Tickets |-> IF e \in Orphans THEN OrphanStatus ELSE status[e]]
    /\ state' = [e \in Tickets |-> IF e \in Orphans THEN "DONE" ELSE state[e]]
    /\ refcnt' = [e \in Tickets |-> IF e \in Orphans THEN refcnt[e] - 1 ELSE refcnt[e]]
    /\ alive' = alive \ {e \in Orphans : refcnt[e] = 1}
    /\ open' = FALSE /\ gotten' = {} /\ kills' = kills + 1
    /\ rpc' = [r \in Threads |-> "idle"] /\ told' = [r \in Threads |-> FALSE]
    /\ UNCHANGED <<modVars, ticket, queue, sndVars, rev, rstat, ghosts>>

-------------------------------------------------------------------------------
SenderStep(s) ==
    Post(s) \/ AllocFails(s) \/ WaitDone(s) \/ ListDel(s) \/ SenderPut(s) \/ SenderReturn(s)
ThreadStep(r) ==
    PollCheck(r) \/ GetCopied(r) \/ GetFault(r) \/ Fill(r) \/ Complete(r) \/ CompletePut(r)

Next ==
    \/ AddAdapter \/ InitEventQueue \/ RegisterChrdev \/ Exit \/ DelAdapter
    \/ \E s \in Senders :
         \/ GetAdapter(s) \/ PutAdapter(s) \/ (\E n \in 1..MaxMsgs : Begin(s, n))
         \/ WaitSignal(s) \/ SenderStep(s)
    \/ \E r \in Threads :
         \/ PollWait(r) \/ Get(r) \/ GetNone(r) \/ (\E e \in Tickets : PutLookup(r, e))
         \/ ThreadStep(r)
    \/ Open \/ Release

Spec == Init /\ [][Next]_vars

\* Kernel code runs.  The simulator, when it is killed, is restarted; its threads
\* poll, GET when poll told them of an event, and PUT back what the simulator got,
\* unless it is killed first.
FairSpec ==
    /\ Spec
    /\ \A s \in Senders : WF_vars(SenderStep(s))
    /\ \A r \in Threads : /\ WF_vars(ThreadStep(r)) /\ WF_vars(PollWait(r))
                          /\ WF_vars(told[r] /\ (Get(r) \/ GetNone(r)))
    /\ WF_vars(Open)
    /\ \A e \in Tickets : WF_vars(\E r \in Threads : PutLookup(r, e) /\ MayPut(e))

-------------------------------------------------------------------------------
(* Properties *)

\* Every variable stays in its type; no reference count drops below zero.
TypeOK ==
    /\ mod \in {"out", "adapter", "queue", "live", "del"} /\ loads \in 0..MaxLoads
    /\ holders \subseteq Senders
    /\ ticket \in 0..MaxTicket /\ alive \in SUBSET Tickets
    /\ refcnt \in [Tickets -> Nat]
    /\ state \in [Tickets -> {"READY", "IN_PROGRESS", "DONE"}]
    /\ status \in [Tickets -> {"ok", "error"}]
    /\ queue \in Seq(Tickets)
    /\ spc \in [Senders -> {"idle", "post", "wait", "del", "put", "ret"}]
    /\ todo \in [Senders -> 0..MaxMsgs] /\ failed \in [Senders -> BOOLEAN]
    /\ rpc \in [Threads -> {"idle", "poll", "sleep", "copy", "fill", "complete", "put"}]
    /\ told \in [Threads -> BOOLEAN]
    /\ open \in BOOLEAN /\ gotten \in SUBSET Tickets /\ kills \in 0..MaxKills

\* Whatever is interrupted, killed or unloaded, nobody holds, and the queue does not
\* link, an event that was freed; and nobody is inside a module that is not loaded.
NoUseAfterFree ==
    /\ \A s \in Senders : spc[s] \in {"wait", "del", "put"} => sev[s] \in alive
    /\ \A r \in Threads : rpc[r] \in {"copy", "fill", "complete", "put"} => rev[r] \in alive
    /\ \A i \in DOMAIN queue : queue[i] \in alive
    /\ open \/ holders # {} => mod # "out"

\* "If the receiver is killed (ctrl-c), any event in state 1 must be completed"
\* (i2c_usim.c:84): without a simulator no posted event is in progress.
OrphansCompleted ==
    ~open => \A i \in DOMAIN queue : state[queue[i]] # "IN_PROGRESS"

\* A message is reported as a success only if the simulator PUT the event with
\* its data, not when the event was completed for a simulator that failed or died.
SuccessMeansServed == okRet \subseteq served

\* i2c_main.c:430 takes every answer of i2c_transfer that is not negative as a
\* success: a transfer that ends has moved all its messages.  It does not hold:
\* i2c_usim_xfer counts, and never returns an error.
TransferMovesAll == \A s \in Senders : spc[s] = "ret" => ~failed[s]

\* The event state-machine of i2c_usim.c:76: an event that is posted becomes
\* ready, in progress, done, in this order and once each.  It holds if Behaved.
StateMachine ==
    [][\A e \in alive : <<state[e], state'[e]>> \in
         {<<"READY", "READY">>, <<"READY", "IN_PROGRESS">>,
          <<"IN_PROGRESS", "IN_PROGRESS">>, <<"IN_PROGRESS", "DONE">>,
          <<"DONE", "DONE">>}]_vars

\* A queue that a sender posts on is initialised.  It does not hold with EarlyUse.
PostsOnQueue == \A s \in Senders : spc[s] = "post" => mod # "adapter"

\* "otherwise the sender will hang until it is terminated (ctrl-c) even if the
\* simulator is restarted" (i2c_usim.c:85): every transfer ends, when the simulator
\* only looks for an event after poll told it of one.
SenderReturns == \A s \in Senders : spc[s] = "post" ~> spc[s] = "idle"
===============================================================================
