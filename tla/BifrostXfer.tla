------------------------------ MODULE BifrostXfer ------------------------------
(***************************************************************************)
(* The START_DMA ioctls of bifrost_cdev.c on top of the engine BifrostDma. *)
(* A call with BIFROST_DMA_USER_BUFFER bounces its data through the one    *)
(* static saved_dma_buf (prepare_dma_buffer), which no lock protects, and  *)
(* waits at most a second for a completion that lives on its own stack     *)
(* (finish_dma_buffer).  A plain call returns as soon as the request is    *)
(* started or queued.                                                      *)
(*                                                                         *)
(* A thread's stack frame is named by the thread: a later call of the same *)
(* ioctl puts its completion at the same address.                          *)
(***************************************************************************)
EXTENDS BifrostDma

CONSTANTS Bufs,     \* addresses dma_alloc_coherent can return
          MaxSize   \* bound: transfer sizes are 1..MaxSize

ASSUME XferAssumption == NULL \notin Bufs \union Threads /\ MaxSize \in Nat

VARIABLES
    saved,      \* saved_dma_buf: [virt, size]
    bufSize,    \* per buffer: the size it was allocated with, 0 when it is not allocated
    bufData,    \* per buffer: the ticket whose data it holds
    xpc,        \* per thread: where it is in prepare_dma_buffer
    call,       \* per thread: its local variables [usr, dir, size, ticket, buf]
    work,       \* per thread: usr_req.work is completed
    pwork,      \* per request: req->pwork, NULL or the thread it points to
    reqBuf,     \* per request: [buf, dir] of its bounce buffer, NULL when plain
    hwBuf,      \* per channel: [buf, dir] the FPGA was programmed with
    moved,      \* per ticket: the data a finished user transfer moved
    \* history
    left,       \* tickets under way whose call timed out or was woken too early
    late,       \* threads whose call waits where a late completion may still hit
    disturbed,  \* tickets of the user-buffer transfers that overlapped another one,
                \* as long as not raced
    raced       \* two calls were replacing the bounce buffer at once

bufVars  == <<saved, bufSize>>
histVars == <<left, late, disturbed, raced>>
xVars == <<saved, bufSize, bufData, xpc, call, work, pwork, reqBuf, hwBuf,
           moved, left, late, disturbed, raced>>
allVars == <<vars, xVars>>

Allocated == {b \in Bufs : bufSize[b] > 0}

NoCall == [usr |-> FALSE, dir |-> "down", size |-> 0, ticket |-> 0, buf |-> NULL]
NoBuf  == [buf |-> NULL, dir |-> "down"]

XInit ==
    /\ Init
    /\ saved = [virt |-> NULL, size |-> 0]
    /\ bufSize = [b \in Bufs |-> 0]
    /\ bufData = [b \in Bufs |-> 0]
    /\ xpc = [t \in Threads |-> "none"]
    /\ call = [t \in Threads |-> NoCall]
    /\ work = [t \in Threads |-> FALSE]
    /\ pwork = [r \in Reqs |-> NULL]
    /\ reqBuf = [r \in Reqs |-> NoBuf]
    /\ hwBuf = [c \in Ch |-> NoBuf]
    /\ moved = [k \in Tickets |-> 0]
    /\ left = {} /\ late = {} /\ disturbed = {} /\ raced = FALSE

-------------------------------------------------------------------------------
(* bifrost_do_xfer and do_dma_start_xfer up to prepare_dma_buffer *)

\* The user-buffer transfers under way: of calls that have not returned, and of
\* calls that timed out and left theirs to the engine.
Submissions == Queued \union OnChannel
Bouncing == {call[t].ticket : t \in {u \in Threads : call[u].usr}}
            \union {reqTicket[r] : r \in {s \in Submissions : pwork[s] # NULL}}

BeginNoZero(t, usr, dir, size) ==
    /\ AllocReq(t)
    /\ reqBuf' = [reqBuf EXCEPT ![treq'[t]] = NoBuf]
    /\ call' = [call EXCEPT ![t] = [usr |-> usr, dir |-> dir, size |-> size,
                                    ticket |-> ticket', buf |-> NULL]]
    /\ xpc' = [xpc EXCEPT ![t] = IF usr THEN "check" ELSE "none"]
    /\ disturbed' = IF usr /\ ~raced /\ Bouncing # {}
                  THEN disturbed \union Bouncing \union {ticket'}
                  ELSE disturbed
    /\ UNCHANGED <<bufVars, bufData, work, pwork, hwBuf, moved, left, late, raced>>

Begin(t, usr, dir, size) ==
    /\ AllocReq(t)
    /\ pwork' = [pwork EXCEPT ![treq'[t]] = NULL]
    /\ reqBuf' = [reqBuf EXCEPT ![treq'[t]] = NoBuf]
    /\ call' = [call EXCEPT ![t] = [usr |-> usr, dir |-> dir, size |-> size,
                                    ticket |-> ticket', buf |-> NULL]]
    /\ xpc' = [xpc EXCEPT ![t] = IF usr THEN "check" ELSE "none"]
    /\ disturbed' = IF usr /\ ~raced /\ Bouncing # {}
                  THEN disturbed \union Bouncing \union {ticket'}
                  ELSE disturbed
    /\ UNCHANGED <<bufVars, bufData, work, hwBuf, moved, left, late, raced>>

-------------------------------------------------------------------------------
(* prepare_dma_buffer reads and writes saved_dma_buf without a lock, so every *)
(* access is a step of its own.                                               *)

Prepare(t, from, to) ==
    /\ xpc[t] = from
    /\ xpc' = [xpc EXCEPT ![t] = to]
    /\ UNCHANGED <<vars, hwBuf, moved, left>>

\* An error return: the request is not freed.
PrepareFails(t) ==
    /\ AbandonReq(t)
    /\ call' = [call EXCEPT ![t] = NoCall]
    /\ xpc' = [xpc EXCEPT ![t] = "none"]
    /\ late' = late \ {t}
    /\ UNCHANGED <<bufSize, work, pwork, reqBuf, hwBuf, moved, left, disturbed, raced>>

NeedsGrow(t) == call[t].size > saved.size
Growing == {"free", "resize", "alloc", "assign", "nomem"}

\* size > saved_dma_buf.size
CheckSize(t) ==
    /\ Prepare(t, "check", IF NeedsGrow(t) THEN "free" ELSE "point")
    /\ raced' = (raced \/ (NeedsGrow(t) /\ \E u \in Threads : xpc[u] \in Growing))
    /\ disturbed' = IF raced' THEN {} ELSE disturbed
    /\ UNCHANGED <<bufVars, bufData, call, work, pwork, reqBuf, late>>

\* dma_free_coherent; saved_dma_buf.virt keeps the address.
GrowFree(t) ==
    /\ Prepare(t, "free", "resize")
    /\ bufSize' = IF saved.virt = NULL THEN bufSize
                  ELSE [bufSize EXCEPT ![saved.virt] = 0]
    /\ UNCHANGED <<saved, bufData, call, work, pwork, reqBuf, late, disturbed, raced>>

GrowResize(t) ==
    /\ Prepare(t, "resize", "alloc")
    /\ saved' = [saved EXCEPT !.size = call[t].size]
    /\ UNCHANGED <<bufSize, bufData, call, work, pwork, reqBuf, late, disturbed, raced>>

\* dma_alloc_coherent of saved_dma_buf.size, whatever that is by now, may sleep
\* and may fail, and does so for no bytes at all.  What it returns is in the caller's hand ...
GrowAlloc(t) ==
    /\ Prepare(t, "alloc", "assign")
    /\ \/ \E b \in Bufs \ Allocated :
            /\ saved.size > 0
            /\ bufSize' = [bufSize EXCEPT ![b] = saved.size]
            /\ call' = [call EXCEPT ![t].buf = b]
       \/ UNCHANGED <<bufSize, call>>
    /\ UNCHANGED <<saved, bufData, work, pwork, reqBuf, late, disturbed, raced>>

\* ... until it is stored.
GrowAssign(t) ==
    /\ Prepare(t, "assign", IF call[t].buf = NULL THEN "nomem" ELSE "point")
    /\ saved' = [saved EXCEPT !.virt = call[t].buf]
    /\ call' = [call EXCEPT ![t].buf = NULL]
    /\ UNCHANGED <<bufSize, bufData, work, pwork, reqBuf, late, disturbed, raced>>

GrowFailsKeepsSize(t) ==
    /\ xpc[t] = "nomem"
    /\ PrepareFails(t)
    /\ UNCHANGED <<saved, bufData>>

GrowFails(t) ==
    /\ xpc[t] = "nomem"
    /\ PrepareFails(t)
    /\ saved' = [saved EXCEPT !.size = 0]
    /\ UNCHANGED bufData

\* dev_buff, init_completion and pwork.  A completion of an earlier request that
\* points to this frame may still be to come.
PointNoInit(t) ==
    /\ Prepare(t, "point", IF call[t].dir = "down" THEN "copy" ELSE "map")
    /\ call' = [call EXCEPT ![t].buf = saved.virt]
    /\ pwork' = [pwork EXCEPT ![treq[t]] = t]
    /\ late' = IF \E r \in Submissions : pwork[r] = t
               THEN late \union {t} ELSE late
    /\ UNCHANGED <<bufVars, bufData, work, reqBuf, disturbed, raced>>

Point(t) ==
    /\ Prepare(t, "point", IF call[t].dir = "down" THEN "copy" ELSE "map")
    /\ call' = [call EXCEPT ![t].buf = saved.virt]
    /\ work' = [work EXCEPT ![t] = FALSE]
    /\ pwork' = [pwork EXCEPT ![treq[t]] = t]
    /\ late' = IF \E r \in Submissions : pwork[r] = t
               THEN late \union {t} ELSE late
    /\ UNCHANGED <<bufVars, bufData, reqBuf, disturbed, raced>>

\* copy_from_user into what saved_dma_buf.virt is by now, for a transfer to the
\* FPGA.
Filled(t) == IF saved.virt = NULL THEN bufData
             ELSE [bufData EXCEPT ![saved.virt] = call[t].ticket]

CopyForgotten(t) ==
    /\ Prepare(t, "copy", "map")
    /\ UNCHANGED <<bufVars, bufData, call, work, pwork, reqBuf, late, disturbed, raced>>

CopyIn(t) ==
    /\ Prepare(t, "copy", "map")
    /\ bufData' = Filled(t)
    /\ UNCHANGED <<bufVars, call, work, pwork, reqBuf, late, disturbed, raced>>

\* pci_map_single of what saved_dma_buf.virt is by now: the request's bus address.
MapBuf(t) ==
    /\ Prepare(t, "map", "none")
    /\ reqBuf' = [reqBuf EXCEPT ![treq[t]] = [buf |-> saved.virt, dir |-> call[t].dir]]
    /\ UNCHANGED <<bufVars, bufData, call, work, pwork, late, disturbed, raced>>

\* size = 0, copy_from_user (perhaps after it copied some) or pci_map_single fails.
UseFails(t) ==
    /\ xpc[t] \in {"check", "copy", "map"}
    /\ PrepareFails(t)
    /\ bufData' \in {bufData} \union IF xpc[t] = "copy" THEN {Filled(t)} ELSE {}
    /\ UNCHANGED saved

-------------------------------------------------------------------------------
(* The engine's steps, with what they do to the buffers *)

\* start_dma_xfer.  (The ioctls only pass the two known directions, so the
\* default: branch with free_dma_req, RejectReq, is not reached from here.)
XStart(t) ==
    /\ xpc[t] = "none"
    /\ StartXfer(t)
    /\ UNCHANGED xVars

XKick(t) ==
    /\ KickOff(t)
    /\ hwBuf' = [hwBuf EXCEPT ![tch[t]] = reqBuf[treq[t]]]
    /\ UNCHANGED <<bufVars, bufData, xpc, call, work, pwork, reqBuf, moved,
                   histVars>>

XKickNext(c) ==
    /\ KickNext(c)
    /\ hwBuf' = [hwBuf EXCEPT ![c] = reqBuf[hreq[c]]]
    /\ UNCHANGED <<bufVars, bufData, xpc, call, work, pwork, reqBuf, moved,
                   histVars>>

\* The FPGA has read the buffer it was given, or has written it.
XHwComplete(c) ==
    /\ HwComplete(c)
    /\ LET b == hwBuf[c].buf
       IN  /\ moved' = IF b # NULL /\ hwBuf[c].dir = "down"
                       THEN [moved EXCEPT ![hwTicket[c]] = bufData[b]]
                       ELSE moved
           /\ bufData' = IF b # NULL /\ hwBuf[c].dir = "up"
                         THEN [bufData EXCEPT ![b] = hwTicket[c]]
                         ELSE bufData
    /\ hwBuf' = [hwBuf EXCEPT ![c] = NoBuf]
    /\ UNCHANGED <<bufVars, xpc, call, work, pwork, reqBuf, histVars>>

\* dma_done: complete(req->pwork), wherever that points by now.
Completed(r) ==
    IF pwork[r] # NULL THEN [work EXCEPT ![pwork[r]] = TRUE] ELSE work

XTakeDone(c) ==
    /\ TakeDone(c)
    /\ work' = Completed(inProgress[c])
    /\ reqBuf' = [reqBuf EXCEPT ![inProgress[c]] = NoBuf]
    /\ left' = left \ {reqTicket[inProgress[c]]}
    /\ UNCHANGED <<bufVars, bufData, xpc, call, pwork, hwBuf, moved, late, disturbed, raced>>

XOther(c) ==
    /\ Spurious(c) \/ RefillNext(c) \/ RefillNone(c) \/ CreateEvent(c)
    /\ UNCHANGED xVars

-------------------------------------------------------------------------------
(* The end of do_dma_start_xfer *)

PlainReturn(t) ==
    /\ ~call[t].usr
    /\ Return(t)
    /\ call' = [call EXCEPT ![t] = NoCall]
    /\ UNCHANGED <<bufVars, bufData, xpc, work, pwork, reqBuf, hwBuf, moved,
                   histVars>>

\* finish_dma_buffer: the completion arrived; a transfer from the FPGA is
\* copied to the user, or this fails.
WaitOver(t) == work[t]

\* The call of t returns, and what it waited for is still under way.
Leaves(t) == left' = left \union ({call[t].ticket} \intersect Submitted)

Finish(t) ==
    /\ call[t].usr
    /\ WaitOver(t)
    /\ Return(t)
    /\ \/ UNCHANGED moved
       \/ /\ call[t].dir = "up" /\ call[t].buf # NULL
          /\ moved' = [moved EXCEPT ![call[t].ticket] = bufData[call[t].buf]]
    /\ call' = [call EXCEPT ![t] = NoCall]
    /\ IF t \in late THEN Leaves(t) ELSE UNCHANGED left
    /\ late' = late \ {t}
    /\ UNCHANGED <<bufVars, bufData, xpc, work, pwork, reqBuf, hwBuf, disturbed, raced>>

\* wait_for_completion_timeout returned 0: -ETIMEDOUT; the request stays where
\* it is, with pwork still pointing into the frame that is left.
Timeout(t) ==
    /\ call[t].usr /\ ~work[t]
    /\ Return(t)
    /\ Leaves(t)
    /\ late' = late \ {t}
    /\ call' = [call EXCEPT ![t] = NoCall]
    /\ UNCHANGED <<bufVars, bufData, xpc, work, pwork, reqBuf, hwBuf, moved,
                   disturbed, raced>>

-------------------------------------------------------------------------------
\* (Neither direction nor size of a plain call touches the state kept here.)
XThread(t) ==
    \/ Begin(t, FALSE, "down", 1)
    \/ \E dir \in {"down", "up"}, size \in 1..MaxSize : Begin(t, TRUE, dir, size)
    \/ CheckSize(t) \/ GrowFree(t) \/ GrowResize(t) \/ GrowAlloc(t) \/ GrowAssign(t)
    \/ GrowFails(t)
    \/ Point(t) \/ CopyIn(t) \/ MapBuf(t) \/ UseFails(t)
    \/ XStart(t) \/ XKick(t)
    \/ PlainReturn(t) \/ Finish(t) \/ Timeout(t)

XChannel(c) == XHwComplete(c) \/ XTakeDone(c) \/ XKickNext(c) \/ XOther(c)

XNext == \/ \E t \in Threads : XThread(t)
         \/ \E c \in Ch : XChannel(c)

XSpec == XInit /\ [][XNext]_allVars

-------------------------------------------------------------------------------
(* Properties *)

\* An ioctl with a user buffer that returns its ticket returns after its own
\* transfer ended, unless its completion was initialised while an earlier transfer
\* of the same thread, whose call had timed out, could still complete it: that is
\* the only wrong wake-up there can be, and the next call is right again.
SuccessMeansDone ==
    [][\A t \in Threads :
         call[t].usr /\ work[t] /\ t \notin late
         /\ pc[t] = "started" /\ pc'[t] = "user"
         => call[t].ticket \notin Submitted]_allVars

\* dma_done completes only a frame whose call is still waiting for exactly that
\* request, unless that very call timed out or was itself woken by a late
\* completion, whatever the thread did before.
WakesItsCaller ==
    \A r \in Submissions : pwork[r] # NULL /\ reqTicket[r] \notin left =>
      /\ pc[pwork[r]] \in {"kick", "started"}
      /\ call[pwork[r]].ticket = reqTicket[r]

\* What the DMA_USER ioctls promise (bifrost_api.h:214,218): the transfer moves
\* the data of the caller's own buffer.
MovesCallersData == \A k \in Tickets : moved[k] \in {0, k}

\* ... which holds of every transfer that no other one overlapped, neither of a
\* call that had not returned nor one left by a call that had timed out: it moves
\* its own data through a buffer that is allocated, large enough and, while the FPGA
\* uses it, not freed.  Other calls may have overlapped each other before, as long
\* as no two were replacing the buffer at once: that can leave saved_dma_buf wrong
\* for good.
UndisturbedMovesItsData ==
    ~raced => \A k \in Tickets \ disturbed :
      /\ moved[k] \in {0, k}
      /\ \A t \in Threads :
           call[t].usr /\ call[t].ticket = k /\ xpc[t] \in {"copy", "map", "none"}
           => call[t].buf \in Bufs /\ bufSize[call[t].buf] >= call[t].size
      /\ \A c \in Ch : hw[c] = "running" /\ hwTicket[c] = k
                       => hwBuf[c].buf \in Allocated \union {NULL}

\* saved_dma_buf describes the one buffer there is, with its size, whenever no call
\* is replacing it: failed allocations and overlapping calls included, none is lost
\* and none is freed but still named.  Again unless two calls were replacing it at
\* once: the second then frees what the first freed or has just allocated.
SavedBufIsTheBuffer ==
    ~raced /\ (\A t \in Threads : xpc[t] \notin Growing) =>
      \/ saved.size = 0 /\ saved.virt = NULL /\ Allocated = {}
      \/ saved.size > 0 /\ Allocated = {saved.virt} /\ bufSize[saved.virt] = saved.size

\* dma_free_coherent is called for a buffer that is allocated.
FreesLiveBuffer ==
    \A t \in Threads : xpc[t] = "free" => saved.virt \in Allocated \union {NULL}
===============================================================================
