-------------------------- MODULE BifrostXfer_proofs --------------------------
(***************************************************************************)
(* The ioctl path implements the engine: every step of BifrostXfer is a    *)
(* step of BifrostDma or leaves the engine alone.  What BifrostDma_proofs  *)
(* shows of the engine therefore holds of the composed system.             *)
(* On top of it: who is woken by dma_done, and when the one bounce buffer  *)
(* moves the caller's own data.                                            *)
(***************************************************************************)
EXTENDS BifrostXfer, BifrostDma_proofs

\* Every step of an ioctl thread is a step of an engine thread or none.
LEMMA ThreadUsesEngine ==
  ASSUME NEW t \in Threads, XThread(t)
  PROVE  [Next]_vars
<1>1. ASSUME NEW usr, NEW dir, NEW size, Begin(t, usr, dir, size)
      PROVE  ThreadStep(t)
  BY <1>1 DEF Begin, ThreadStep
<1>2. CASE CheckSize(t) \/ GrowFree(t) \/ GrowResize(t) \/ GrowAlloc(t) \/ GrowAssign(t)
  BY <1>2 DEF CheckSize, GrowFree, GrowResize, GrowAlloc, GrowAssign, Prepare
<1>3. CASE Point(t) \/ CopyIn(t) \/ MapBuf(t)
  BY <1>3 DEF Point, CopyIn, MapBuf, Prepare
<1>4. CASE GrowFails(t) \/ UseFails(t)
  BY <1>4 DEF GrowFails, UseFails, PrepareFails, ThreadStep, Next
<1>5. CASE XStart(t) \/ XKick(t)
  BY <1>5 DEF XStart, XKick, ThreadStep, Next
<1>6. CASE PlainReturn(t) \/ Finish(t) \/ Timeout(t)
  BY <1>6 DEF PlainReturn, Finish, Timeout, ThreadStep, Next
<1> QED BY <1>1, <1>2, <1>3, <1>4, <1>5, <1>6 DEF XThread, Next

\* Every step of a handler is a step of that channel in the engine.
LEMMA ChannelUsesEngine ==
  ASSUME NEW c \in Ch, XChannel(c)
  PROVE  [Next]_vars
BY DEF XChannel, XHwComplete, XTakeDone, XKickNext, XOther, ChannelStep, Next

\* do_dma_start_xfer, with its bounce buffer, its failures and its timeouts,
\* drives the engine only in ways the engine's specification allows.
LEMMA XferUsesEngine == XSpec => Spec
<1>1. XInit => Init
  BY DEF XInit
<1>2. [XNext]_allVars => [Next]_vars
  BY ThreadUsesEngine, ChannelUsesEngine DEF XNext, allVars
<1> QED BY <1>1, <1>2, PTL DEF XSpec, Spec

\* So a timed-out or failed ioctl never breaks the engine: requests keep one
\* owner and channels are neither lost nor shared.
THEOREM XferKeepsEngineSafe ==
    XSpec => [](OneOwner /\ ChannelsConserved /\ WaitsOnlyWhenBusy /\ KickIsOwned)
BY XferUsesEngine, EngineSafe, PTL

\* And the callers of the ioctls get what DmaService promises: their transfers start
\* in the order of submission and finish once, whichever of the calls time out or fail.
THEOREM XferServes == XSpec => ServiceSafety
BY XferUsesEngine, EngineServes, PTL

-------------------------------------------------------------------------------
(* The completions *)

\* The requests that a completion can still come from.
Pending == Submissions \union InHand

Bounce == [buf : Bufs \union {NULL}, dir : {"down", "up"}]
Calls  == [usr : BOOLEAN, dir : {"down", "up"}, size : Nat, ticket : Nat,
           buf : Bufs \union {NULL}]
Stages == Growing \union {"none", "check", "point", "copy", "map"}

\* The stages in which the call's completion is initialised and its request points to it.
Pointed == {"copy", "map", "none"}

XferType ==
    /\ saved \in [virt : Bufs \union {NULL}, size : Nat]
    /\ bufSize \in [Bufs -> Nat] /\ bufData \in [Bufs -> Nat]
    /\ xpc \in [Threads -> Stages] /\ call \in [Threads -> Calls]
    /\ work \in [Threads -> BOOLEAN] /\ pwork \in [Reqs -> Threads \union {NULL}]
    /\ reqBuf \in [Reqs -> Bounce] /\ hwBuf \in [Ch -> Bounce]
    /\ moved \in [Tickets -> Nat]
    /\ left \subseteq 1..ticket /\ late \subseteq Threads
    /\ disturbed \subseteq 1..ticket /\ raced \in BOOLEAN

\* A call and its ticket go together, from bifrost_do_xfer to its return.
CallHasTicket ==
    /\ \A t \in Threads : /\ pc[t] # "user" => call[t].ticket \in (1..ticket) \ left
                          /\ pc[t] = "ready" => reqTicket[treq[t]] = call[t].ticket
                          /\ xpc[t] # "none" => pc[t] = "ready" /\ call[t].usr
                          /\ call[t].usr => pc[t] # "user"
    /\ \A t, u \in Threads :
         pc[t] # "user" /\ pc[u] # "user" /\ call[t].ticket = call[u].ticket => t = u

\* The call whose frame a completion can hit, and its own request.
Awaits(t, r) == /\ call[t].usr /\ xpc[t] \in Pointed
                /\ call[t].ticket = reqTicket[r]

\* A request that has a bounce buffer or a completion belongs to the call that waits
\* for it, unless that has returned too early ...
CompletesItsCall ==
    \A r \in Pending :
      /\ reqBuf[r].buf # NULL => pwork[r] # NULL
      /\ pwork[r] # NULL /\ reqTicket[r] \notin left =>
           Awaits(pwork[r], r) /\ (pwork[r] \in late \/ ~work[pwork[r]])

\* ... every call is completed by its own request ...
CallIsCompleted ==
    \A r \in Pending, t \in Threads : Awaits(t, r) => pwork[r] = t

\* ... and only calls in "late" by another one.
OthersAreLate ==
    \A r \in Submissions, t \in Threads :
      call[t].usr /\ xpc[t] \in Pointed /\ pwork[r] = t /\ t \notin late
      => call[t].ticket = reqTicket[r]

\* The FPGA was given the buffer of the request in progress.
HwHasBuf ==
    \A c \in Ch : hwBuf[c] = IF c \notin BusyAtProbe /\ hw[c] = "running"
                             THEN reqBuf[inProgress[c]] ELSE NoBuf

CallsInv == CallHasTicket /\ CompletesItsCall /\ CallIsCompleted /\ OthersAreLate
XferInv  == XferType /\ CallsInv /\ HwHasBuf

(* The bounce buffer *)

NoBuffer  == saved.virt = NULL /\ \A b \in Bufs : bufSize[b] = 0
OneBuffer == /\ saved.size > 0 /\ saved.virt \in Bufs
             /\ \A b \in Bufs : bufSize[b] = IF b = saved.virt THEN saved.size ELSE 0
NoneLive  == \A b \in Bufs : bufSize[b] = 0
InHandOnly(b) == /\ saved.size > 0
                 /\ \A a \in Bufs : bufSize[a] = IF a = b THEN saved.size ELSE 0

\* What saved_dma_buf and the allocated buffers are when one call at most replaces it.
SavedBuf ==
    /\ \A t, u \in Threads : xpc[t] \in Growing /\ xpc[u] \in Growing => t = u
    /\ (\A t \in Threads : xpc[t] \notin Growing \ {"free"})
       => OneBuffer \/ (saved.size = 0 /\ NoBuffer)
    /\ \A t \in Threads :
         /\ xpc[t] \in Growing \union {"check", "point"} =>
              call[t].size > 0 /\ (xpc[t] # "assign" => call[t].buf = NULL)
         /\ xpc[t] \in {"resize", "alloc"} => NoneLive
         /\ xpc[t] = "alloc" => saved.size = call[t].size
         /\ xpc[t] = "assign" => saved.size = call[t].size /\ InHandOnly(call[t].buf)
         /\ xpc[t] = "nomem" => NoBuffer

\* An undisturbed transfer is the only one that uses the bounce buffer, and no late
\* completion can hit its call.
Alone ==
    /\ \A t, u \in Threads :
         call[t].usr /\ call[u].usr /\ call[t].ticket \notin disturbed => u = t
    /\ \A t \in Threads, r \in Submissions :
         call[t].usr /\ pwork[r] # NULL /\ ~({call[t].ticket, reqTicket[r]} \subseteq disturbed)
         => call[t].ticket = reqTicket[r]
    /\ \A r, s \in Submissions :
         pwork[r] # NULL /\ pwork[s] # NULL /\ reqTicket[r] \notin disturbed => s = r
    /\ \A t \in late : call[t].usr /\ call[t].ticket \in disturbed

\* How far an undisturbed call has come.
CallOk(t) ==
    /\ xpc[t] \in Pointed \union {"point"} => saved.size >= call[t].size /\ call[t].size > 0
    /\ xpc[t] \in Pointed => call[t].buf = saved.virt
    /\ xpc[t] \in {"map", "none"} /\ call[t].dir = "down" =>
         bufData[saved.virt] = call[t].ticket
    /\ xpc[t] = "none" /\ pc[t] = "ready" =>
         reqBuf[treq[t]] = [buf |-> saved.virt, dir |-> call[t].dir]
    /\ xpc[t] = "none" /\ pc[t] \in {"kick", "started"}
       /\ call[t].ticket \notin Submitted => bufData[saved.virt] = call[t].ticket

CallHasBuf == \A t \in Threads : call[t].usr /\ call[t].ticket \notin disturbed => CallOk(t)

\* How far an undisturbed transfer has come, also when its call has timed out.
XferOk(r) ==
    /\ reqBuf[r].buf = saved.virt /\ saved.size > 0
    /\ reqBuf[r].dir = "down" => bufData[saved.virt] = reqTicket[r]
    /\ \A c \in Ch : inProgress[c] = r /\ hw[c] = "msi"
                     => bufData[saved.virt] = reqTicket[r]

XferHasBuf ==
    \A r \in Submissions : pwork[r] # NULL /\ reqTicket[r] \notin disturbed => XferOk(r)

MovedRight == \A k \in Tickets \ disturbed : moved[k] \in {0, k}

QuietInv == ~raced => SavedBuf /\ Alone /\ CallHasBuf /\ XferHasBuf /\ MovedRight

LEMMA XferKeepsDmaInv == XSpec => []DmaInv
<1>1. DmaInv /\ [Next]_vars => DmaInv'
  BY TypeNext, OwnerNext, ChannelsNext, KicksNext, TicketsNext DEF DmaInv
<1> QED BY <1>1, InvInit, XferUsesEngine, PTL DEF Spec

\* What the proofs below use of the engine.
LEMMA EngineFacts ==
  ASSUME DmaInv
  PROVE  /\ Pending = live \ leaked /\ Pending \subseteq Reqs
         /\ \A r \in Pending : reqTicket[r] \in 1..ticket
         /\ \A r, s \in Pending : reqTicket[r] = reqTicket[s] => r = s
         /\ \A c \in Ch : inProgress[c] # NULL => inProgress[c] \in Submissions
         /\ \A t \in Threads : pc[t] = "ready" => treq[t] \in Pending \ Submissions
<1>1. Pending = live \ leaked
  BY DEF DmaInv, OneOwner, Pending, Submissions
<1>2. \A t \in Threads : pc[t] = "ready" => treq[t] \in InHand
  BY DEF InHand
<1>3. \A c \in Ch : inProgress[c] # NULL => inProgress[c] \in OnChannel
  BY DEF OnChannel
<1> QED BY <1>1, <1>2, <1>3 DEF DmaInv, TypeOK, TicketsUnique, OneOwner, Pending, Submissions

LEMMA PendingNext == ASSUME DmaInv' PROVE Pending' = live' \ leaked'
BY DEF DmaInv, OneOwner, Pending, Submissions

\* What the types say of a thread.
LEMMA Functions ==
  ASSUME XferType, TypeOK
  PROVE  /\ DOMAIN call = Threads /\ DOMAIN xpc = Threads /\ DOMAIN work = Threads
         /\ DOMAIN pc = Threads /\ DOMAIN treq = Threads
         /\ DOMAIN pwork = Reqs /\ DOMAIN reqBuf = Reqs /\ DOMAIN reqTicket = Reqs
         /\ DOMAIN hwBuf = Ch /\ DOMAIN bufSize = Bufs /\ DOMAIN bufData = Bufs
         /\ call \in [Threads -> Calls]
BY DEF XferType, TypeOK

\* The fields of a call.
LEMMA CallFields ==
  ASSUME XferType, NEW t \in Threads
  PROVE  /\ call[t].usr \in BOOLEAN /\ call[t].dir \in {"down", "up"} /\ call[t].size \in Nat
         /\ call[t].ticket \in Nat /\ call[t].buf \in Bufs \union {NULL}
         /\ saved.virt \in Bufs \union {NULL} /\ saved.size \in Nat
         /\ saved = [virt |-> saved.virt, size |-> saved.size]
         /\ \A b : [call[t] EXCEPT !.buf = b] =
              [usr |-> call[t].usr, dir |-> call[t].dir, size |-> call[t].size,
               ticket |-> call[t].ticket, buf |-> b]
<1>1. call[t] \in Calls
  BY DEF XferType
<1> QED BY <1>1 DEF XferType, Calls

\* A step of prepare_dma_buffer.
LEMMA PrepareFacts ==
  ASSUME XferType, TypeOK, NEW t \in Threads, NEW from, NEW to, Prepare(t, from, to)
  PROVE  /\ xpc[t] = from /\ xpc'[t] = to /\ \A u \in Threads \ {t} : xpc'[u] = xpc[u]
         /\ UNCHANGED <<vars, hwBuf, moved, left>>
         /\ UNCHANGED <<pc, treq, live, leaked, reqTicket, ticket, inProgress, hw, hwTicket>>
         /\ Pending' = Pending /\ Submissions' = Submissions /\ Submitted' = Submitted
<1>1. UNCHANGED vars
  BY DEF Prepare
<1>2. Submissions' = Submissions /\ Submitted' = Submitted
  BY <1>1 DEF vars, Submissions, Submitted, Queued, OnChannel, Elems
<1>3. Pending' = Pending
  BY <1>1, <1>2 DEF vars, Pending, InHand
<1> QED BY <1>1, <1>2, <1>3, Functions DEF Prepare, vars

\* A failure of prepare_dma_buffer.
LEMMA FailFacts ==
  ASSUME DmaInv, DmaInv', XferType, NEW t \in Threads, PrepareFails(t)
  PROVE  /\ pc[t] = "ready" /\ pc'[t] = "user" /\ call'[t] = NoCall /\ xpc'[t] = "none"
         /\ leaked' = leaked \union {treq[t]}
         /\ \A u \in Threads \ {t} : /\ pc'[u] = pc[u] /\ xpc'[u] = xpc[u]
                                    /\ call'[u] = call[u] /\ treq'[u] = treq[u]
         /\ UNCHANGED <<live, reqTicket, ticket, inProgress, hw, hwTicket>>
         /\ UNCHANGED <<bufSize, work, pwork, reqBuf, hwBuf, moved, left, disturbed, raced>>
         /\ late' = late \ {t}
         /\ Pending' = Pending \ {treq[t]} /\ Submissions' = Submissions
         /\ Submitted' = Submitted
<1>1. UNCHANGED <<queue, inProgress, live, reqTicket>> /\ leaked' = leaked \union {treq[t]}
  BY DEF PrepareFails, AbandonReq, ctlVars
<1>2. Submissions' = Submissions /\ Submitted' = Submitted
  BY <1>1 DEF Submissions, Submitted, Queued, OnChannel, Elems
<1>3. Pending' = Pending \ {treq[t]}
  BY <1>1, EngineFacts, PendingNext
<1> QED BY <1>1, <1>2, <1>3, Functions DEF PrepareFails, AbandonReq, ctlVars, hwVars, DmaInv

\* The return of a call.
LEMMA ReturnFacts ==
  ASSUME DmaInv, DmaInv', XferType, NEW t \in Threads, Return(t), UNCHANGED xpc,
         call' = [call EXCEPT ![t] = NoCall]
  PROVE  /\ pc[t] = "started" /\ pc'[t] = "user" /\ call'[t] = NoCall
         /\ \A u \in Threads \ {t} : /\ pc'[u] = pc[u] /\ call'[u] = call[u] /\ treq'[u] = treq[u]
         /\ UNCHANGED <<live, leaked, reqTicket, ticket, inProgress, hw, hwTicket>>
         /\ Pending' = Pending /\ Submissions' = Submissions /\ Submitted' = Submitted
<1>1. UNCHANGED <<queue, inProgress, live, leaked, reqTicket>>
  BY DEF Return, ctlVars, reqVars
<1>2. Submissions' = Submissions /\ Submitted' = Submitted
  BY <1>1 DEF Submissions, Submitted, Queued, OnChannel, Elems
<1>3. Pending' = Pending
  BY <1>1, EngineFacts, PendingNext
<1> QED BY <1>1, <1>2, <1>3, Functions DEF Return, reqVars, ctlVars, hwVars, DmaInv

\* bifrost_do_xfer takes a fresh request ...
LEMMA BeginReq ==
  ASSUME DmaInv, DmaInv', XferType, NEW t \in Threads, NEW usr, NEW dir, NEW size,
         Begin(t, usr, dir, size)
  PROVE  \E q \in Reqs \ live :
           /\ treq'[t] = q /\ reqTicket'[q] = ticket' /\ pwork'[q] = NULL /\ reqBuf'[q] = NoBuf
           /\ \A s \in Reqs \ {q} : /\ reqTicket'[s] = reqTicket[s]
                                   /\ pwork'[s] = pwork[s] /\ reqBuf'[s] = reqBuf[s]
           /\ Pending' = Pending \union {q}
<1>1. PICK q \in Reqs \ live :
         /\ live' = live \union {q} /\ treq' = [treq EXCEPT ![t] = q]
         /\ reqTicket' = [reqTicket EXCEPT ![q] = GetTicket(ticket)]
  BY DEF Begin, AllocReq
<1>2. ticket' = GetTicket(ticket) /\ leaked' = leaked
  BY DEF Begin, AllocReq
<1>3. treq'[t] = q
  BY <1>1, Functions DEF DmaInv
<1>4. reqTicket'[q] = ticket' /\ \A s \in Reqs \ {q} : reqTicket'[s] = reqTicket[s]
  BY <1>1, <1>2, Functions DEF DmaInv
<1>5. /\ pwork'[q] = NULL /\ reqBuf'[q] = NoBuf
      /\ \A s \in Reqs \ {q} : pwork'[s] = pwork[s] /\ reqBuf'[s] = reqBuf[s]
  BY <1>3, Functions DEF Begin, DmaInv
<1>6. leaked \subseteq live
  BY DEF DmaInv, OneOwner
<1>7. Pending' = Pending \union {q}
  BY <1>1, <1>2, <1>6, EngineFacts, PendingNext
<1> QED BY <1>3, <1>4, <1>5, <1>7

\* ... and a fresh ticket.
LEMMA BeginFacts ==
  ASSUME DmaInv, DmaInv', XferType, NEW t \in Threads, NEW usr, NEW dir, NEW size,
         Begin(t, usr, dir, size)
  PROVE  /\ pc[t] = "user" /\ pc'[t] = "ready" /\ ticket' = ticket + 1 /\ ticket \in Nat
         /\ call'[t] = [usr |-> usr, dir |-> dir, size |-> size, ticket |-> ticket', buf |-> NULL]
         /\ xpc'[t] = IF usr THEN "check" ELSE "none"
         /\ \A u \in Threads \ {t} : /\ pc'[u] = pc[u] /\ xpc'[u] = xpc[u]
                                    /\ call'[u] = call[u] /\ treq'[u] = treq[u]
         /\ UNCHANGED <<leaked, inProgress, hw, hwTicket, hwBuf, moved, left, late, raced>>
         /\ UNCHANGED <<saved, bufSize, bufData, work>>
         /\ Submissions' = Submissions /\ Submissions \subseteq live /\ Submitted' = Submitted
<1> USE DmaAssumption
<1>1. PICK q \in Reqs \ live :
         /\ treq' = [treq EXCEPT ![t] = q]
         /\ reqTicket' = [reqTicket EXCEPT ![q] = GetTicket(ticket)]
  BY DEF Begin, AllocReq
<1>2. /\ pc[t] = "user" /\ pc' = [pc EXCEPT ![t] = "ready"]
      /\ ticket' = GetTicket(ticket) /\ ticket < MaxTicket
      /\ UNCHANGED <<queue, inProgress, leaked, hw, hwTicket, hwBuf, moved, left, late, raced>>
      /\ UNCHANGED <<saved, bufSize, bufData, work>>
  BY DEF Begin, AllocReq, ctlVars, hwVars, bufVars
<1>3. ticket' = ticket + 1 /\ ticket \in Nat
  BY <1>2 DEF GetTicket, DmaInv, TypeOK
<1>4. /\ pc'[t] = "ready" /\ \A u \in Threads \ {t} : treq'[u] = treq[u] /\ pc'[u] = pc[u]
  BY <1>1, <1>2, Functions DEF DmaInv
<1>5. /\ call'[t] = [usr |-> usr, dir |-> dir, size |-> size, ticket |-> ticket', buf |-> NULL]
      /\ xpc'[t] = IF usr THEN "check" ELSE "none"
      /\ \A u \in Threads \ {t} : call'[u] = call[u] /\ xpc'[u] = xpc[u]
  BY Functions DEF Begin, DmaInv
<1>6. Submissions' = Submissions /\ Submissions \subseteq live
  BY <1>2 DEF Submissions, Queued, OnChannel, Elems, DmaInv, OneOwner
<1>7. Submitted' = Submitted
  <2>1. \A s \in Submissions : reqTicket'[s] = reqTicket[s]
    BY <1>1, <1>6 DEF DmaInv, TypeOK
  <2>2. Submitted = {reqTicket[s] : s \in Submissions} /\ Submitted' = {reqTicket'[s] : s \in Submissions'}
    BY DEF Submitted, Submissions
  <2>3. QED
    BY <1>6, <2>1, <2>2
<1> QED BY <1>2, <1>3, <1>4, <1>5, <1>6, <1>7

\* dma_done takes the request off the channel and completes its frame.
LEMMA DoneFacts ==
  ASSUME DmaInv, DmaInv', XferType, NEW c \in Ch, XTakeDone(c)
  PROVE  /\ inProgress[c] \in Submissions /\ inProgress[c] \in Reqs /\ hw[c] = "msi"
         /\ UNCHANGED <<pc, treq, reqTicket, ticket, leaked, hwTicket, xpc, call, pwork, hwBuf,
                        moved, late, disturbed, raced, saved, bufSize, bufData>>
         /\ left' = left \ {reqTicket[inProgress[c]]}
         /\ reqBuf'[inProgress[c]] = NoBuf
         /\ \A s \in Reqs \ {inProgress[c]} : reqBuf'[s] = reqBuf[s]
         /\ inProgress'[c] = NULL /\ \A d \in Ch \ {c} : inProgress'[d] = inProgress[d]
         /\ hw'[c] = "stopped" /\ \A d \in Ch \ {c} : hw'[d] = hw[d]
         /\ \A u \in Threads : work'[u] # work[u] => pwork[inProgress[c]] = u
         /\ Pending' = Pending \ {inProgress[c]}
         /\ Submissions' = Submissions \ {inProgress[c]}
<1> DEFINE r == inProgress[c]
<1>1. /\ r # NULL /\ live' = live \ {r} /\ work' = Completed(r) /\ hw[c] = "msi"
      /\ UNCHANGED <<pc, treq, reqTicket, ticket, leaked, hwTicket, xpc, call, pwork, hwBuf,
                     moved, late, disturbed, raced, saved, bufSize, bufData>>
      /\ left' = left \ {reqTicket[r]}
  BY DEF XTakeDone, TakeDone, thrVars, bufVars
<1>2. r \in Submissions /\ r \in Reqs
  BY <1>1, EngineFacts DEF Pending
<1>3. /\ reqBuf'[r] = NoBuf /\ \A s \in Reqs \ {r} : reqBuf'[s] = reqBuf[s]
      /\ inProgress'[c] = NULL /\ \A d \in Ch \ {c} : inProgress'[d] = inProgress[d]
      /\ hw'[c] = "stopped" /\ \A d \in Ch \ {c} : hw'[d] = hw[d]
  BY <1>2, Functions DEF XTakeDone, TakeDone, DmaInv, TypeOK
<1>4. \A u \in Threads : work'[u] # work[u] => pwork[r] = u
  BY <1>1, Functions DEF Completed, DmaInv
<1>5. Pending' = Pending \ {r}
  BY <1>1, EngineFacts, PendingNext
<1>6. Submissions' = Submissions \ {r}
  <2>1. UNCHANGED <<pc, treq>>
    BY <1>1
  <2>2. InHand' = InHand
    BY <2>1 DEF InHand
  <2>3. Submissions = Pending \ InHand /\ Submissions' = Pending' \ InHand'
    BY DEF Pending, Submissions, DmaInv, OneOwner
  <2>4. QED
    BY <1>5, <2>2, <2>3
<1> QED BY <1>1, <1>2, <1>3, <1>4, <1>5, <1>6

\* The engine's other steps keep the pending requests.
LEMMA EngineStepFacts ==
  ASSUME DmaInv, DmaInv', XferType,
         \/ \E t \in Threads : XKick(t)
         \/ \E c \in Ch : XHwComplete(c) \/ XKickNext(c) \/ XOther(c)
         \/ UNCHANGED allVars
  PROVE  /\ UNCHANGED <<reqTicket, ticket, live, leaked, xpc, call, work, pwork, reqBuf>>
         /\ UNCHANGED <<left, late, disturbed, raced, saved, bufSize>>
         /\ Pending' = Pending /\ Submissions' = Submissions /\ Submitted' = Submitted
         /\ \A u \in Threads : \/ pc'[u] = pc[u] /\ treq'[u] = treq[u]
                               \/ pc[u] = "kick" /\ pc'[u] = "started"
         /\ \A d \in Ch : hw'[d] = "msi" => (hw[d] = "msi" \/ XHwComplete(d))
<1>1. /\ UNCHANGED <<reqTicket, ticket, live, leaked, xpc, call, work, pwork, reqBuf>>
      /\ UNCHANGED <<left, late, disturbed, raced, saved, bufSize>>
  BY DEF XKick, KickOff, XHwComplete, HwComplete, XKickNext, KickNext, XOther, Spurious,
      RefillNext, RefillNone, CreateEvent, reqVars, bufVars, histVars, xVars, allVars, vars
<1>2. \A u \in Threads : \/ pc'[u] = pc[u] /\ treq'[u] = treq[u]
                         \/ pc[u] = "kick" /\ pc'[u] = "started"
  BY DEF XKick, KickOff, XHwComplete, HwComplete, XKickNext, KickNext, XOther, Spurious,
      RefillNext, RefillNone, CreateEvent, thrVars, allVars, vars, DmaInv, TypeOK
<1>3. \A d \in Ch : hw'[d] = "msi" => (hw[d] = "msi" \/ XHwComplete(d))
  <2>1. hw \in [Ch -> {"stopped", "running", "msi"}]
    BY DEF DmaInv, TypeOK
  <2>2. ASSUME NEW t \in Threads, XKick(t)
        PROVE  \A d \in Ch : hw'[d] = "msi" => hw[d] = "msi"
    BY <2>1, <2>2 DEF XKick, KickOff, ChanStart
  <2>3. ASSUME NEW c \in Ch, XHwComplete(c)
        PROVE  \A d \in Ch : hw'[d] = "msi" => hw[d] = "msi" \/ d = c
    BY <2>1, <2>3 DEF XHwComplete, HwComplete
  <2>4. ASSUME NEW c \in Ch, XKickNext(c) \/ XOther(c)
        PROVE  \A d \in Ch : hw'[d] = "msi" => hw[d] = "msi"
    BY <2>1, <2>4 DEF XKickNext, KickNext, ChanStart, XOther, Spurious, RefillNext, RefillNone,
        CreateEvent, hwVars
  <2>5. UNCHANGED allVars => hw' = hw
    BY DEF allVars, vars
  <2>6. QED
    BY <2>2, <2>3, <2>4, <2>5
<1>4. Pending' = Pending
  BY <1>1, EngineFacts, PendingNext
<1>5. InHand' = InHand
  BY <1>2 DEF InHand
<1>6. Submissions' = Submissions
  BY <1>4, <1>5 DEF Pending, Submissions, DmaInv, OneOwner
<1>7. Submitted' = Submitted
  BY <1>1, <1>6 DEF Submitted, Submissions
<1> QED BY <1>1, <1>2, <1>3, <1>4, <1>6, <1>7

\* Tickets of transfers under way have been handed out.
LEMMA TicketsOut ==
  ASSUME DmaInv, XferType, CallHasTicket
  PROVE  /\ Bouncing \subseteq 1..ticket /\ Submitted \subseteq 1..ticket
         /\ \A t \in Threads : call[t].usr => call[t].ticket \in 1..ticket
<1>1. \A r \in Submissions : reqTicket[r] \in 1..ticket
  BY EngineFacts DEF Pending
<1>2. \A t \in Threads : call[t].usr => call[t].ticket \in 1..ticket
  BY DEF CallHasTicket
<1> QED BY <1>1, <1>2 DEF Bouncing, Submitted, Submissions

LEMMA XferTypeNext ==
  ASSUME DmaInv, DmaInv', XferInv, [XNext]_allVars
  PROVE  XferType'
<1> USE XferAssumption, DmaAssumption DEF bufVars, histVars
<1>0. /\ XferType /\ TypeOK /\ CallHasTicket /\ NoBuf \in Bounce /\ NoCall \in Calls
      /\ ticket \in Nat
  BY DEF XferInv, CallsInv, DmaInv, TypeOK, NoBuf, Bounce, NoCall, Calls
<1>1. ASSUME NEW t \in Threads, NEW usr \in BOOLEAN, NEW dir \in {"down", "up"},
             NEW size \in 1..MaxSize \union {1}, Begin(t, usr, dir, size)
      PROVE  XferType'
  <2>1. treq'[t] \in Reqs /\ ticket' = ticket + 1
    BY <1>0, <1>1, BeginFacts, BeginReq
  <2>2. (reqBuf \in [Reqs -> Bounce])' /\ (pwork \in [Reqs -> Threads \union {NULL}])'
    BY <1>0, <1>1, <2>1 DEF Begin, XferType
  <2>3. [usr |-> usr, dir |-> dir, size |-> size, ticket |-> ticket', buf |-> NULL] \in Calls
    BY <1>0, <2>1 DEF Calls
  <2>4. (call \in [Threads -> Calls])' /\ (xpc \in [Threads -> Stages])'
    BY <1>0, <1>1, <2>3 DEF Begin, XferType, Stages
  <2>5. 1..ticket \subseteq 1..ticket' /\ ticket' \in 1..ticket'
    BY <1>0, <2>1
  <2>6. (left \subseteq 1..ticket)' /\ (disturbed \subseteq 1..ticket)'
    BY <1>0, <1>1, <2>5, TicketsOut DEF Begin, XferType
  <2>7. QED
    BY <1>0, <1>1, <2>2, <2>4, <2>6 DEF Begin, XferType
<1>2. ASSUME NEW t \in Threads, NEW from, NEW to \in Stages, Prepare(t, from, to)
      PROVE  /\ (xpc \in [Threads -> Stages])' /\ UNCHANGED <<hwBuf, moved, left, ticket>>
             /\ xpc[t] = from
  BY <1>0, <1>2, PrepareFacts DEF Prepare, XferType
<1>3. ASSUME NEW t \in Threads, NEW b \in Bufs \union {NULL}
      PROVE  [call EXCEPT ![t].buf = b] \in [Threads -> Calls]
  BY <1>0 DEF XferType, Calls
<1>4. ASSUME NEW t \in Threads
      PROVE  /\ saved.virt \in Bufs \union {NULL} /\ call[t].size \in Nat /\ call[t].ticket \in Nat
             /\ call[t].dir \in {"down", "up"} /\ call[t].buf \in Bufs \union {NULL}
             /\ Filled(t) \in [Bufs -> Nat]
  <2>1. /\ saved.virt \in Bufs \union {NULL} /\ call[t].size \in Nat /\ call[t].ticket \in Nat
        /\ call[t].dir \in {"down", "up"} /\ call[t].buf \in Bufs \union {NULL}
    BY <1>0, CallFields
  <2>2. QED
    BY <1>0, <2>1 DEF Filled, XferType
<1>5. {"free", "resize", "alloc", "assign", "nomem", "none", "check", "point", "copy", "map"}
      \subseteq Stages
  BY DEF Stages, Growing
<1>6. ASSUME NEW t \in Threads, PrepareFails(t)
      PROVE  /\ (call \in [Threads -> Calls])' /\ (xpc \in [Threads -> Stages])' /\ (late \subseteq Threads)'
             /\ UNCHANGED <<bufSize, work, pwork, reqBuf, hwBuf, moved, left, disturbed, raced, ticket>>
  BY <1>0, <1>5, <1>6, FailFacts DEF PrepareFails, XferType
<1>7. ASSUME NEW t \in Threads, CheckSize(t)
      PROVE  XferType'
  <2>1. Prepare(t, "check", IF NeedsGrow(t) THEN "free" ELSE "point")
    BY <1>7 DEF CheckSize
  <2>2. raced' \in BOOLEAN
    BY <1>0, <1>7 DEF CheckSize, XferType
  <2>3. (xpc \in [Threads -> Stages])' /\ UNCHANGED <<hwBuf, moved, left, ticket>>
    BY <1>2, <1>5, <2>1
  <2>4. QED
    BY <1>0, <1>7, <2>2, <2>3 DEF CheckSize, XferType
<1>8. ASSUME NEW t \in Threads, GrowFree(t)
      PROVE  XferType'
  <2>1. (xpc \in [Threads -> Stages])' /\ UNCHANGED <<hwBuf, moved, left, ticket>>
    BY <1>2, <1>5, <1>8 DEF GrowFree
  <2>2. QED
    BY <1>0, <1>4, <1>8, <2>1 DEF GrowFree, XferType
<1>9. ASSUME NEW t \in Threads, GrowResize(t)
      PROVE  XferType'
  <2>1. (xpc \in [Threads -> Stages])' /\ UNCHANGED <<hwBuf, moved, left, ticket>>
    BY <1>2, <1>5, <1>9 DEF GrowResize
  <2>2. (saved \in [virt : Bufs \union {NULL}, size : Nat])'
    BY <1>0, <1>4, <1>9 DEF GrowResize, XferType
  <2>3. QED
    BY <1>0, <1>9, <2>1, <2>2 DEF GrowResize, XferType
<1>10. ASSUME NEW t \in Threads, GrowAlloc(t)
       PROVE  XferType'
  <2>1. (xpc \in [Threads -> Stages])' /\ UNCHANGED <<hwBuf, moved, left, ticket>>
    BY <1>2, <1>5, <1>10 DEF GrowAlloc
  <2>2. (call \in [Threads -> Calls])' /\ (bufSize \in [Bufs -> Nat])'
    BY <1>0, <1>3, <1>10 DEF GrowAlloc, XferType
  <2>3. QED
    BY <1>0, <1>10, <2>1, <2>2 DEF GrowAlloc, XferType
<1>11. ASSUME NEW t \in Threads, GrowAssign(t)
       PROVE  XferType'
  <2>1. Prepare(t, "assign", IF call[t].buf = NULL THEN "nomem" ELSE "point")
    BY <1>11 DEF GrowAssign
  <2>2. (xpc \in [Threads -> Stages])' /\ UNCHANGED <<hwBuf, moved, left, ticket>>
    BY <1>2, <1>5, <2>1
  <2>3. (saved \in [virt : Bufs \union {NULL}, size : Nat])'
    BY <1>0, <1>4, <1>11 DEF GrowAssign, XferType
  <2>4. (call \in [Threads -> Calls])'
    BY <1>3, <1>11 DEF GrowAssign
  <2>5. QED
    BY <1>0, <1>11, <2>2, <2>3, <2>4 DEF GrowAssign, XferType
<1>12. ASSUME NEW t \in Threads, GrowFails(t)
       PROVE  XferType'
  <2>1. (saved \in [virt : Bufs \union {NULL}, size : Nat])'
    BY <1>0, <1>12 DEF GrowFails, XferType
  <2>2. QED
    BY <1>0, <1>6, <1>12, <2>1 DEF GrowFails, XferType
<1>13. ASSUME NEW t \in Threads, Point(t)
       PROVE  XferType'
  <2>1. Prepare(t, "point", IF call[t].dir = "down" THEN "copy" ELSE "map")
    BY <1>13 DEF Point
  <2>2. (xpc \in [Threads -> Stages])' /\ UNCHANGED <<hwBuf, moved, left, ticket>>
    BY <1>2, <1>5, <2>1
  <2>3. (call \in [Threads -> Calls])'
    BY <1>3, <1>4, <1>13 DEF Point
  <2>4. QED
    BY <1>0, <1>13, <2>2, <2>3 DEF Point, XferType
<1>14. ASSUME NEW t \in Threads, CopyIn(t)
       PROVE  XferType'
  <2>1. (xpc \in [Threads -> Stages])' /\ UNCHANGED <<hwBuf, moved, left, ticket>>
    BY <1>2, <1>5, <1>14 DEF CopyIn
  <2>2. QED
    BY <1>0, <1>4, <1>14, <2>1 DEF CopyIn, XferType
<1>15. ASSUME NEW t \in Threads, MapBuf(t)
       PROVE  XferType'
  <2>1. (xpc \in [Threads -> Stages])' /\ UNCHANGED <<hwBuf, moved, left, ticket>>
    BY <1>2, <1>5, <1>15 DEF MapBuf
  <2>2. [buf |-> saved.virt, dir |-> call[t].dir] \in Bounce
    BY <1>4 DEF Bounce
  <2>3. QED
    BY <1>0, <1>15, <2>1, <2>2 DEF MapBuf, XferType
<1>16. ASSUME NEW t \in Threads, UseFails(t)
       PROVE  XferType'
  <2>1. bufData' \in [Bufs -> Nat] /\ UNCHANGED saved
    BY <1>0, <1>4, <1>16 DEF UseFails, XferType
  <2>2. QED
    BY <1>0, <1>6, <1>16, <2>1 DEF UseFails, XferType
<1>17. ASSUME NEW t \in Threads, XStart(t)
       PROVE  XferType'
  <2>1. ticket' = ticket
    BY <1>17 DEF XStart, StartXfer, StartNow, StartLater, reqVars
  <2>2. QED
    BY <1>0, <1>17, <2>1 DEF XStart, xVars, XferType
<1>18. ASSUME NEW t \in Threads, XKick(t)
       PROVE  XferType'
  <2>1. treq[t] \in Reqs /\ ticket' = ticket
    BY <1>18 DEF XKick, KickOff, DmaInv, Hands, reqVars
  <2>2. QED
    BY <1>0, <1>18, <2>1 DEF XKick, XferType
<1>19. ASSUME NEW t \in Threads, UNCHANGED xpc, Return(t), call' = [call EXCEPT ![t] = NoCall]
       PROVE  (call \in [Threads -> Calls])' /\ ticket' = ticket
  BY <1>0, <1>19 DEF Return, reqVars, XferType
<1>20. ASSUME NEW t \in Threads, PlainReturn(t)
       PROVE  XferType'
  BY <1>0, <1>19, <1>20 DEF PlainReturn, XferType
<1>21. ASSUME NEW t \in Threads, call[t].usr, Leaves(t)
       PROVE  left' \subseteq 1..ticket
  BY <1>0, <1>21, TicketsOut DEF Leaves, XferType
<1>22. ASSUME NEW t \in Threads, Finish(t)
       PROVE  XferType'
  <2>1. (call \in [Threads -> Calls])' /\ ticket' = ticket
    BY <1>19, <1>22 DEF Finish
  <2>2. (left \subseteq 1..ticket)'
    BY <1>0, <1>21, <1>22, <2>1 DEF Finish, XferType
  <2>3. (moved \in [Tickets -> Nat])'
    BY <1>0, <1>22, CallFields DEF Finish, XferType
  <2>4. QED
    BY <1>0, <1>22, <2>1, <2>2, <2>3 DEF Finish, XferType
<1>23. ASSUME NEW t \in Threads, Timeout(t)
       PROVE  XferType'
  <2>1. (call \in [Threads -> Calls])' /\ ticket' = ticket
    BY <1>19, <1>23 DEF Timeout
  <2>2. (left \subseteq 1..ticket)'
    BY <1>21, <1>23, <2>1 DEF Timeout
  <2>3. QED
    BY <1>0, <1>23, <2>1, <2>2 DEF Timeout, XferType
<1>24. ASSUME NEW c \in Ch, XHwComplete(c)
       PROVE  XferType'
  <2>1. hwTicket[c] \in Nat /\ hwBuf[c] \in Bounce /\ ticket' = ticket
    BY <1>0, <1>24 DEF XHwComplete, HwComplete, reqVars, TypeOK, XferType
  <2>2. hwBuf[c].buf \in Bufs \union {NULL}
    BY <2>1 DEF Bounce
  <2>3. (bufData \in [Bufs -> Nat])' /\ (moved \in [Tickets -> Nat])'
    BY <1>0, <1>24, <2>1, <2>2 DEF XHwComplete, XferType
  <2>4. QED
    BY <1>0, <1>24, <2>1, <2>3 DEF XHwComplete, XferType
<1>25. ASSUME NEW c \in Ch, XTakeDone(c)
       PROVE  XferType'
  <2>1. inProgress[c] \in Reqs /\ ticket' = ticket
    BY <1>0, <1>25, DoneFacts
  <2>2. (work \in [Threads -> BOOLEAN])'
    BY <1>0, <1>25, <2>1 DEF XTakeDone, Completed, XferType
  <2>3. QED
    BY <1>0, <1>25, <2>1, <2>2 DEF XTakeDone, XferType
<1>26. ASSUME NEW c \in Ch, XKickNext(c)
       PROVE  XferType'
  <2>1. hreq[c] \in Reqs /\ ticket' = ticket
    BY <1>26 DEF XKickNext, KickNext, DmaInv, Hands, reqVars
  <2>2. QED
    BY <1>0, <1>26, <2>1 DEF XKickNext, XferType
<1>27. ASSUME NEW c \in Ch, XOther(c)
       PROVE  XferType'
  BY <1>0, <1>27 DEF XOther, Spurious, RefillNext, RefillNone, CreateEvent, reqVars, xVars,
      XferType
<1>28. CASE UNCHANGED allVars
  BY <1>0, <1>28 DEF allVars, vars, xVars, XferType
<1> QED
  BY <1>1, <1>7, <1>8, <1>9, <1>10, <1>11, <1>12, <1>13, <1>14, <1>15, <1>16, <1>17, <1>18,
      <1>20, <1>22, <1>23, <1>24, <1>25, <1>26, <1>27, <1>28 DEF XNext, XThread, XChannel

\* A step that leaves the calls and their requests as they are, except that it may
\* submit one of them.
LEMMA CallFrame ==
  ASSUME CallsInv, \A r \in Pending : pwork[r] \in Threads \union {NULL},
         UNCHANGED <<work, pwork, left, late, reqTicket, ticket>>,
         Pending' = Pending,
         \A r \in Submissions' : r \in Submissions \/ (r \in Pending /\ reqTicket[r] \notin left),
         \A r \in Pending : reqBuf'[r].buf # NULL => reqBuf[r].buf # NULL \/ pwork[r] # NULL,
         \A t \in Threads :
           /\ call'[t].usr = call[t].usr /\ call'[t].ticket = call[t].ticket
           /\ (xpc'[t] \in Pointed) <=> (xpc[t] \in Pointed)
           /\ xpc'[t] # "none" => xpc[t] # "none"
           /\ (pc'[t] = "user") <=> (pc[t] = "user")
           /\ pc'[t] = "ready" => pc[t] = "ready" /\ treq'[t] = treq[t]
           /\ xpc'[t] # "none" => pc'[t] = pc[t]
  PROVE  CallsInv'
<1>1. CallHasTicket'
  BY DEF CallsInv, CallHasTicket
<1>2. \A t \in Threads, r \in Pending : Awaits(t, r)' <=> Awaits(t, r)
  BY DEF Awaits
<1>3. \A r \in Pending : pwork[r] # NULL /\ reqTicket[r] \notin left =>
        Awaits(pwork[r], r) /\ (pwork[r] \in late \/ ~work[pwork[r]])
  BY DEF CallsInv, CompletesItsCall
<1>4. CompletesItsCall'
  <2>1. \A r \in Pending : pwork[r] # NULL /\ reqTicket[r] \notin left => Awaits(pwork[r], r)'
    BY <1>2, <1>3
  <2>2. \A r \in Pending : reqBuf'[r].buf # NULL => pwork[r] # NULL
    BY DEF CallsInv, CompletesItsCall
  <2>3. QED
    BY <1>3, <2>1, <2>2 DEF CompletesItsCall
<1>5. CallIsCompleted'
  BY <1>2 DEF CallsInv, CallIsCompleted
<1>6. OthersAreLate'
  <2> SUFFICES ASSUME NEW r \in Submissions', NEW t \in Threads, call'[t].usr,
                      xpc'[t] \in Pointed, pwork[r] = t, t \notin late
               PROVE  call'[t].ticket = reqTicket[r]
    BY DEF OthersAreLate
  <2>1. CASE r \in Submissions
    BY <2>1 DEF CallsInv, OthersAreLate
  <2>2. CASE r \in Pending /\ reqTicket[r] \notin left
    <3>1. t # NULL
      BY XferAssumption
    <3>2. QED
      BY <1>3, <2>2, <3>1 DEF Awaits
  <2>3. QED
    BY <2>1, <2>2
<1> QED BY <1>1, <1>4, <1>5, <1>6 DEF CallsInv

\* The call of t returns, and whatever still points to its frame is left behind.
LEMMA ReturnFrame ==
  ASSUME CallsInv, \A r \in Pending : pwork[r] \in Threads \union {NULL},
         NEW t \in Threads, UNCHANGED <<work, pwork, reqBuf, reqTicket, ticket>>,
         Pending' \subseteq Pending, Submissions' \subseteq Submissions,
         left \subseteq left', left' \subseteq left \union {call[t].ticket},
         late' \subseteq late, late \ {t} \subseteq late',
         \A r \in Pending' : pwork[r] = t => reqTicket[r] \in left',
         pc[t] # "user", pc'[t] = "user" /\ xpc'[t] = "none" /\ call'[t] = NoCall,
         \A u \in Threads \ {t} : /\ pc'[u] = pc[u] /\ xpc'[u] = xpc[u]
                                  /\ call'[u] = call[u] /\ treq'[u] = treq[u]
  PROVE  CallsInv'
<1>0. ~call'[t].usr
  BY DEF NoCall
<1>1. CallHasTicket'
  BY <1>0 DEF CallsInv, CallHasTicket
<1>2. \A r \in Pending, u \in Threads \ {t} : Awaits(u, r)' <=> Awaits(u, r)
  BY DEF Awaits
<1>3. \A r \in Pending : ~Awaits(t, r)'
  BY <1>0 DEF Awaits
<1>4. CompletesItsCall'
  <2> SUFFICES ASSUME NEW r \in Pending'
               PROVE  /\ reqBuf[r].buf # NULL => pwork[r] # NULL
                      /\ pwork[r] # NULL /\ reqTicket[r] \notin left' =>
                           Awaits(pwork[r], r)' /\ (pwork[r] \in late' \/ ~work[pwork[r]])
    BY DEF CompletesItsCall
  <2>1. /\ reqBuf[r].buf # NULL => pwork[r] # NULL
        /\ pwork[r] # NULL /\ reqTicket[r] \notin left =>
             Awaits(pwork[r], r) /\ (pwork[r] \in late \/ ~work[pwork[r]])
    BY DEF CallsInv, CompletesItsCall
  <2>2. ASSUME pwork[r] # NULL, reqTicket[r] \notin left'
        PROVE  Awaits(pwork[r], r)' /\ (pwork[r] \in late' \/ ~work[pwork[r]])
    <3>1. pwork[r] # t
      BY <2>2
    <3>2. pwork[r] \in Threads \ {t} /\ r \in Pending
      BY <2>2, <3>1
    <3>3. pwork[r] \in late => pwork[r] \in late'
      BY <3>2
    <3>4. QED
      BY <1>2, <2>1, <2>2, <3>2, <3>3
  <2>3. QED
    BY <2>1, <2>2
<1>5. CallIsCompleted'
  BY <1>2, <1>3 DEF CallsInv, CallIsCompleted
<1>6. OthersAreLate'
  BY <1>0 DEF CallsInv, OthersAreLate
<1> QED BY <1>1, <1>4, <1>5, <1>6 DEF CallsInv

\* A request whose completion can hit a frame belongs to a thread.
LEMMA PworkType ==
  ASSUME DmaInv, XferType
  PROVE  \A r \in Pending : pwork[r] \in Threads \union {NULL}
BY EngineFacts DEF XferType

\* bifrost_do_xfer: nobody else has the request or its ticket.
LEMMA CallsBegin ==
  ASSUME DmaInv, DmaInv', XferInv, NEW t \in Threads, NEW usr \in BOOLEAN,
         NEW dir \in {"down", "up"}, NEW size \in 1..MaxSize \union {1}, Begin(t, usr, dir, size)
  PROVE  CallsInv'
<1> USE XferAssumption
<1>0. XferType /\ CallsInv
  BY DEF XferInv
<1>1. /\ pc[t] = "user" /\ pc'[t] = "ready" /\ ticket' = ticket + 1 /\ ticket \in Nat
      /\ call'[t] = [usr |-> usr, dir |-> dir, size |-> size, ticket |-> ticket', buf |-> NULL]
      /\ xpc'[t] = IF usr THEN "check" ELSE "none"
      /\ \A u \in Threads \ {t} : /\ pc'[u] = pc[u] /\ xpc'[u] = xpc[u]
                                 /\ call'[u] = call[u] /\ treq'[u] = treq[u]
  BY <1>0, BeginFacts
<1>2. PICK q \in Reqs \ live :
      /\ treq'[t] = q /\ reqTicket'[q] = ticket' /\ pwork'[q] = NULL /\ reqBuf'[q] = NoBuf
      /\ \A s \in Reqs \ {q} : /\ reqTicket'[s] = reqTicket[s]
                              /\ pwork'[s] = pwork[s] /\ reqBuf'[s] = reqBuf[s]
      /\ Pending' = Pending \union {q}
  BY <1>0, BeginReq
<1>3. /\ UNCHANGED <<left, late, work>>
      /\ Pending' = Pending \union {q} /\ Submissions' = Submissions
  BY <1>0, <1>2, BeginFacts
<1>4. /\ Pending \subseteq Reqs \ {q} /\ Submissions \subseteq Pending
      /\ \A s \in Pending : reqTicket[s] \in 1..ticket
      /\ \A u \in Threads : pc[u] = "ready" => treq[u] \in Pending
  BY <1>2, EngineFacts DEF Pending
<1>5. /\ \A u \in Threads : pc[u] # "user" => call[u].ticket \in (1..ticket) \ left
      /\ left \subseteq 1..ticket
  BY <1>0 DEF CallsInv, CallHasTicket, XferType
<1>6. call'[t].ticket = ticket' /\ call'[t].usr = usr
  BY <1>1
<1>7. CallHasTicket'
  <2>1. \A u \in Threads : pc'[u] # "user" => call'[u].ticket \in (1..ticket') \ left'
    BY <1>1, <1>3, <1>5, <1>6
  <2>2. \A u \in Threads : pc'[u] = "ready" => reqTicket'[treq'[u]] = call'[u].ticket
    BY <1>0, <1>1, <1>2, <1>4, <1>6 DEF CallsInv, CallHasTicket
  <2>3. \A u \in Threads : /\ xpc'[u] # "none" => pc'[u] = "ready" /\ call'[u].usr
                           /\ call'[u].usr => pc'[u] # "user"
    BY <1>0, <1>1, <1>6 DEF CallsInv, CallHasTicket
  <2>4. \A u, v \in Threads :
          pc'[u] # "user" /\ pc'[v] # "user" /\ call'[u].ticket = call'[v].ticket => u = v
    BY <1>0, <1>1, <1>5, <1>6 DEF CallsInv, CallHasTicket
  <2>5. QED
    BY <2>1, <2>2, <2>3, <2>4 DEF CallHasTicket
<1>8. ~(call'[t].usr /\ xpc'[t] \in Pointed)
  BY <1>1, <1>6 DEF Pointed
<1>9. \A s \in Pending, u \in Threads \ {t} : Awaits(u, s)' <=> Awaits(u, s)
  BY <1>1, <1>2, <1>4 DEF Awaits
<1>10. \A s \in Pending : ~Awaits(t, s)
  BY <1>0, <1>1 DEF CallsInv, CallHasTicket, Awaits
<1>11. CompletesItsCall'
  <2>1. \A s \in Pending : pwork[s] # NULL /\ reqTicket[s] \notin left =>
          /\ Awaits(pwork[s], s) /\ (pwork[s] \in late \/ ~work[pwork[s]])
          /\ pwork[s] \in Threads \ {t}
    BY <1>0, <1>10, PworkType DEF CallsInv, CompletesItsCall
  <2>2. \A s \in Pending : pwork[s] # NULL /\ reqTicket[s] \notin left => Awaits(pwork[s], s)'
    BY <1>2, <1>4, <1>9, <2>1
  <2>3. NoBuf.buf = NULL
    BY DEF NoBuf
  <2>4. \A s \in Pending : reqBuf[s].buf # NULL => pwork[s] # NULL
    BY <1>0 DEF CallsInv, CompletesItsCall
  <2>5. QED
    BY <1>2, <1>3, <1>4, <2>1, <2>2, <2>3, <2>4 DEF CompletesItsCall
<1>12. CallIsCompleted'
  <2>1. \A u \in Threads \ {t} : call[u].usr => call[u].ticket # ticket'
    BY <1>0, <1>1, <1>5 DEF CallsInv, CallHasTicket
  <2>2. \A u \in Threads : ~Awaits(u, q)'
    BY <1>1, <1>2, <1>8, <2>1 DEF Awaits
  <2>3. \A s \in Pending : ~Awaits(t, s)'
    BY <1>8 DEF Awaits
  <2>4. QED
    BY <1>0, <1>2, <1>3, <1>4, <1>9, <2>2, <2>3 DEF CallsInv, CallIsCompleted
<1>13. OthersAreLate'
  <2> SUFFICES ASSUME NEW s \in Submissions', NEW u \in Threads, call'[u].usr,
                      xpc'[u] \in Pointed, pwork'[s] = u, u \notin late'
               PROVE  call'[u].ticket = reqTicket'[s]
    BY DEF OthersAreLate
  <2>1. s \in Submissions /\ s \in Reqs \ {q} /\ u # t
    BY <1>3, <1>4, <1>8
  <2>2. QED
    BY <1>0, <1>1, <1>2, <1>3, <2>1 DEF CallsInv, OthersAreLate
<1> QED BY <1>7, <1>11, <1>12, <1>13 DEF CallsInv

\* prepare_dma_buffer initialises the completion and points the request to it.
LEMMA CallsPoint ==
  ASSUME DmaInv, XferInv, NEW t \in Threads, Point(t)
  PROVE  CallsInv'
<1> USE XferAssumption
<1>a. PICK q : q = treq[t]
  OBVIOUS
<1>0. XferType /\ CallsInv /\ TypeOK
  BY DEF XferInv, DmaInv
<1>1. /\ xpc[t] = "point" /\ xpc'[t] \in {"copy", "map"} /\ \A u \in Threads \ {t} : xpc'[u] = xpc[u]
      /\ UNCHANGED <<pc, treq, reqTicket, ticket, left, reqBuf>>
      /\ Pending' = Pending /\ Submissions' = Submissions
  <2>1. Prepare(t, "point", IF call[t].dir = "down" THEN "copy" ELSE "map")
    BY DEF Point
  <2>2. reqBuf' = reqBuf
    BY DEF Point
  <2>3. QED
    BY <1>0, <2>1, <2>2, PrepareFacts
<1>2. pc[t] = "ready" /\ call[t].usr /\ reqTicket[q] = call[t].ticket
  BY <1>0, <1>1, <1>a DEF CallsInv, CallHasTicket
<1>3. q \in Pending \ Submissions /\ q \in Reqs
  BY <1>a, <1>2, EngineFacts
<1>4. /\ pwork'[q] = t /\ \A r \in Reqs \ {q} : pwork'[r] = pwork[r]
      /\ work'[t] = FALSE /\ \A u \in Threads \ {t} : work'[u] = work[u]
      /\ \A u \in Threads : call'[u].usr = call[u].usr /\ call'[u].ticket = call[u].ticket
      /\ late \subseteq late' /\ late' \subseteq late \union {t}
      /\ \A r \in Submissions : pwork[r] = t => t \in late'
  BY <1>a, <1>0, <1>3, Functions DEF Point
<1>5. CallHasTicket'
  BY <1>0, <1>1, <1>2, <1>4 DEF CallsInv, CallHasTicket
<1>6. \A r \in Pending, u \in Threads \ {t} : Awaits(u, r)' <=> Awaits(u, r)
  BY <1>1, <1>4 DEF Awaits
<1>7. Awaits(t, q)' /\ \A r \in Pending : Awaits(t, r)' => r = q
  <2>1. \A r \in Pending : reqTicket[r] = reqTicket[q] => r = q
    BY <1>3, EngineFacts
  <2>2. QED
    BY <1>1, <1>2, <1>4, <2>1 DEF Awaits, Pointed
<1>8. \A r \in Pending : ~Awaits(t, r)
  BY <1>1 DEF Awaits, Pointed
<1>9. CompletesItsCall'
  <2>1. \A r \in Pending : pwork[r] # NULL /\ reqTicket[r] \notin left =>
          /\ Awaits(pwork[r], r) /\ (pwork[r] \in late \/ ~work[pwork[r]])
          /\ pwork[r] \in Threads \ {t}
    BY <1>0, <1>8, PworkType DEF CallsInv, CompletesItsCall
  <2>2. \A r \in Pending \ {q} : pwork[r] # NULL /\ reqTicket[r] \notin left => Awaits(pwork[r], r)'
    BY <1>3, <1>4, <1>6, <2>1, EngineFacts
  <2>3. \A r \in Pending : reqBuf[r].buf # NULL => pwork[r] # NULL
    BY <1>0 DEF CallsInv, CompletesItsCall
  <2>4. Pending \subseteq Reqs
    BY EngineFacts
  <2>5. QED
    BY <1>1, <1>4, <1>7, <2>1, <2>2, <2>3, <2>4 DEF CompletesItsCall
<1>10. CallIsCompleted'
  <2>1. \A u \in Threads \ {t} : ~Awaits(u, q)
    BY <1>0, <1>2 DEF CallsInv, CallHasTicket, Awaits
  <2>2. Pending \subseteq Reqs
    BY EngineFacts
  <2>3. QED
    BY <1>0, <1>1, <1>4, <1>6, <1>7, <2>1, <2>2 DEF CallsInv, CallIsCompleted
<1>11. OthersAreLate'
  <2>1. Submissions \subseteq Reqs \ {q}
    BY <1>3, EngineFacts DEF Pending
  <2>2. QED
    BY <1>0, <1>1, <1>4, <2>1 DEF CallsInv, OthersAreLate
<1> QED BY <1>5, <1>9, <1>10, <1>11 DEF CallsInv

\* dma_done completes one frame, which another request can only complete late.
LEMMA CallsDone ==
  ASSUME DmaInv, DmaInv', XferInv, NEW c \in Ch, XTakeDone(c)
  PROVE  CallsInv'
<1> USE XferAssumption
<1> DEFINE q == inProgress[c]
<1>0. XferType /\ CallsInv
  BY DEF XferInv
<1>1. /\ q \in Submissions /\ UNCHANGED <<pc, treq, reqTicket, ticket, xpc, call, pwork, late>>
      /\ left' = left \ {reqTicket[q]} /\ \A s \in Reqs \ {q} : reqBuf'[s] = reqBuf[s]
      /\ \A u \in Threads : work'[u] # work[u] => pwork[q] = u
      /\ Pending' = Pending \ {q} /\ Submissions' = Submissions \ {q}
  BY <1>0, DoneFacts
<1>2. CallHasTicket'
  BY <1>0, <1>1 DEF CallsInv, CallHasTicket
<1>3. /\ Pending \subseteq Reqs /\ q \in Pending
      /\ \A r \in Pending \ {q} : reqTicket[r] # reqTicket[q]
  BY <1>1, EngineFacts DEF Pending
<1>4. CompletesItsCall'
  <2> SUFFICES ASSUME NEW r \in Pending \ {q}
               PROVE  /\ reqBuf'[r].buf # NULL => pwork[r] # NULL
                      /\ pwork[r] # NULL /\ reqTicket[r] \notin left' =>
                           Awaits(pwork[r], r)' /\ (pwork[r] \in late \/ ~work'[pwork[r]])
    BY <1>1 DEF CompletesItsCall
  <2>1. /\ reqBuf'[r].buf # NULL => pwork[r] # NULL
        /\ pwork[r] # NULL /\ reqTicket[r] \notin left' =>
             /\ Awaits(pwork[r], r) /\ (pwork[r] \in late \/ ~work[pwork[r]])
             /\ pwork[r] \in Threads
    BY <1>0, <1>1, <1>3, PworkType DEF CallsInv, CompletesItsCall
  <2>2. ASSUME pwork[r] # NULL, reqTicket[r] \notin left', pwork[r] \notin late
        PROVE  ~work'[pwork[r]]
    <3>1. /\ call[pwork[r]].usr /\ xpc[pwork[r]] \in Pointed
          /\ call[pwork[r]].ticket = reqTicket[r] /\ pwork[r] \in Threads /\ ~work[pwork[r]]
      BY <2>1, <2>2 DEF Awaits
    <3>2. pwork[q] # pwork[r]
      BY <1>0, <1>1, <1>3, <2>2, <3>1 DEF CallsInv, OthersAreLate
    <3>3. QED
      BY <1>1, <3>1, <3>2
  <2>3. Awaits(pwork[r], r)' <=> Awaits(pwork[r], r)
    BY <1>1 DEF Awaits
  <2>4. QED
    BY <2>1, <2>2, <2>3
<1>5. CallIsCompleted'
  BY <1>0, <1>1 DEF CallsInv, CallIsCompleted, Awaits
<1>6. OthersAreLate'
  BY <1>0, <1>1 DEF CallsInv, OthersAreLate
<1> QED BY <1>2, <1>4, <1>5, <1>6 DEF CallsInv

\* A step of prepare_dma_buffer before or after the completion is initialised.
LEMMA PrepareFrame ==
  ASSUME DmaInv, XferInv, NEW t \in Threads, NEW from, NEW to, Prepare(t, from, to),
         from # "none", (from \in Pointed) <=> (to \in Pointed),
         UNCHANGED <<work, pwork, late>>,
         \A u \in Threads : call'[u].usr = call[u].usr /\ call'[u].ticket = call[u].ticket,
         \A r \in Pending : reqBuf'[r].buf # NULL => reqBuf[r].buf # NULL \/ pwork[r] # NULL
  PROVE  CallsInv'
<1>0. XferType /\ CallsInv /\ TypeOK
  BY DEF XferInv, DmaInv
<1>1. /\ xpc[t] = from /\ xpc'[t] = to /\ \A u \in Threads \ {t} : xpc'[u] = xpc[u]
      /\ UNCHANGED <<pc, treq, reqTicket, ticket, left>>
      /\ Pending' = Pending /\ Submissions' = Submissions
  BY <1>0, PrepareFacts
<1>2. \A u \in Threads : /\ (xpc'[u] \in Pointed) <=> (xpc[u] \in Pointed)
                         /\ xpc'[u] # "none" => xpc[u] # "none"
  BY <1>1
<1>3. \A r \in Pending : pwork[r] \in Threads \union {NULL}
  BY <1>0, PworkType
<1> QED BY <1>0, <1>1, <1>2, <1>3, CallFrame

\* The engine's steps that no call notices.
LEMMA EngineFrame ==
  ASSUME DmaInv, DmaInv', XferInv,
         \/ \E t \in Threads : XKick(t)
         \/ \E c \in Ch : XHwComplete(c) \/ XKickNext(c) \/ XOther(c)
         \/ UNCHANGED allVars
  PROVE  CallsInv'
<1>0. XferType /\ CallsInv
  BY DEF XferInv
<1>1. /\ UNCHANGED <<reqTicket, ticket, xpc, call, work, pwork, reqBuf, left, late>>
      /\ Pending' = Pending /\ Submissions' = Submissions
      /\ \A u \in Threads : \/ pc'[u] = pc[u] /\ treq'[u] = treq[u]
                            \/ pc[u] = "kick" /\ pc'[u] = "started"
  BY <1>0, EngineStepFacts
<1>2. \A u \in Threads : /\ (pc'[u] = "user") <=> (pc[u] = "user")
                         /\ pc'[u] = "ready" => pc[u] = "ready" /\ treq'[u] = treq[u]
  BY <1>1
<1>3. \A u \in Threads : xpc[u] # "none" => pc'[u] = pc[u]
  BY <1>0, <1>1 DEF CallsInv, CallHasTicket
<1>4. \A r \in Pending : pwork[r] \in Threads \union {NULL}
  BY <1>0, PworkType
<1> QED BY <1>0, <1>1, <1>2, <1>3, <1>4, CallFrame

\* start_dma_xfer submits the request of the call.
LEMMA StartFacts ==
  ASSUME DmaInv, DmaInv', XferType, NEW t \in Threads, XStart(t)
  PROVE  /\ pc[t] = "ready" /\ xpc[t] = "none" /\ pc'[t] \in {"kick", "started"}
         /\ \A u \in Threads \ {t} : pc'[u] = pc[u] /\ treq'[u] = treq[u]
         /\ UNCHANGED <<reqTicket, ticket, live, leaked, hw, hwTicket, xVars>>
         /\ Pending' = Pending /\ Submissions' = Submissions \union {treq[t]}
         /\ \A c \in Ch : inProgress'[c] # inProgress[c] =>
              inProgress'[c] = treq[t] /\ inProgress[c] = NULL /\ c \notin BusyAtProbe
<1>1. /\ pc[t] = "ready" /\ xpc[t] = "none" /\ pc'[t] \in {"kick", "started"}
      /\ \A u \in Threads \ {t} : pc'[u] = pc[u] /\ treq'[u] = treq[u]
      /\ UNCHANGED <<reqTicket, ticket, live, leaked, hw, hwTicket, xVars>>
  BY DEF XStart, StartXfer, StartNow, StartLater, reqVars, hwVars, DmaInv, TypeOK
<1>2. Pending' = Pending
  BY <1>1, EngineFacts, PendingNext
<1>3. InHand' = InHand \ {treq[t]} /\ treq[t] \in InHand
  BY <1>1 DEF InHand, DmaInv, OneOwner
<1>4. Submissions' = Submissions \union {treq[t]}
  <2>1. Submissions = Pending \ InHand /\ Submissions' = Pending' \ InHand'
    BY DEF Pending, Submissions, DmaInv, OneOwner
  <2>2. treq[t] \in Pending
    BY <1>1, EngineFacts
  <2>3. QED
    BY <1>2, <1>3, <2>1, <2>2
<1>5. \A c \in Ch : inProgress'[c] # inProgress[c] =>
        inProgress'[c] = treq[t] /\ inProgress[c] = NULL /\ c \notin BusyAtProbe
  <2>1. CASE StartLater(t)
    BY <2>1 DEF StartLater
  <2>2. ASSUME NEW c \in Ch, StartNow(t, c)
        PROVE  /\ inProgress' = [inProgress EXCEPT ![c] = treq[t]] /\ c \in idle
    <3>1. c = FirstIdle(idle) /\ c >= 0
      BY <2>2, DmaAssumption DEF StartNow, Ch
    <3>2. c \in idle
      BY <3>1, FirstIdleProperty DEF DmaInv, TypeOK
    <3>3. QED
      BY <2>2, <3>2 DEF StartNow
  <2>3. \A c \in idle : inProgress[c] = NULL /\ c \notin BusyAtProbe /\ c \in Ch
    BY DEF DmaInv, ChannelsConserved, TypeOK
  <2>4. QED
    BY <2>1, <2>2, <2>3 DEF XStart, StartXfer, DmaInv, TypeOK
<1> QED BY <1>1, <1>2, <1>4, <1>5

\* A call that fails in prepare_dma_buffer.
LEMMA CallsFail ==
  ASSUME DmaInv, DmaInv', XferInv, NEW t \in Threads, PrepareFails(t),
         xpc[t] \in {"check", "copy", "map", "nomem"}
  PROVE  CallsInv'
<1> USE XferAssumption
<1>0. XferType /\ CallsInv
  BY DEF XferInv
<1>1. /\ pc[t] = "ready" /\ pc'[t] = "user" /\ call'[t] = NoCall /\ xpc'[t] = "none"
      /\ \A u \in Threads \ {t} : /\ pc'[u] = pc[u] /\ xpc'[u] = xpc[u]
                                 /\ call'[u] = call[u] /\ treq'[u] = treq[u]
      /\ UNCHANGED <<reqTicket, ticket, work, pwork, reqBuf, left>>
      /\ late' = late \ {t} /\ Pending' = Pending \ {treq[t]} /\ Submissions' = Submissions
  BY <1>0, FailFacts
<1>2. \A r \in Pending' : pwork[r] = t => reqTicket[r] \in left
  <2> SUFFICES ASSUME NEW r \in Pending, r # treq[t], pwork[r] = t, reqTicket[r] \notin left
               PROVE  FALSE
    BY <1>1
  <2>1. call[t].ticket = reqTicket[r]
    BY <1>0 DEF CallsInv, CompletesItsCall, Awaits
  <2>2. reqTicket[treq[t]] = call[t].ticket /\ treq[t] \in Pending
    BY <1>0, <1>1, EngineFacts DEF CallsInv, CallHasTicket
  <2>3. QED
    BY <2>1, <2>2, EngineFacts
<1>3. \A r \in Pending : pwork[r] \in Threads \union {NULL}
  BY <1>0, PworkType
<1> QED BY <1>0, <1>1, <1>2, <1>3, ReturnFrame

\* A call that returns from the wait, or needs not wait.
LEMMA CallsReturn ==
  ASSUME DmaInv, DmaInv', XferInv, NEW t \in Threads, PlainReturn(t) \/ Finish(t) \/ Timeout(t)
  PROVE  CallsInv'
<1> USE XferAssumption
<1>0. XferType /\ CallsInv /\ TypeOK
  BY DEF XferInv, DmaInv
<1>1. Return(t) /\ UNCHANGED <<xpc, work, pwork, reqBuf>> /\ call' = [call EXCEPT ![t] = NoCall]
  BY DEF PlainReturn, Finish, Timeout
<1>2. /\ pc[t] = "started" /\ pc'[t] = "user" /\ call'[t] = NoCall
      /\ \A u \in Threads \ {t} : /\ pc'[u] = pc[u] /\ call'[u] = call[u] /\ treq'[u] = treq[u]
      /\ UNCHANGED <<reqTicket, ticket>>
      /\ Pending' = Pending /\ Submissions' = Submissions
  BY <1>0, <1>1, ReturnFacts
<1>3. xpc[t] = "none"
  BY <1>0, <1>2 DEF CallsInv, CallHasTicket
<1>4. /\ left \subseteq left' /\ left' \subseteq left \union {call[t].ticket}
      /\ late' \subseteq late /\ late \ {t} \subseteq late'
  BY DEF PlainReturn, Finish, Timeout, Leaves, histVars
<1>5. ASSUME NEW r \in Pending, pwork[r] = t, reqTicket[r] \notin left
      PROVE  call[t].usr /\ call[t].ticket = reqTicket[r] /\ (t \in late \/ ~work[t])
  BY <1>0, <1>5 DEF CallsInv, CompletesItsCall, Awaits
<1>6. ASSUME NEW r \in Pending, call[t].ticket = reqTicket[r]
      PROVE  call[t].ticket \in Submitted
  <2>1. r \notin InHand
    BY <1>0, <1>2, <1>6 DEF InHand, CallsInv, CallHasTicket
  <2>2. QED
    BY <1>6, <2>1 DEF Pending, Submissions, Submitted
<1>7. \A r \in Pending' : pwork[r] = t => reqTicket[r] \in left'
  <2> SUFFICES ASSUME NEW r \in Pending, pwork[r] = t, reqTicket[r] \notin left
               PROVE  reqTicket[r] \in left'
    BY <1>2, <1>4
  <2>1. /\ call[t].usr /\ call[t].ticket = reqTicket[r] /\ (t \in late \/ ~work[t])
        /\ call[t].ticket \in Submitted
    BY <1>5, <1>6
  <2>2. Leaves(t)
    BY <2>1 DEF PlainReturn, Finish, WaitOver, Timeout
  <2>3. QED
    BY <2>1, <2>2 DEF Leaves
<1>8. \A r \in Pending : pwork[r] \in Threads \union {NULL}
  BY <1>0, PworkType
<1> QED BY <1>0, <1>1, <1>2, <1>3, <1>4, <1>7, <1>8, ReturnFrame

LEMMA CallsNext ==
  ASSUME DmaInv, DmaInv', XferInv, XferType', [XNext]_allVars
  PROVE  CallsInv'
<1> USE XferAssumption DEF bufVars
<1>0. XferType /\ CallsInv /\ TypeOK
  BY DEF XferInv, DmaInv
<1>1. ASSUME NEW t \in Threads, NEW usr \in BOOLEAN, NEW dir \in {"down", "up"},
             NEW size \in 1..MaxSize \union {1}, Begin(t, usr, dir, size)
      PROVE  CallsInv'
  BY <1>1, CallsBegin
<1>2. ASSUME NEW t \in Threads, CheckSize(t)
      PROVE  CallsInv'
  <2>1. PICK to \in {"free", "point"} : Prepare(t, "check", to)
    BY <1>2 DEF CheckSize
  <2>2. UNCHANGED <<work, pwork, late, call, reqBuf>>
    BY <1>2 DEF CheckSize
  <2>3. "check" \notin Pointed /\ to \notin Pointed
    BY DEF Pointed
  <2>4. QED
    BY <2>1, <2>2, <2>3, PrepareFrame
<1>3. ASSUME NEW t \in Threads, GrowFree(t) \/ GrowResize(t)
      PROVE  CallsInv'
  <2>1. PICK from \in {"free", "resize"}, to \in {"resize", "alloc"} : Prepare(t, from, to)
    BY <1>3 DEF GrowFree, GrowResize
  <2>2. UNCHANGED <<work, pwork, late, call, reqBuf>>
    BY <1>3 DEF GrowFree, GrowResize
  <2>3. from \notin Pointed /\ to \notin Pointed /\ from # "none"
    BY DEF Pointed
  <2>4. QED
    BY <2>1, <2>2, <2>3, PrepareFrame
<1>4. ASSUME NEW t \in Threads, GrowAlloc(t) \/ GrowAssign(t)
      PROVE  CallsInv'
  <2>1. PICK from \in {"alloc", "assign"}, to \in {"assign", "nomem", "point"} : Prepare(t, from, to)
    BY <1>4 DEF GrowAlloc, GrowAssign
  <2>2. /\ UNCHANGED <<work, pwork, late, reqBuf>>
        /\ call' = call \/ \E b : call' = [call EXCEPT ![t].buf = b]
    BY <1>4 DEF GrowAlloc, GrowAssign
  <2>3. \A u \in Threads : call'[u].usr = call[u].usr /\ call'[u].ticket = call[u].ticket
    BY <1>0, <2>2 DEF XferType, Calls
  <2>4. from \notin Pointed /\ to \notin Pointed /\ from # "none"
    BY DEF Pointed
  <2>5. QED
    BY <2>1, <2>2, <2>3, <2>4, PrepareFrame
<1>5. ASSUME NEW t \in Threads, Point(t)
      PROVE  CallsInv'
  BY <1>5, CallsPoint
<1>6. ASSUME NEW t \in Threads, CopyIn(t)
      PROVE  CallsInv'
  <2>1. Prepare(t, "copy", "map") /\ UNCHANGED <<work, pwork, late, call, reqBuf>>
    BY <1>6 DEF CopyIn
  <2>2. "copy" \in Pointed /\ "map" \in Pointed
    BY DEF Pointed
  <2>3. QED
    BY <2>1, <2>2, PrepareFrame
<1>7. ASSUME NEW t \in Threads, MapBuf(t)
      PROVE  CallsInv'
  <2>1. /\ Prepare(t, "map", "none") /\ UNCHANGED <<work, pwork, late, call>>
        /\ reqBuf' = [reqBuf EXCEPT ![treq[t]] = [buf |-> saved.virt, dir |-> call[t].dir]]
    BY <1>7 DEF MapBuf
  <2>2. "map" \in Pointed /\ "none" \in Pointed
    BY DEF Pointed
  <2>3. xpc[t] = "map"
    BY <2>1 DEF Prepare
  <2>4. pc[t] = "ready" /\ call[t].usr /\ reqTicket[treq[t]] = call[t].ticket
    BY <1>0, <2>3 DEF CallsInv, CallHasTicket
  <2>5. treq[t] \in Pending /\ Pending \subseteq Reqs
    BY <2>4, EngineFacts
  <2>6. pwork[treq[t]] = t
    BY <1>0, <2>2, <2>3, <2>4, <2>5 DEF CallsInv, CallIsCompleted, Awaits
  <2>7. \A r \in Pending : reqBuf'[r].buf # NULL => reqBuf[r].buf # NULL \/ pwork[r] # NULL
    BY <1>0, <2>1, <2>5, <2>6, Functions
  <2>8. QED
    BY <2>1, <2>2, <2>7, PrepareFrame
<1>8. ASSUME NEW t \in Threads, GrowFails(t) \/ UseFails(t)
      PROVE  CallsInv'
  BY <1>8, CallsFail DEF GrowFails, UseFails
<1>9. ASSUME NEW t \in Threads, XStart(t)
      PROVE  CallsInv'
  <2>1. /\ pc[t] = "ready" /\ xpc[t] = "none" /\ pc'[t] \in {"kick", "started"}
        /\ \A u \in Threads \ {t} : pc'[u] = pc[u] /\ treq'[u] = treq[u]
        /\ UNCHANGED <<reqTicket, ticket, xVars>>
        /\ Pending' = Pending /\ Submissions' = Submissions \union {treq[t]}
    BY <1>0, <1>9, StartFacts
  <2>2. UNCHANGED <<call, xpc, work, pwork, reqBuf, left, late>>
    BY <2>1 DEF xVars
  <2>3. treq[t] \in Pending /\ reqTicket[treq[t]] \notin left
    BY <1>0, <2>1, EngineFacts DEF CallsInv, CallHasTicket
  <2>4. \A r \in Pending : pwork[r] \in Threads \union {NULL}
    BY <1>0, PworkType
  <2>5. QED
    BY <1>0, <2>1, <2>2, <2>3, <2>4, CallFrame
<1>10. ASSUME NEW t \in Threads, PlainReturn(t) \/ Finish(t) \/ Timeout(t)
       PROVE  CallsInv'
  BY <1>10, CallsReturn
<1>11. ASSUME NEW c \in Ch, XTakeDone(c)
       PROVE  CallsInv'
  BY <1>11, CallsDone
<1>12. CASE \/ \E t \in Threads : XKick(t)
            \/ \E c \in Ch : XHwComplete(c) \/ XKickNext(c) \/ XOther(c)
            \/ UNCHANGED allVars
  BY <1>12, EngineFrame
<1> QED
  BY <1>1, <1>2, <1>3, <1>4, <1>5, <1>6, <1>7, <1>8, <1>9, <1>10, <1>11, <1>12
     DEF XNext, XThread, XChannel

\* A running channel of the driver has a request that was submitted.
LEMMA RunningFacts ==
  ASSUME DmaInv, NEW c \in Ch, c \notin BusyAtProbe
  PROVE  /\ hw[c] # "stopped" => inProgress[c] \in live /\ inProgress[c] \in Submissions
                                 /\ inProgress[c] \in Reqs
         /\ inProgress[c] = NULL => hw[c] = "stopped"
<1>1. live \subseteq Reqs /\ NULL \notin Reqs
  BY DmaAssumption DEF DmaInv, TypeOK
<1>2. hw[c] # "stopped" => inProgress[c] \in live
  BY DEF DmaInv, RunsWhatIsInProgress
<1> QED BY <1>1, <1>2, EngineFacts

LEMMA HwNext ==
  ASSUME DmaInv, DmaInv', XferInv, [XNext]_allVars
  PROVE  HwHasBuf'
<1> USE DmaAssumption
<1>0. /\ XferType /\ CallsInv /\ TypeOK
      /\ \A c \in Ch : hwBuf[c] = IF c \notin BusyAtProbe /\ hw[c] = "running"
                                  THEN reqBuf[inProgress[c]] ELSE NoBuf
  BY DEF XferInv, DmaInv, HwHasBuf
<1>1. ASSUME UNCHANGED <<hw, hwBuf, inProgress>>,
             \A r \in Submissions : reqBuf'[r] = reqBuf[r]
      PROVE  HwHasBuf'
  <2>1. \A c \in Ch : c \notin BusyAtProbe /\ hw[c] = "running" => inProgress[c] \in Submissions
    BY RunningFacts
  <2>2. QED
    BY <1>0, <1>1, <2>1 DEF HwHasBuf
<1>2. ASSUME NEW t \in Threads, NEW usr \in BOOLEAN, NEW dir \in {"down", "up"},
             NEW size \in 1..MaxSize \union {1}, Begin(t, usr, dir, size)
      PROVE  HwHasBuf'
  <2>1. UNCHANGED <<hw, hwBuf, inProgress>> /\ Submissions \subseteq live /\ live \subseteq Reqs
    BY <1>0, <1>2, BeginFacts DEF TypeOK
  <2>2. \A r \in live : reqBuf'[r] = reqBuf[r]
    BY <1>0, <1>2, <2>1, BeginReq
  <2>3. QED
    BY <1>1, <2>1, <2>2
<1>3. ASSUME NEW t \in Threads, NEW from, NEW to, Prepare(t, from, to), UNCHANGED reqBuf
      PROVE  HwHasBuf'
  BY <1>0, <1>1, <1>3, PrepareFacts
<1>4. ASSUME NEW t \in Threads, MapBuf(t)
      PROVE  HwHasBuf'
  <2>1. Prepare(t, "map", "none")
    BY <1>4 DEF MapBuf
  <2>2. UNCHANGED <<hw, hwBuf, inProgress>> /\ xpc[t] = "map"
    BY <1>0, <2>1, PrepareFacts
  <2>3. treq[t] \notin Submissions
    BY <1>0, <2>2, EngineFacts DEF CallsInv, CallHasTicket
  <2>4. \A r \in Submissions : reqBuf'[r] = reqBuf[r]
    BY <1>0, <1>4, <2>3, EngineFacts, Functions DEF MapBuf, Pending
  <2>5. QED
    BY <1>1, <2>2, <2>4
<1>5. ASSUME NEW t \in Threads, PrepareFails(t)
      PROVE  HwHasBuf'
  BY <1>0, <1>1, <1>5, FailFacts
<1>6. ASSUME NEW t \in Threads, PlainReturn(t) \/ Finish(t) \/ Timeout(t)
      PROVE  HwHasBuf'
  BY <1>1, <1>6 DEF PlainReturn, Finish, Timeout, Return, ctlVars, hwVars
<1>7. ASSUME NEW t \in Threads, XStart(t)
      PROVE  HwHasBuf'
  <2>1. /\ UNCHANGED <<hw, xVars>>
        /\ \A c \in Ch : inProgress'[c] # inProgress[c] => inProgress[c] = NULL /\ c \notin BusyAtProbe
    BY <1>0, <1>7, StartFacts
  <2>2. UNCHANGED <<hwBuf, reqBuf>>
    BY <2>1 DEF xVars
  <2>3. \A c \in Ch : inProgress'[c] # inProgress[c] => hw[c] = "stopped"
    BY <2>1, RunningFacts
  <2>4. QED
    BY <1>0, <2>1, <2>2, <2>3 DEF HwHasBuf
<1>8. ASSUME NEW t \in Threads, XKick(t)
      PROVE  HwHasBuf'
  <2>1. tch[t] \in Ch /\ inProgress[tch[t]] = treq[t] /\ treq[t] \in live
    BY <1>8 DEF XKick, KickOff, DmaInv, KickIsOwned
  <2>2. tch[t] \notin BusyAtProbe
    BY <2>1 DEF DmaInv, ChannelsConserved, TypeOK
  <2>3. /\ UNCHANGED <<inProgress, reqBuf>> /\ hw' = [hw EXCEPT ![tch[t]] = "running"]
        /\ hwBuf' = [hwBuf EXCEPT ![tch[t]] = reqBuf[treq[t]]]
    BY <1>8 DEF XKick, KickOff, ChanStart, ctlVars
  <2>4. QED
    BY <1>0, <2>1, <2>2, <2>3, Functions DEF HwHasBuf, TypeOK
<1>9. ASSUME NEW c \in Ch, XKickNext(c)
      PROVE  HwHasBuf'
  <2>1. inProgress[c] = hreq[c] /\ hreq[c] \in live
    BY <1>9 DEF XKickNext, KickNext, DmaInv, KickIsOwned
  <2>2. c \notin BusyAtProbe
    BY <2>1 DEF DmaInv, ChannelsConserved, TypeOK
  <2>3. /\ UNCHANGED <<inProgress, reqBuf>> /\ hw' = [hw EXCEPT ![c] = "running"]
        /\ hwBuf' = [hwBuf EXCEPT ![c] = reqBuf[hreq[c]]]
    BY <1>9 DEF XKickNext, KickNext, ChanStart, ctlVars
  <2>4. QED
    BY <1>0, <2>1, <2>2, <2>3, Functions DEF HwHasBuf, TypeOK
<1>10. ASSUME NEW c \in Ch, XHwComplete(c)
       PROVE  HwHasBuf'
  <2>1. /\ UNCHANGED <<inProgress, reqBuf>> /\ hw' = [hw EXCEPT ![c] = "msi"]
        /\ hwBuf' = [hwBuf EXCEPT ![c] = NoBuf]
    BY <1>10 DEF XHwComplete, HwComplete, ctlVars
  <2>2. QED
    BY <1>0, <2>1, Functions DEF HwHasBuf, TypeOK
<1>11. ASSUME NEW c \in Ch, XTakeDone(c)
       PROVE  HwHasBuf'
  <2> DEFINE q == inProgress[c]
  <2>1. /\ q \in Submissions /\ q \in Reqs /\ hw[c] = "msi" /\ hw'[c] = "stopped" /\ hwBuf' = hwBuf
        /\ \A s \in Reqs \ {q} : reqBuf'[s] = reqBuf[s]
        /\ \A d \in Ch \ {c} : inProgress'[d] = inProgress[d] /\ hw'[d] = hw[d]
    BY <1>0, <1>11, DoneFacts
  <2>2. \A d \in Ch \ {c} : d \notin BusyAtProbe /\ hw[d] = "running" => inProgress[d] \in Reqs \ {q}
    <3>1. \A d \in Ch \ {c} : inProgress[d] # NULL => inProgress[d] # q
      BY DEF DmaInv, OneOwner
    <3>2. QED
      BY <3>1, RunningFacts
  <2>3. QED
    BY <1>0, <2>1, <2>2 DEF HwHasBuf
<1>12. ASSUME NEW c \in Ch, XOther(c)
       PROVE  HwHasBuf'
  <2>1. UNCHANGED <<hwBuf, reqBuf>>
    BY <1>12 DEF XOther, xVars
  <2>2. CASE RefillNext(c)
    <3>1. inProgress[c] = NULL /\ c \notin BusyAtProbe
      BY <2>2 DEF RefillNext, DmaInv, ChannelsConserved
    <3>2. hw[c] = "stopped"
      BY <3>1, RunningFacts
    <3>3. QED
      BY <1>0, <2>1, <2>2, <3>2 DEF RefillNext, hwVars, HwHasBuf, TypeOK
  <2>3. CASE Spurious(c) \/ RefillNone(c) \/ CreateEvent(c)
    BY <1>0, <2>1, <2>3 DEF Spurious, RefillNone, CreateEvent, ctlVars, hwVars, HwHasBuf, TypeOK
  <2>4. QED
    BY <1>12, <2>2, <2>3 DEF XOther
<1>13. CASE UNCHANGED allVars
  BY <1>1, <1>13 DEF allVars, vars, xVars
<1>14. ASSUME NEW t \in Threads,
              \/ CheckSize(t) \/ GrowFree(t) \/ GrowResize(t) \/ GrowAlloc(t) \/ GrowAssign(t)
              \/ Point(t) \/ CopyIn(t)
       PROVE  HwHasBuf'
  <2>1. \E from, to : Prepare(t, from, to)
    BY <1>14 DEF CheckSize, GrowFree, GrowResize, GrowAlloc, GrowAssign, Point, CopyIn
  <2>2. reqBuf' = reqBuf
    BY <1>14 DEF CheckSize, GrowFree, GrowResize, GrowAlloc, GrowAssign, Point, CopyIn
  <2>3. QED
    BY <1>3, <2>1, <2>2
<1>15. ASSUME NEW t \in Threads, GrowFails(t) \/ UseFails(t)
       PROVE  HwHasBuf'
  BY <1>5, <1>15 DEF GrowFails, UseFails
<1> QED
  BY <1>2, <1>4, <1>6, <1>7, <1>8, <1>9, <1>10, <1>11, <1>12, <1>13, <1>14, <1>15
     DEF XNext, XThread, XChannel

LEMMA XferInit == ASSUME XInit PROVE XferInv
<1> USE XferAssumption, DmaAssumption DEF XInit, Init
<1>1. XferType
  <2>1. saved \in [virt : Bufs \union {NULL}, size : Nat]
    OBVIOUS
  <2>2. NoCall \in Calls /\ NoBuf \in Bounce /\ "none" \in Stages
    BY DEF NoCall, Calls, NoBuf, Bounce, Stages
  <2>3. call \in [Threads -> Calls] /\ reqBuf \in [Reqs -> Bounce] /\ hwBuf \in [Ch -> Bounce]
    BY <2>2
  <2>4. QED
    BY <2>1, <2>2, <2>3 DEF XferType
<1>2. Pending = {} /\ Submissions = {}
  BY DEF Pending, Submissions, Queued, Elems, OnChannel, InHand
<1>3. ~NoCall.usr
  BY DEF NoCall
<1>4. CallsInv
  BY <1>2, <1>3 DEF CallsInv, CallHasTicket, CompletesItsCall, CallIsCompleted, OthersAreLate
<1>5. HwHasBuf
  BY DEF HwHasBuf
<1> QED BY <1>1, <1>4, <1>5 DEF XferInv

LEMMA XferInvariant == XSpec => []XferInv
<1>1. DmaInv /\ DmaInv' /\ XferInv /\ [XNext]_allVars => XferInv'
  BY XferTypeNext, CallsNext, HwNext DEF XferInv
<1> QED BY <1>1, XferInit, XferKeepsDmaInv, PTL DEF XSpec

LEMMA WaitersMatch == ASSUME DmaInv, XferInv PROVE WakesItsCaller
<1> USE XferAssumption
<1> SUFFICES ASSUME NEW r \in Submissions, pwork[r] # NULL, reqTicket[r] \notin left
             PROVE  /\ pc[pwork[r]] \in {"kick", "started"}
                    /\ call[pwork[r]].ticket = reqTicket[r]
  BY DEF WakesItsCaller
<1>1. r \in Pending
  BY DEF Pending
<1>2. PICK t \in Threads : t = pwork[r]
  BY <1>1, PworkType DEF XferInv
<1>3. call[t].usr /\ call[t].ticket = reqTicket[r]
  BY <1>1, <1>2 DEF XferInv, CallsInv, CompletesItsCall, Awaits
<1>4. pc[t] # "user"
  BY <1>3 DEF XferInv, CallsInv, CallHasTicket
<1>5. pc[t] # "ready"
  <2>1. SUFFICES ASSUME pc[t] = "ready" PROVE FALSE
    OBVIOUS
  <2>2. treq[t] \in Pending \ Submissions /\ reqTicket[treq[t]] = call[t].ticket
    BY <2>1, EngineFacts DEF XferInv, CallsInv, CallHasTicket
  <2>3. QED
    BY <1>1, <1>3, <2>2, EngineFacts
<1> QED BY <1>2, <1>3, <1>4, <1>5 DEF DmaInv, TypeOK, PCs

\* dma_done writes req->pwork without asking whether the caller still waits there: it
\* wakes the call the request is for, unless that very call timed out or was itself
\* woken by a late completion.
THEOREM WakesTheRightCall == XSpec => []WakesItsCaller
<1>1. DmaInv /\ XferInv => WakesItsCaller
  BY WaitersMatch
<1> QED BY <1>1, XferKeepsDmaInv, XferInvariant, PTL

\* What waited for its completion has ended.
LEMMA EndedIsDone ==
  ASSUME DmaInv, XferInv, NEW t \in Threads, call[t].usr, work[t], t \notin late,
         pc[t] = "started"
  PROVE  call[t].ticket \notin Submitted
<1>1. xpc[t] \in Pointed /\ call[t].ticket \notin left
  BY DEF XferInv, CallsInv, CallHasTicket, Pointed
<1>2. ASSUME NEW r \in Submissions, call[t].ticket = reqTicket[r] PROVE FALSE
  <2>1. r \in Pending /\ t # NULL
    BY XferAssumption DEF Pending
  <2>2. pwork[r] = t
    BY <1>1, <1>2, <2>1 DEF XferInv, CallsInv, CallIsCompleted, Awaits
  <2>3. QED
    BY <1>1, <1>2, <2>1, <2>2 DEF XferInv, CallsInv, CompletesItsCall
<1> QED BY <1>2 DEF Submitted, Submissions

\* finish_dma_buffer: the ioctl returns its ticket after its own transfer ended, unless a
\* completion that an earlier call of the thread left behind was still to come when it
\* initialised its own.
THEOREM SuccessIsDone == XSpec => SuccessMeansDone
<1>1. DmaInv /\ XferInv /\ [XNext]_allVars =>
        [\A t \in Threads :
           call[t].usr /\ work[t] /\ t \notin late
           /\ pc[t] = "started" /\ pc'[t] = "user"
           => call[t].ticket \notin Submitted]_allVars
  BY EndedIsDone
<1> QED BY <1>1, XferKeepsDmaInv, XferInvariant, PTL DEF XSpec, SuccessMeansDone

-------------------------------------------------------------------------------
(* The bounce buffer *)

\* Until two calls replace the buffer at once, none did.
LEMMA NotRacedBefore ==
  ASSUME XferInv, [XNext]_allVars, ~raced'
  PROVE  ~raced /\ disturbed \subseteq disturbed'
<1>1. ASSUME NEW t \in Threads, NEW usr, NEW dir, NEW size, Begin(t, usr, dir, size)
      PROVE  ~raced /\ disturbed \subseteq disturbed'
  BY <1>1 DEF Begin
<1>2. ASSUME NEW t \in Threads, CheckSize(t)
      PROVE  ~raced /\ disturbed' = disturbed
  BY <1>2 DEF CheckSize
<1>3. ASSUME NEW t \in Threads,
             \/ GrowFree(t) \/ GrowResize(t) \/ GrowAlloc(t) \/ GrowAssign(t)
             \/ GrowFails(t) \/ Point(t) \/ CopyIn(t) \/ MapBuf(t) \/ UseFails(t)
             \/ XStart(t) \/ XKick(t) \/ PlainReturn(t) \/ Finish(t) \/ Timeout(t)
      PROVE  UNCHANGED <<raced, disturbed>>
  BY <1>3 DEF GrowFree, GrowResize, GrowAlloc, GrowAssign, GrowFails, Point, CopyIn, MapBuf,
      UseFails, PrepareFails, XStart, XKick, PlainReturn, Finish, Timeout, xVars, histVars
<1>4. ASSUME NEW c \in Ch, XChannel(c)
      PROVE  UNCHANGED <<raced, disturbed>>
  BY <1>4 DEF XChannel, XHwComplete, XTakeDone, XKickNext, XOther, xVars, histVars
<1>5. CASE UNCHANGED allVars
  BY <1>5 DEF allVars, xVars
<1> QED BY <1>1, <1>2, <1>3, <1>4, <1>5 DEF XNext, XThread

\* A step that neither grows the buffer nor begins or ends growing it.
LEMMA SavedFrame ==
  ASSUME SavedBuf, UNCHANGED <<saved, bufSize>>,
         \A u \in Threads :
           \/ xpc[u] \notin Growing /\ xpc'[u] \in Pointed
           \/ xpc[u] \notin Growing /\ xpc'[u] \in {"check", "point"}
              /\ call'[u].size > 0 /\ call'[u].buf = NULL
           \/ xpc'[u] = xpc[u] /\ call'[u].size = call[u].size /\ call'[u].buf = call[u].buf
  PROVE  SavedBuf'
<1> USE DEF Growing, Pointed
<1>1. \A t, u \in Threads : xpc'[t] \in Growing /\ xpc'[u] \in Growing => t = u
  BY DEF SavedBuf
<1>2. (\A t \in Threads : xpc'[t] \notin Growing \ {"free"})
      => (OneBuffer \/ (saved.size = 0 /\ NoBuffer))'
  BY DEF SavedBuf, OneBuffer, NoBuffer
<1>3. \A t \in Threads :
         /\ xpc'[t] \in Growing \union {"check", "point"} =>
              call'[t].size > 0 /\ (xpc'[t] # "assign" => call'[t].buf = NULL)
         /\ xpc'[t] \in {"resize", "alloc"} => NoneLive'
         /\ xpc'[t] = "alloc" => saved'.size = call'[t].size
         /\ xpc'[t] = "nomem" => NoBuffer'
  BY DEF SavedBuf, NoneLive, NoBuffer
<1>4. ASSUME NEW t \in Threads, xpc'[t] = "assign"
      PROVE  saved'.size = call'[t].size /\ InHandOnly(call[t].buf)' /\ call'[t].buf = call[t].buf
  BY <1>4 DEF SavedBuf, InHandOnly
<1> QED BY <1>1, <1>2, <1>3, <1>4 DEF SavedBuf, InHandOnly

\* The steps that replace the buffer, one call at a time.
LEMMA SavedGrow ==
  ASSUME DmaInv, XferInv, XferType', SavedBuf, NEW t \in Threads,
         \/ GrowFree(t) \/ GrowResize(t) \/ GrowAlloc(t) \/ GrowAssign(t)
  PROVE  SavedBuf'
<1> USE XferAssumption DEF Growing, bufVars
<1>0. XferType /\ TypeOK
  BY DEF XferInv, DmaInv
<1>1. xpc[t] \in Growing /\ \A u \in Threads \ {t} : xpc'[u] = xpc[u]
  BY <1>0, PrepareFacts DEF GrowFree, GrowResize, GrowAlloc, GrowAssign
<1>2. \A u \in Threads \ {t} : xpc[u] \notin Growing /\ call'[u] = call[u]
  BY <1>0, <1>1, Functions DEF SavedBuf, GrowFree, GrowResize, GrowAlloc, GrowAssign
<1>3. \A u \in Threads \ {t} :
        /\ xpc'[u] \notin Growing
        /\ xpc'[u] \in {"check", "point"} => call'[u].size > 0 /\ call'[u].buf = NULL
  BY <1>1, <1>2 DEF SavedBuf
<1>4. /\ call[t].size > 0 /\ (xpc[t] # "assign" => call[t].buf = NULL)
      /\ saved.virt \in Bufs \union {NULL} /\ saved.size \in Nat /\ call[t].size \in Nat
      /\ call[t].buf \in Bufs \union {NULL}
  BY <1>0, <1>1, CallFields DEF SavedBuf
<1>5. CASE GrowFree(t)
  <2>1. xpc[t] = "free" /\ xpc'[t] = "resize" /\ call' = call
    BY <1>0, <1>5, PrepareFacts DEF GrowFree
  <2>2. OneBuffer \/ (saved.size = 0 /\ NoBuffer)
    BY <1>2, <2>1 DEF SavedBuf
  <2>3. NoneLive'
    BY <1>0, <1>5, <2>2 DEF GrowFree, OneBuffer, NoBuffer, NoneLive, XferType
  <2>4. QED
    BY <1>3, <1>4, <2>1, <2>3 DEF SavedBuf
<1>6. CASE GrowResize(t)
  <2>1. xpc[t] = "resize" /\ xpc'[t] = "alloc" /\ call' = call /\ bufSize' = bufSize
    BY <1>0, <1>6, PrepareFacts DEF GrowResize
  <2>2. saved'.size = call[t].size
    BY <1>0, <1>6 DEF GrowResize, XferType
  <2>3. NoneLive'
    BY <2>1 DEF SavedBuf, NoneLive
  <2>4. QED
    BY <1>3, <1>4, <2>1, <2>2, <2>3 DEF SavedBuf
<1>7. CASE GrowAlloc(t)
  <2>1. xpc[t] = "alloc" /\ xpc'[t] = "assign" /\ saved' = saved
    BY <1>0, <1>7, PrepareFacts DEF GrowAlloc
  <2>2. NoneLive /\ saved.size = call[t].size
    BY <2>1 DEF SavedBuf
  <2>3. call'[t].size = call[t].size /\ InHandOnly(call[t].buf)'
    <3>1. CASE UNCHANGED <<bufSize, call>>
      BY <1>4, <2>1, <2>2, <3>1 DEF InHandOnly, NoneLive
    <3>2. ASSUME NEW b \in Bufs, bufSize' = [bufSize EXCEPT ![b] = saved.size],
                 call' = [call EXCEPT ![t].buf = b]
          PROVE  call'[t].size = call[t].size /\ InHandOnly(call[t].buf)'
      <4>1. call'[t].size = call[t].size /\ call'[t].buf = b
        BY <1>0, <3>2 DEF XferType, Calls
      <4>2. \A a \in Bufs : bufSize'[a] = IF a = b THEN saved.size ELSE 0
        BY <1>0, <2>2, <3>2 DEF NoneLive, XferType
      <4>3. QED
        BY <1>4, <2>1, <2>2, <4>1, <4>2 DEF InHandOnly
    <3>3. QED
      BY <1>7, <3>1, <3>2 DEF GrowAlloc
  <2>4. QED
    BY <1>3, <1>4, <2>1, <2>2, <2>3 DEF SavedBuf
<1>8. CASE GrowAssign(t)
  <2>1. /\ xpc[t] = "assign" /\ xpc'[t] = IF call[t].buf = NULL THEN "nomem" ELSE "point"
        /\ bufSize' = bufSize
    BY <1>0, <1>8, PrepareFacts DEF GrowAssign
  <2>2. saved.size = call[t].size /\ InHandOnly(call[t].buf)
    BY <2>1 DEF SavedBuf
  <2>3. saved'.size = saved.size /\ saved'.virt = call[t].buf
    BY <1>0, <1>8 DEF GrowAssign, XferType
  <2>4. call'[t].size = call[t].size /\ call'[t].buf = NULL
    BY <1>0, <1>8 DEF GrowAssign, XferType, Calls
  <2>5. CASE call[t].buf = NULL
    <3>1. NoBuffer'
      BY <2>1, <2>2, <2>3, <2>5 DEF InHandOnly, NoBuffer
    <3>2. QED
      BY <1>3, <1>4, <2>1, <2>4, <2>5, <3>1 DEF SavedBuf
  <2>6. CASE call[t].buf # NULL
    <3>1. OneBuffer'
      BY <1>4, <2>1, <2>2, <2>3, <2>6 DEF InHandOnly, OneBuffer
    <3>2. QED
      BY <1>3, <1>4, <2>1, <2>4, <2>6, <3>1 DEF SavedBuf
  <2>7. QED
    BY <2>5, <2>6
<1> QED BY <1>5, <1>6, <1>7, <1>8

LEMMA SavedBufNext ==
  ASSUME DmaInv, DmaInv', XferInv, XferType', ~raced', SavedBuf, [XNext]_allVars
  PROVE  SavedBuf'
<1> USE DEF bufVars
<1>0. XferType /\ CallsInv /\ TypeOK
  BY DEF XferInv, DmaInv
<1>91. \A u \in Threads : pc[u] # "ready" => xpc[u] = "none"
  BY <1>0 DEF CallsInv, CallHasTicket
<1>92. "none" \in Pointed /\ "copy" \in Pointed /\ "map" \in Pointed
  BY DEF Pointed
<1>93. {"none", "check", "point", "copy", "map"} \intersect Growing = {}
  BY DEF Growing
<1>1. ASSUME NEW t \in Threads, NEW usr \in BOOLEAN, NEW dir \in {"down", "up"},
             NEW size \in 1..MaxSize \union {1}, Begin(t, usr, dir, size)
      PROVE  SavedBuf'
  <2>1. /\ pc[t] = "user" /\ UNCHANGED <<saved, bufSize>>
        /\ call'[t] = [usr |-> usr, dir |-> dir, size |-> size, ticket |-> ticket', buf |-> NULL]
        /\ xpc'[t] = IF usr THEN "check" ELSE "none"
        /\ \A u \in Threads \ {t} : xpc'[u] = xpc[u] /\ call'[u] = call[u]
    BY <1>0, <1>1, BeginFacts
  <2>2. size > 0
    BY XferAssumption
  <2>3. call'[t].size > 0 /\ call'[t].buf = NULL /\ xpc[t] \notin Growing
    BY <1>91, <1>93, <2>1, <2>2
  <2>4. QED
    BY <1>92, <2>1, <2>3, SavedFrame
<1>2. ASSUME NEW t \in Threads, CheckSize(t)
      PROVE  SavedBuf'
  <2>1. /\ xpc[t] = "check" /\ xpc'[t] = IF NeedsGrow(t) THEN "free" ELSE "point"
        /\ \A u \in Threads \ {t} : xpc'[u] = xpc[u]
        /\ UNCHANGED <<saved, bufSize, call>>
    BY <1>0, <1>2, PrepareFacts DEF CheckSize
  <2>2. call[t].size > 0 /\ call[t].buf = NULL
    BY <2>1 DEF SavedBuf
  <2>3. CASE NeedsGrow(t)
    <3>1. \A u \in Threads : xpc[u] \notin Growing
      BY <1>2, <2>3 DEF CheckSize
    <3>2. OneBuffer \/ (saved.size = 0 /\ NoBuffer)
      BY <3>1 DEF SavedBuf
    <3>3. (OneBuffer \/ (saved.size = 0 /\ NoBuffer))'
      BY <2>1, <3>2 DEF OneBuffer, NoBuffer
    <3>4. \A u \in Threads \ {t} :
            /\ xpc'[u] \notin Growing
            /\ xpc'[u] \in {"check", "point"} => call'[u].size > 0 /\ call'[u].buf = NULL
      BY <2>1, <3>1 DEF SavedBuf
    <3>5. QED
      BY <2>1, <2>2, <2>3, <3>3, <3>4 DEF SavedBuf, Growing
  <2>4. CASE ~NeedsGrow(t)
    BY <1>93, <2>1, <2>2, <2>4, SavedFrame
  <2>5. QED
    BY <2>3, <2>4
<1>3. ASSUME NEW t \in Threads, GrowFree(t) \/ GrowResize(t) \/ GrowAlloc(t) \/ GrowAssign(t)
      PROVE  SavedBuf'
  BY <1>3, SavedGrow
<1>4. ASSUME NEW t \in Threads, GrowFails(t)
      PROVE  SavedBuf'
  <2>1. /\ xpc[t] = "nomem" /\ xpc'[t] = "none" /\ bufSize' = bufSize
        /\ \A u \in Threads \ {t} : xpc'[u] = xpc[u] /\ call'[u] = call[u]
    BY <1>0, <1>4, FailFacts DEF GrowFails
  <2>2. saved'.size = 0 /\ saved'.virt = saved.virt
    BY <1>0, <1>4 DEF GrowFails, XferType
  <2>3. \A u \in Threads \ {t} : xpc[u] \notin Growing
    BY <2>1 DEF SavedBuf, Growing
  <2>4. NoBuffer'
    BY <2>1, <2>2 DEF SavedBuf, NoBuffer
  <2>5. \A u \in Threads :
          /\ xpc'[u] \notin Growing
          /\ xpc'[u] \in {"check", "point"} => call'[u].size > 0 /\ call'[u].buf = NULL
    BY <1>93, <2>1, <2>3 DEF SavedBuf
  <2>6. QED
    BY <2>2, <2>4, <2>5 DEF SavedBuf, Growing
<1>5. ASSUME NEW t \in Threads, Point(t) \/ CopyIn(t) \/ MapBuf(t)
      PROVE  SavedBuf'
  <2>1. PICK from \in {"point", "copy", "map"}, to \in {"copy", "map", "none"} : Prepare(t, from, to)
    BY <1>5 DEF Point, CopyIn, MapBuf
  <2>2. xpc[t] = from /\ xpc'[t] = to /\ \A u \in Threads \ {t} : xpc'[u] = xpc[u]
    BY <1>0, <2>1, PrepareFacts
  <2>3. UNCHANGED <<saved, bufSize>> /\ \A u \in Threads \ {t} : call'[u] = call[u]
    BY <1>0, <1>5, Functions DEF Point, CopyIn, MapBuf
  <2>4. QED
    BY <1>92, <1>93, <2>2, <2>3, SavedFrame
<1>6. ASSUME NEW t \in Threads, UseFails(t)
      PROVE  SavedBuf'
  <2>1. /\ xpc[t] \in {"check", "copy", "map"} /\ xpc'[t] = "none" /\ UNCHANGED <<saved, bufSize>>
        /\ \A u \in Threads \ {t} : xpc'[u] = xpc[u] /\ call'[u] = call[u]
    BY <1>0, <1>6, FailFacts DEF UseFails
  <2>2. QED
    BY <1>92, <1>93, <2>1, SavedFrame
<1>7. ASSUME NEW t \in Threads, PlainReturn(t) \/ Finish(t) \/ Timeout(t)
      PROVE  SavedBuf'
  <2>1. /\ Return(t) /\ UNCHANGED <<xpc, saved, bufSize>> /\ call' = [call EXCEPT ![t] = NoCall]
    BY <1>7 DEF PlainReturn, Finish, Timeout
  <2>2. pc[t] = "started" /\ \A u \in Threads \ {t} : call'[u] = call[u]
    BY <1>0, <2>1, Functions DEF Return
  <2>3. QED
    BY <1>91, <1>92, <1>93, <2>1, <2>2, SavedFrame
<1>8. CASE \/ \E t \in Threads : XStart(t) \/ XKick(t)
           \/ \E c \in Ch : XChannel(c)
           \/ UNCHANGED allVars
  <2>1. UNCHANGED <<saved, bufSize, xpc, call>>
    BY <1>8 DEF XStart, XKick, XChannel, XHwComplete, XTakeDone, XKickNext, XOther, xVars,
        allVars
  <2>2. QED
    BY <2>1, SavedFrame
<1> QED
  BY <1>1, <1>2, <1>3, <1>4, <1>5, <1>6, <1>7, <1>8 DEF XNext, XThread

\* A step that submits no user transfer.
LEMMA AloneFrame ==
  ASSUME Alone, disturbed' = disturbed,
         \A u \in Threads : call'[u].usr => call[u].usr /\ call'[u].ticket = call[u].ticket,
         Submissions' \subseteq Submissions,
         \A r \in Submissions' : pwork'[r] = pwork[r] /\ reqTicket'[r] = reqTicket[r],
         \A u \in late' : call'[u].usr /\ call'[u].ticket \in disturbed
  PROVE  Alone'
BY DEF Alone

\* A call that submits its request was already alone.
LEMMA AloneStart ==
  ASSUME DmaInv, DmaInv', XferInv, Alone, NEW t \in Threads, XStart(t)
  PROVE  Alone'
<1> USE XferAssumption
<1>0. XferType /\ CallsInv
  BY DEF XferInv
<1>1. PICK q \in Reqs :
        /\ q = treq[t] /\ q \in Pending /\ pc[t] = "ready"
        /\ UNCHANGED <<reqTicket, pwork, call, disturbed, late>>
        /\ Submissions' = Submissions \union {q}
  <2>1. /\ pc[t] = "ready" /\ UNCHANGED <<reqTicket, xVars>>
        /\ Submissions' = Submissions \union {treq[t]}
    BY <1>0, StartFacts
  <2>2. QED
    BY <2>1, EngineFacts DEF xVars
<1>2. reqTicket[q] = call[t].ticket /\ reqTicket[q] \notin left
  BY <1>0, <1>1 DEF CallsInv, CallHasTicket
<1>3. pwork[q] # NULL => call[t].usr
  <2> SUFFICES ASSUME pwork[q] # NULL PROVE call[t].usr
    OBVIOUS
  <2>1. PICK u \in Threads : u = pwork[q]
    BY <1>0, <1>1, PworkType
  <2>2. call[u].usr /\ call[u].ticket = reqTicket[q]
    BY <1>0, <1>1, <1>2, <2>1 DEF CallsInv, CompletesItsCall, Awaits
  <2>3. u = t
    BY <1>0, <1>1, <1>2, <2>2 DEF CallsInv, CallHasTicket
  <2>4. QED
    BY <2>2, <2>3
<1>4. ASSUME NEW u \in Threads, call[u].usr, pwork[q] # NULL,
             ~({call[u].ticket, reqTicket[q]} \subseteq disturbed)
      PROVE  call[u].ticket = reqTicket[q]
  BY <1>2, <1>3, <1>4 DEF Alone
<1>5. ASSUME NEW r \in Submissions, pwork[r] # NULL, pwork[q] # NULL,
             reqTicket[r] \notin disturbed \/ reqTicket[q] \notin disturbed
      PROVE  r = q
  <2>1. call[t].ticket = reqTicket[r]
    BY <1>2, <1>3, <1>5 DEF Alone
  <2>2. r \in Pending
    BY DEF Pending
  <2>3. QED
    BY <1>1, <1>2, <2>1, <2>2, EngineFacts
<1> QED BY <1>1, <1>4, <1>5 DEF Alone

\* bifrost_do_xfer disturbs whatever is under way, and itself.
LEMMA AloneBegin ==
  ASSUME DmaInv, DmaInv', XferInv, Alone, ~raced, NEW t \in Threads, NEW usr \in BOOLEAN,
         NEW dir \in {"down", "up"}, NEW size \in 1..MaxSize \union {1}, Begin(t, usr, dir, size)
  PROVE  Alone'
<1>0. XferType /\ CallsInv
  BY DEF XferInv
<1>1. PICK q \in Reqs \ live :
        \A s \in Reqs \ {q} : reqTicket'[s] = reqTicket[s] /\ pwork'[s] = pwork[s]
  BY <1>0, BeginReq
<1>2. /\ pc[t] = "user" /\ Submissions' = Submissions /\ Submissions \subseteq live
      /\ call'[t] = [usr |-> usr, dir |-> dir, size |-> size, ticket |-> ticket', buf |-> NULL]
      /\ \A u \in Threads \ {t} : call'[u] = call[u]
      /\ late' = late
  BY <1>0, BeginFacts
<1>3. \A s \in Submissions : reqTicket'[s] = reqTicket[s] /\ pwork'[s] = pwork[s]
  BY <1>1, <1>2 DEF DmaInv, TypeOK
<1>4. call'[t].usr = usr /\ call'[t].ticket = ticket'
  BY <1>2
<1>5. ~call[t].usr /\ t \notin late
  BY <1>0, <1>2 DEF CallsInv, CallHasTicket, Alone
<1>6. disturbed \subseteq disturbed' /\ (~usr => disturbed' = disturbed)
  BY DEF Begin
<1>7. \A u \in late' : call'[u].usr /\ call'[u].ticket \in disturbed'
  BY <1>0, <1>2, <1>5, <1>6 DEF Alone, XferType
<1>8. CASE ~usr
  BY <1>2, <1>3, <1>4, <1>6, <1>7, <1>8, AloneFrame
<1>9. CASE usr /\ Bouncing = {}
  <2>1. \A u \in Threads : ~call[u].usr
    BY <1>9 DEF Bouncing
  <2>2. \A r \in Submissions : pwork[r] = NULL
    BY <1>9 DEF Bouncing
  <2>3. \A u \in Threads : call'[u].usr => u = t
    BY <1>2, <2>1
  <2>4. QED
    BY <1>2, <1>3, <1>7, <2>2, <2>3 DEF Alone
<1>10. CASE usr /\ Bouncing # {}
  <2>1. disturbed' = disturbed \union Bouncing \union {ticket'}
    BY <1>10 DEF Begin
  <2>2. \A u \in Threads : call'[u].usr => call'[u].ticket \in disturbed'
    BY <1>2, <1>4, <2>1 DEF Bouncing
  <2>3. \A r \in Submissions : pwork[r] # NULL => reqTicket[r] \in disturbed'
    BY <2>1 DEF Bouncing
  <2>4. QED
    BY <1>2, <1>3, <1>7, <2>2, <2>3 DEF Alone
<1> QED BY <1>8, <1>9, <1>10

LEMMA AloneNext ==
  ASSUME DmaInv, DmaInv', XferInv, ~raced', Alone, [XNext]_allVars
  PROVE  Alone'
<1> USE XferAssumption
<1>0. XferType /\ CallsInv /\ TypeOK /\ ~raced
  BY NotRacedBefore DEF XferInv, DmaInv
<1>1. ASSUME NEW t \in Threads,
             \/ CheckSize(t) \/ GrowFree(t) \/ GrowResize(t) \/ GrowAlloc(t) \/ GrowAssign(t)
             \/ CopyIn(t) \/ MapBuf(t)
      PROVE  Alone'
  <2>1. \E from, to : Prepare(t, from, to)
    BY <1>1 DEF CheckSize, GrowFree, GrowResize, GrowAlloc, GrowAssign, CopyIn, MapBuf
  <2>2. UNCHANGED <<reqTicket>> /\ Submissions' = Submissions
    BY <1>0, <2>1, PrepareFacts
  <2>3. /\ UNCHANGED <<pwork, late>> /\ disturbed' = disturbed
        /\ call' = call \/ \E b : call' = [call EXCEPT ![t].buf = b]
    BY <1>1 DEF CheckSize, GrowFree, GrowResize, GrowAlloc, GrowAssign, CopyIn, MapBuf
  <2>4. \A u \in Threads : call'[u].usr = call[u].usr /\ call'[u].ticket = call[u].ticket
    BY <1>0, <2>3 DEF XferType, Calls
  <2>5. \A u \in late' : call'[u].usr /\ call'[u].ticket \in disturbed
    BY <1>0, <2>3, <2>4 DEF Alone, XferType
  <2>6. QED
    BY <2>2, <2>3, <2>4, <2>5, AloneFrame
<1>2. ASSUME NEW t \in Threads, Point(t)
      PROVE  Alone'
  <2>1. Prepare(t, "point", IF call[t].dir = "down" THEN "copy" ELSE "map")
    BY <1>2 DEF Point
  <2>2. UNCHANGED <<reqTicket>> /\ Submissions' = Submissions /\ xpc[t] = "point"
    BY <1>0, <2>1, PrepareFacts
  <2>3. pc[t] = "ready" /\ call[t].usr /\ reqTicket[treq[t]] = call[t].ticket
    BY <1>0, <2>2 DEF CallsInv, CallHasTicket
  <2>4. treq[t] \in Pending \ Submissions /\ Submissions \subseteq Pending /\ Pending \subseteq Reqs
    BY <2>3, EngineFacts DEF Pending
  <2>5. \A r \in Submissions : pwork'[r] = pwork[r]
    BY <1>0, <1>2, <2>4, Functions DEF Point
  <2>6. \A u \in Threads : call'[u].usr = call[u].usr /\ call'[u].ticket = call[u].ticket
    BY <1>0, <1>2 DEF Point, XferType, Calls
  <2>7. ASSUME NEW r \in Submissions, pwork[r] = t PROVE call[t].ticket \in disturbed
    <3>1. reqTicket[r] # call[t].ticket
      BY <2>3, <2>4, EngineFacts
    <3>2. QED
      BY <2>3, <2>7, <3>1 DEF Alone
  <2>8. \A u \in late' : u \in Threads /\ call[u].usr /\ call[u].ticket \in disturbed
    BY <1>0, <1>2, <2>3, <2>7 DEF Point, Alone, XferType
  <2>9. disturbed' = disturbed
    BY <1>2 DEF Point
  <2>10. QED
    BY <2>2, <2>5, <2>6, <2>8, <2>9, AloneFrame
<1>3. ASSUME NEW t \in Threads, GrowFails(t) \/ UseFails(t)
      PROVE  Alone'
  <2>1. /\ call'[t] = NoCall /\ \A u \in Threads \ {t} : call'[u] = call[u]
        /\ UNCHANGED <<reqTicket, pwork, disturbed>> /\ late' = late \ {t}
        /\ Submissions' = Submissions
    BY <1>0, <1>3, FailFacts DEF GrowFails, UseFails
  <2>2. ~NoCall.usr
    BY DEF NoCall
  <2>3. \A u \in late' : call'[u].usr /\ call'[u].ticket \in disturbed
    BY <1>0, <2>1 DEF Alone, XferType
  <2>4. QED
    BY <2>1, <2>2, <2>3, AloneFrame
<1>4. ASSUME NEW t \in Threads, PlainReturn(t) \/ Finish(t) \/ Timeout(t)
      PROVE  Alone'
  <2>1. /\ Return(t) /\ UNCHANGED <<xpc, pwork, disturbed>> /\ call' = [call EXCEPT ![t] = NoCall]
    BY <1>4 DEF PlainReturn, Finish, Timeout, histVars
  <2>2. /\ call'[t] = NoCall /\ \A u \in Threads \ {t} : call'[u] = call[u]
        /\ UNCHANGED reqTicket /\ Submissions' = Submissions
    BY <1>0, <2>1, ReturnFacts
  <2>3. late' = late \ {t}
    BY <1>4 DEF PlainReturn, Finish, Timeout, histVars, Alone
  <2>4. ~NoCall.usr
    BY DEF NoCall
  <2>5. \A u \in late' : call'[u].usr /\ call'[u].ticket \in disturbed
    BY <1>0, <2>2, <2>3 DEF Alone, XferType
  <2>6. QED
    BY <2>1, <2>2, <2>4, <2>5, AloneFrame
<1>5. ASSUME NEW c \in Ch, XTakeDone(c)
      PROVE  Alone'
  <2>1. /\ UNCHANGED <<reqTicket, pwork, call, disturbed, late>> /\ Submissions' \subseteq Submissions
    BY <1>0, <1>5, DoneFacts
  <2>2. QED
    BY <2>1, AloneFrame DEF Alone
<1>6. CASE \/ \E t \in Threads : XKick(t)
           \/ \E c \in Ch : XHwComplete(c) \/ XKickNext(c) \/ XOther(c)
           \/ UNCHANGED allVars
  <2>1. /\ UNCHANGED <<reqTicket, pwork, call, disturbed, late>> /\ Submissions' = Submissions
    BY <1>0, <1>6, EngineStepFacts
  <2>2. QED
    BY <2>1, AloneFrame DEF Alone
<1> QED
  BY <1>0, <1>1, <1>2, <1>3, <1>4, <1>5, <1>6, AloneBegin, AloneStart DEF XNext, XThread,
      XChannel

\* The steps of an undisturbed call.
LEMMA CallOkSelf ==
  ASSUME DmaInv, DmaInv', XferInv, XferInv', SavedBuf, Alone, CallHasBuf,
         NEW t \in Threads, XThread(t), call'[t].usr, call'[t].ticket \notin disturbed',
         disturbed \subseteq disturbed'
  PROVE  CallOk(t)'
<1> USE XferAssumption DEF Pointed, bufVars
<1>0. XferType /\ CallsInv /\ TypeOK
  BY DEF XferInv, DmaInv
<1>1. ASSUME NEW usr \in BOOLEAN, NEW dir \in {"down", "up"},
             NEW size \in 1..MaxSize \union {1}, Begin(t, usr, dir, size)
      PROVE  CallOk(t)'
  <2>1. xpc'[t] = IF usr THEN "check" ELSE "none"
    BY <1>0, <1>1, BeginFacts
  <2>2. call'[t] = [usr |-> usr, dir |-> dir, size |-> size, ticket |-> ticket', buf |-> NULL]
    BY <1>0, <1>1, BeginFacts
  <2>3. xpc'[t] = "check"
    BY <2>1, <2>2
  <2>4. QED
    BY <2>3 DEF CallOk
<1>2. CASE \/ GrowFails(t) \/ UseFails(t) \/ PlainReturn(t) \/ Finish(t) \/ Timeout(t)
  <2>1. call' = [call EXCEPT ![t] = NoCall]
    BY <1>2 DEF GrowFails, UseFails, PrepareFails, PlainReturn, Finish, Timeout
  <2>2. QED
    BY <1>0, <2>1, Functions DEF NoCall
<1>3. CASE CheckSize(t)
  <2>1. /\ xpc[t] = "check" /\ xpc'[t] = IF NeedsGrow(t) THEN "free" ELSE "point"
        /\ UNCHANGED <<saved, call>>
    BY <1>0, <1>3, PrepareFacts DEF CheckSize
  <2>2. call[t].size > 0 /\ call[t].size \in Nat /\ saved.size \in Nat
    BY <1>0, <2>1, CallFields DEF SavedBuf
  <2>3. QED
    BY <2>1, <2>2 DEF CallOk, NeedsGrow
<1>4. CASE GrowFree(t) \/ GrowResize(t) \/ GrowAlloc(t)
  <2>1. xpc'[t] \in {"resize", "alloc", "assign"}
    BY <1>0, <1>4, PrepareFacts DEF GrowFree, GrowResize, GrowAlloc
  <2>2. QED
    BY <2>1 DEF CallOk
<1>5. CASE GrowAssign(t)
  <2>1. xpc[t] = "assign" /\ xpc'[t] \in {"nomem", "point"}
    BY <1>0, <1>5, PrepareFacts DEF GrowAssign
  <2>2. saved.size = call[t].size /\ call[t].size > 0 /\ call[t].size \in Nat
    BY <1>0, <2>1, CallFields DEF SavedBuf, Growing
  <2>3. saved'.size = saved.size /\ call'[t].size = call[t].size
    BY <1>0, <1>5 DEF GrowAssign, XferType, Calls
  <2>4. QED
    BY <2>1, <2>2, <2>3 DEF CallOk
<1>6. ASSUME call[t].usr, call[t].ticket \notin disturbed, xpc[t] \in Pointed \union {"point"}
      PROVE  CallOk(t) /\ saved.virt \in Bufs
  <2>1. CallOk(t)
    BY <1>6 DEF CallHasBuf
  <2>2. \A u \in Threads : xpc[u] \notin Growing
    <3>1. \A u \in Threads : xpc[u] # "none" => u = t
      BY <1>0, <1>6 DEF Alone, CallsInv, CallHasTicket
    <3>2. QED
      BY <1>6, <3>1 DEF Growing
  <2>3. saved.size # 0
    BY <1>0, <1>6, <2>1, CallFields DEF CallOk
  <2>4. QED
    BY <2>1, <2>2, <2>3 DEF SavedBuf, OneBuffer
<1>7. CASE Point(t)
  <2>1. /\ xpc[t] = "point" /\ xpc'[t] = IF call[t].dir = "down" THEN "copy" ELSE "map"
        /\ saved' = saved
    BY <1>0, <1>7, PrepareFacts DEF Point
  <2>2. /\ call'[t].usr = call[t].usr /\ call'[t].ticket = call[t].ticket
        /\ call'[t].size = call[t].size /\ call'[t].dir = call[t].dir /\ call'[t].buf = saved.virt
    <3>1. call' = [call EXCEPT ![t].buf = saved.virt]
      BY <1>7 DEF Point
    <3>2. call'[t] = [call[t] EXCEPT !.buf = saved.virt]
      BY <1>0, <3>1, Functions
    <3>3. call[t] \in Calls
      BY <1>0, Functions
    <3>4. QED
      BY <3>2, <3>3 DEF Calls
  <2>3. CallOk(t)
    BY <1>6, <2>1, <2>2
  <2>4. QED
    BY <2>1, <2>2, <2>3 DEF CallOk
<1>8. CASE CopyIn(t)
  <2>1. xpc[t] = "copy" /\ xpc'[t] = "map" /\ UNCHANGED <<saved, call>>
    BY <1>0, <1>8, PrepareFacts DEF CopyIn
  <2>2. CallOk(t) /\ saved.virt \in Bufs
    BY <1>6, <2>1
  <2>3. bufData'[saved.virt] = call[t].ticket
    BY <1>0, <1>8, <2>2 DEF CopyIn, Filled, XferType
  <2>4. QED
    BY <2>1, <2>2, <2>3 DEF CallOk
<1>9. CASE MapBuf(t)
  <2>1. /\ xpc[t] = "map" /\ xpc'[t] = "none" /\ UNCHANGED <<saved, call, bufData, pc, treq>>
    BY <1>0, <1>9, PrepareFacts DEF MapBuf
  <2>2. CallOk(t)
    BY <1>6, <2>1
  <2>3. pc[t] = "ready"
    BY <1>0, <2>1 DEF CallsInv, CallHasTicket
  <2>4. reqBuf'[treq[t]] = [buf |-> saved.virt, dir |-> call[t].dir]
    BY <1>0, <1>9, <2>3, EngineFacts, Functions DEF MapBuf
  <2>5. QED
    BY <2>1, <2>2, <2>3, <2>4 DEF CallOk
<1>10. CASE XStart(t)
  <2>1. /\ pc[t] = "ready" /\ xpc[t] = "none" /\ pc'[t] \in {"kick", "started"}
        /\ UNCHANGED <<reqTicket, xVars>> /\ Submissions' = Submissions \union {treq[t]}
    BY <1>0, <1>10, StartFacts
  <2>2. UNCHANGED <<saved, call, bufData, xpc>>
    BY <2>1 DEF xVars
  <2>3. CallOk(t)
    BY <1>6, <2>1, <2>2
  <2>4. call[t].ticket \in Submitted'
    BY <1>0, <2>1 DEF Submitted, Submissions, CallsInv, CallHasTicket
  <2>5. QED
    BY <2>1, <2>2, <2>3, <2>4 DEF CallOk
<1>11. CASE XKick(t)
  <2>1. /\ UNCHANGED <<xpc, call, saved, bufData, disturbed>> /\ Submitted' = Submitted
        /\ pc[t] = "kick" /\ pc'[t] = "started"
    BY <1>0, <1>11, EngineStepFacts DEF XKick, KickOff, TypeOK
  <2>2. xpc[t] = "none"
    BY <1>0, <2>1 DEF CallsInv, CallHasTicket
  <2>3. CallOk(t)
    BY <1>6, <2>1, <2>2
  <2>4. QED
    BY <2>1, <2>2, <2>3 DEF CallOk
<1> QED
  BY <1>0, <1>1, <1>2, <1>3, <1>4, <1>5, <1>7, <1>8, <1>9, <1>10, <1>11 DEF XThread

\* A step of somebody else.
LEMMA CallOkFrame ==
  ASSUME CallHasBuf, NEW t \in Threads, call[t].usr, call[t].ticket \notin disturbed,
         saved' = saved, call'[t] = call[t], xpc'[t] = xpc[t], pc'[t] = pc[t], treq'[t] = treq[t],
         pc[t] = "ready" => reqBuf'[treq[t]] = reqBuf[treq[t]],
         bufData'[saved.virt] \in {bufData[saved.virt], call[t].ticket},
         call[t].ticket \in Submitted /\ call[t].ticket \notin Submitted' /\ xpc[t] = "none"
         /\ pc[t] \in {"kick", "started"} => bufData'[saved.virt] = call[t].ticket
  PROVE  CallOk(t)'
<1>1. CallOk(t)
  BY DEF CallHasBuf
<1> QED BY <1>1 DEF CallOk

\* No other thread has a step that uses the bounce buffer.
LEMMA CallOkOther ==
  ASSUME DmaInv, DmaInv', XferInv, Alone, CallHasBuf,
         NEW t \in Threads, NEW u \in Threads, u # t, XThread(u),
         call'[t].usr, call'[t].ticket \notin disturbed', disturbed \subseteq disturbed'
  PROVE  CallOk(t)'
<1> USE DEF bufVars, histVars
<1>0. XferType /\ CallsInv /\ TypeOK
  BY DEF XferInv, DmaInv
<1>1. call'[t] = call[t]
  <2>1. ASSUME NEW usr, NEW dir, NEW size, Begin(u, usr, dir, size)
        PROVE  call'[t] = call[t]
    BY <1>0, <2>1, Functions DEF Begin
  <2>2. CASE \/ CheckSize(u) \/ GrowFree(u) \/ GrowResize(u) \/ GrowAlloc(u) \/ GrowAssign(u)
             \/ GrowFails(u) \/ Point(u) \/ CopyIn(u) \/ MapBuf(u) \/ UseFails(u)
    BY <1>0, <2>2, Functions DEF CheckSize, GrowFree, GrowResize, GrowAlloc, GrowAssign,
        GrowFails,
        PrepareFails, Point, CopyIn, MapBuf, UseFails
  <2>3. CASE XStart(u) \/ XKick(u) \/ PlainReturn(u) \/ Finish(u) \/ Timeout(u)
    BY <1>0, <2>3, Functions DEF XStart, xVars, XKick, PlainReturn, Finish, Timeout
  <2>4. QED
    BY <2>1, <2>2, <2>3 DEF XThread
<1>2. /\ call[t].usr /\ call[t].ticket \notin disturbed
      /\ ~call[u].usr /\ xpc[u] = "none"
  BY <1>0, <1>1 DEF Alone, CallsInv, CallHasTicket
<1>3. ASSUME NEW usr, NEW dir, NEW size, Begin(u, usr, dir, size)
      PROVE  CallOk(t)'
  <2>1. /\ xpc'[t] = xpc[t] /\ pc'[t] = pc[t] /\ treq'[t] = treq[t]
        /\ UNCHANGED <<saved, bufData>> /\ Submitted' = Submitted
    BY <1>0, <1>3, BeginFacts
  <2>2. \A s \in live : reqBuf'[s] = reqBuf[s]
    BY <1>0, <1>3, BeginReq DEF TypeOK
  <2>3. pc[t] = "ready" => treq[t] \in live
    BY EngineFacts
  <2>4. QED
    BY <1>1, <1>2, <2>1, <2>2, <2>3, CallOkFrame
<1>4. CASE XStart(u)
  <2>1. /\ pc'[t] = pc[t] /\ treq'[t] = treq[t] /\ UNCHANGED <<reqTicket, xVars>>
        /\ Submissions' = Submissions \union {treq[u]}
    BY <1>0, <1>4, StartFacts
  <2>2. UNCHANGED <<saved, xpc, reqBuf, bufData>>
    BY <2>1 DEF xVars
  <2>3. Submitted \subseteq Submitted'
    BY <2>1 DEF Submitted, Submissions
  <2>4. QED
    BY <1>1, <1>2, <2>1, <2>2, <2>3, CallOkFrame
<1>5. CASE XKick(u)
  <2>1. UNCHANGED <<saved, xpc, reqBuf, bufData>> /\ Submitted' = Submitted
    BY <1>0, <1>5, EngineStepFacts DEF XKick
  <2>2. pc'[t] = pc[t] /\ treq'[t] = treq[t]
    BY <1>0, <1>5, Functions DEF XKick, KickOff
  <2>3. QED
    BY <1>1, <1>2, <2>1, <2>2, CallOkFrame
<1>6. CASE PlainReturn(u)
  <2>1. /\ Return(u) /\ UNCHANGED <<xpc, saved, reqBuf, bufData>>
        /\ call' = [call EXCEPT ![u] = NoCall]
    BY <1>6 DEF PlainReturn
  <2>2. pc'[t] = pc[t] /\ treq'[t] = treq[t] /\ Submitted' = Submitted
    BY <1>0, <2>1, ReturnFacts
  <2>3. QED
    BY <1>1, <1>2, <2>1, <2>2, CallOkFrame
<1>7. ~(\/ CheckSize(u) \/ GrowFree(u) \/ GrowResize(u) \/ GrowAlloc(u) \/ GrowAssign(u)
        \/ GrowFails(u) \/ Point(u) \/ CopyIn(u) \/ MapBuf(u) \/ UseFails(u)
        \/ Finish(u) \/ Timeout(u))
  BY <1>2 DEF CheckSize, GrowFree, GrowResize, GrowAlloc, GrowAssign, GrowFails, Point, CopyIn,
      MapBuf, UseFails, Prepare, Finish, Timeout
<1> QED BY <1>3, <1>4, <1>5, <1>6, <1>7 DEF XThread

\* What a channel that runs a user transfer was given.
LEMMA ChannelBuf ==
  ASSUME DmaInv, XferInv, NEW c \in Ch, hw[c] = "running", hwBuf[c].buf # NULL
  PROVE  /\ inProgress[c] \in Submissions /\ hwBuf[c] = reqBuf[inProgress[c]]
         /\ pwork[inProgress[c]] # NULL /\ hwTicket[c] = reqTicket[inProgress[c]]
         /\ hwBuf[c].buf \in Bufs
<1>1. c \notin BusyAtProbe /\ hwBuf[c] = reqBuf[inProgress[c]]
  BY DEF XferInv, HwHasBuf, NoBuf
<1>2. inProgress[c] \in Submissions /\ inProgress[c] \in Reqs
  BY <1>1, RunningFacts
<1>3. pwork[inProgress[c]] # NULL
  BY <1>1, <1>2 DEF XferInv, CallsInv, CompletesItsCall, Pending
<1>4. hwTicket[c] = reqTicket[inProgress[c]]
  BY <1>1 DEF DmaInv, RunsWhatIsInProgress
<1>5. hwBuf[c].buf \in Bufs
  BY DEF XferInv, XferType, Bounce
<1> QED BY <1>1, <1>2, <1>3, <1>4, <1>5

\* A channel only ever writes the data of an undisturbed call into its buffer.
LEMMA CallOkChannel ==
  ASSUME DmaInv, DmaInv', XferInv, Alone, CallHasBuf, XferHasBuf,
         NEW t \in Threads, NEW c \in Ch, XChannel(c),
         call'[t].usr, call'[t].ticket \notin disturbed'
  PROVE  CallOk(t)'
<1> USE DEF bufVars, histVars
<1>0. XferType /\ CallsInv /\ TypeOK
  BY DEF XferInv, DmaInv
<1>1. UNCHANGED <<call, disturbed, saved, xpc, pc, treq>>
  BY DEF XChannel, XHwComplete, HwComplete, XTakeDone, TakeDone, XKickNext, KickNext, XOther,
      xVars,
      Spurious, RefillNext, RefillNone, CreateEvent, thrVars
<1>2. call[t].usr /\ call[t].ticket \notin disturbed
  BY <1>1
<1>3. CASE XHwComplete(c)
  <2>1. UNCHANGED reqBuf /\ Submitted' = Submitted
    BY <1>0, <1>3, EngineStepFacts
  <2>2. CASE bufData' = bufData
    BY <1>1, <1>2, <2>1, <2>2, CallOkFrame
  <2>3. CASE bufData' # bufData
    <3>1. /\ hwBuf[c].buf # NULL /\ hw[c] = "running"
          /\ bufData' = [bufData EXCEPT ![hwBuf[c].buf] = hwTicket[c]]
      BY <1>3, <2>3 DEF XHwComplete, HwComplete
    <3>2. hwTicket[c] = call[t].ticket
      BY <1>2, <3>1, ChannelBuf DEF Alone
    <3>3. bufData'[saved.virt] \in {bufData[saved.virt], call[t].ticket}
      BY <1>0, <3>1, <3>2, ChannelBuf, Functions
    <3>4. QED
      BY <1>1, <1>2, <2>1, <3>3, CallOkFrame
  <2>4. QED
    BY <2>2, <2>3
<1>4. CASE XTakeDone(c)
  <2>1. PICK q \in Reqs :
          /\ q = inProgress[c] /\ q \in Submissions /\ hw[c] = "msi"
          /\ UNCHANGED <<bufData, reqTicket>> /\ Submissions' = Submissions \ {q}
          /\ \A s \in Reqs \ {q} : reqBuf'[s] = reqBuf[s]
    BY <1>0, <1>4, DoneFacts
  <2>2. pc[t] = "ready" => treq[t] \in Reqs \ {q}
    BY <2>1, EngineFacts
  <2>3. ASSUME call[t].ticket \in Submitted, call[t].ticket \notin Submitted', xpc[t] = "none"
        PROVE  bufData[saved.virt] = call[t].ticket
    <3>1. call[t].ticket = reqTicket[q]
      BY <2>1, <2>3 DEF Submitted, Submissions
    <3>2. pwork[q] = t
      BY <1>0, <1>2, <2>1, <2>3, <3>1 DEF CallsInv, CallIsCompleted, Awaits, Pointed, Pending
    <3>3. XferOk(q)
      BY <1>2, <2>1, <3>1, <3>2, XferAssumption DEF XferHasBuf
    <3>4. QED
      BY <2>1, <3>1, <3>3 DEF XferOk
  <2>4. QED
    BY <1>1, <1>2, <2>1, <2>2, <2>3, CallOkFrame
<1>5. CASE XKickNext(c) \/ XOther(c)
  <2>1. UNCHANGED reqBuf /\ Submitted' = Submitted
    BY <1>0, <1>5, EngineStepFacts
  <2>2. bufData' = bufData
    BY <1>5 DEF XKickNext, XOther, xVars
  <2>3. QED
    BY <1>1, <1>2, <2>1, <2>2, CallOkFrame
<1> QED BY <1>3, <1>4, <1>5 DEF XChannel

LEMMA CallHasBufNext ==
  ASSUME DmaInv, DmaInv', XferInv, XferInv', ~raced', SavedBuf, Alone, CallHasBuf, XferHasBuf,
         [XNext]_allVars
  PROVE  CallHasBuf'
<1> SUFFICES ASSUME NEW t \in Threads, call'[t].usr, call'[t].ticket \notin disturbed'
             PROVE  CallOk(t)'
  BY DEF CallHasBuf
<1>1. disturbed \subseteq disturbed'
  BY NotRacedBefore
<1>2. ASSUME NEW u \in Threads, XThread(u)
      PROVE  CallOk(t)'
  BY <1>1, <1>2, CallOkSelf, CallOkOther
<1>3. ASSUME NEW c \in Ch, XChannel(c)
      PROVE  CallOk(t)'
  BY <1>3, CallOkChannel
<1>4. CASE UNCHANGED allVars
  <2>1. /\ UNCHANGED <<call, disturbed, saved, xpc, pc, treq, reqBuf, bufData>>
        /\ Submitted' = Submitted
    BY <1>4, EngineStepFacts DEF allVars, vars, xVars, XferInv
  <2>2. QED
    BY <2>1, CallOkFrame
<1> QED BY <1>2, <1>3, <1>4 DEF XNext

\* While an undisturbed transfer is submitted, no call is in prepare_dma_buffer.
LEMMA NobodyPrepares ==
  ASSUME DmaInv, XferInv, SavedBuf, Alone, NEW r \in Submissions, pwork[r] # NULL,
         reqTicket[r] \notin disturbed
  PROVE  /\ \A u \in Threads : xpc[u] = "none"
         /\ saved.size > 0 => OneBuffer
<1>1. ASSUME NEW u \in Threads, xpc[u] # "none" PROVE FALSE
  <2>1. call[u].usr /\ pc[u] = "ready" /\ reqTicket[treq[u]] = call[u].ticket
    BY <1>1 DEF XferInv, CallsInv, CallHasTicket
  <2>2. call[u].ticket = reqTicket[r]
    BY <2>1 DEF Alone
  <2>3. treq[u] \in Pending \ Submissions /\ r \in Pending
    BY <2>1, EngineFacts DEF Pending
  <2>4. QED
    BY <2>1, <2>2, <2>3, EngineFacts
<1>2. \A u \in Threads : xpc[u] \notin Growing
  BY <1>1 DEF Growing
<1> QED BY <1>1, <1>2 DEF SavedBuf

\* A step that leaves the transfer where it is.
LEMMA XferOkFrame ==
  ASSUME XferHasBuf, NEW r \in Submissions, pwork[r] # NULL, reqTicket[r] \notin disturbed,
         saved' = saved, reqBuf'[r] = reqBuf[r], reqTicket'[r] = reqTicket[r],
         bufData'[saved.virt] \in {bufData[saved.virt], reqTicket[r]},
         \A c \in Ch : inProgress'[c] = r /\ hw'[c] = "msi" =>
           (inProgress[c] = r /\ hw[c] = "msi") \/ bufData'[saved.virt] = reqTicket[r]
  PROVE  XferOk(r)'
<1>1. XferOk(r)
  BY DEF XferHasBuf
<1> QED BY <1>1 DEF XferOk

LEMMA XferHasBufNext ==
  ASSUME DmaInv, DmaInv', XferInv, XferInv', ~raced', SavedBuf, Alone, CallHasBuf, XferHasBuf,
         [XNext]_allVars
  PROVE  XferHasBuf'
<1> USE XferAssumption DEF bufVars, histVars
<1>0. XferType /\ CallsInv /\ TypeOK /\ disturbed \subseteq disturbed' /\ ~raced
  BY NotRacedBefore DEF XferInv, DmaInv
<1> SUFFICES ASSUME NEW r \in Submissions', pwork'[r] # NULL, reqTicket'[r] \notin disturbed'
             PROVE  XferOk(r)'
  BY DEF XferHasBuf
<1>1. r \in Submissions /\ pwork[r] # NULL /\ reqTicket[r] \notin disturbed =>
        \A u \in Threads : xpc[u] = "none"
  BY NobodyPrepares
<1>2. ASSUME NEW t \in Threads, NEW usr \in BOOLEAN, NEW dir \in {"down", "up"},
             NEW size \in 1..MaxSize \union {1}, Begin(t, usr, dir, size)
      PROVE  XferOk(r)'
  <2>1. /\ Submissions' = Submissions /\ Submissions \subseteq live
        /\ UNCHANGED <<saved, bufData, inProgress, hw>>
    BY <1>0, <1>2, BeginFacts
  <2>2. r \in Reqs /\ pwork'[r] = pwork[r] /\ reqTicket'[r] = reqTicket[r] /\ reqBuf'[r] = reqBuf[r]
    BY <1>0, <1>2, <2>1, BeginReq DEF TypeOK
  <2>3. reqTicket[r] \notin disturbed
    BY <1>0, <2>2
  <2>4. QED
    BY <2>1, <2>2, <2>3, XferOkFrame
<1>3. ASSUME NEW t \in Threads,
             \/ CheckSize(t) \/ GrowFree(t) \/ GrowResize(t) \/ GrowAlloc(t) \/ GrowAssign(t)
             \/ Point(t) \/ CopyIn(t) \/ MapBuf(t)
      PROVE  FALSE
  <2>1. \E from, to : from # "none" /\ Prepare(t, from, to)
    BY <1>3 DEF CheckSize, GrowFree, GrowResize, GrowAlloc, GrowAssign, Point, CopyIn, MapBuf
  <2>2. Submissions' = Submissions /\ UNCHANGED <<reqTicket>> /\ xpc[t] # "none"
    BY <1>0, <2>1, PrepareFacts
  <2>3. pwork'[r] = pwork[r]
    <3>1. treq[t] \in Reqs \ {r} /\ r \in Reqs
      BY <1>0, <2>2, EngineFacts DEF CallsInv, CallHasTicket, Pending
    <3>2. QED
      BY <1>0, <1>3, <2>2, <3>1, Functions DEF CheckSize, GrowFree, GrowResize, GrowAlloc,
          GrowAssign,
          Point, CopyIn, MapBuf
  <2>4. QED
    BY <1>0, <1>1, <2>2, <2>3
<1>4. ASSUME NEW t \in Threads, GrowFails(t) \/ UseFails(t)
      PROVE  FALSE
  <2>1. xpc[t] # "none"
    BY <1>4 DEF GrowFails, UseFails
  <2>2. Submissions' = Submissions /\ UNCHANGED <<reqTicket, pwork>>
    BY <1>0, <1>4, FailFacts DEF GrowFails, UseFails
  <2>3. QED
    BY <1>0, <1>1, <2>1, <2>2
<1>5. ASSUME NEW t \in Threads, PlainReturn(t) \/ Finish(t) \/ Timeout(t)
      PROVE  XferOk(r)'
  <2>1. /\ Return(t) /\ UNCHANGED <<xpc, saved, reqBuf, bufData, pwork>>
        /\ call' = [call EXCEPT ![t] = NoCall]
    BY <1>5 DEF PlainReturn, Finish, Timeout
  <2>2. Submissions' = Submissions /\ UNCHANGED <<reqTicket, inProgress, hw>>
    BY <1>0, <2>1, ReturnFacts
  <2>3. QED
    BY <1>0, <2>1, <2>2, XferOkFrame
<1>6. ASSUME NEW t \in Threads, XStart(t)
      PROVE  XferOk(r)'
  <2>1. /\ pc[t] = "ready" /\ xpc[t] = "none" /\ UNCHANGED <<reqTicket, hw, xVars>>
        /\ Submissions' = Submissions \union {treq[t]}
        /\ \A c \in Ch : inProgress'[c] # inProgress[c] =>
             inProgress'[c] = treq[t] /\ inProgress[c] = NULL /\ c \notin BusyAtProbe
    BY <1>0, <1>6, StartFacts
  <2>2. UNCHANGED <<saved, bufData, reqBuf, pwork, call, disturbed>>
    BY <2>1 DEF xVars
  <2>3. \A c \in Ch : inProgress'[c] # inProgress[c] => hw[c] = "stopped"
    BY <2>1, RunningFacts
  <2>4. treq[t] \in Pending \ Submissions /\ reqTicket[treq[t]] = call[t].ticket
        /\ reqTicket[treq[t]] \notin left
    BY <1>0, <2>1, EngineFacts DEF CallsInv, CallHasTicket
  <2>5. CASE r \in Submissions
    BY <2>1, <2>2, <2>3, <2>5, XferOkFrame
  <2>6. CASE r = treq[t]
    <3>1. PICK u \in Threads : u = pwork[r]
      BY <1>0, <2>2, <2>4, <2>6, PworkType
    <3>2. call[u].usr /\ call[u].ticket = reqTicket[r]
      BY <1>0, <2>4, <2>6, <3>1 DEF CallsInv, CompletesItsCall, Awaits
    <3>3. u = t
      BY <1>0, <2>1, <2>4, <2>6, <3>2 DEF CallsInv, CallHasTicket
    <3>4. CallOk(t)
      BY <2>1, <2>2, <2>6, <3>2, <3>3 DEF CallHasBuf
    <3>5. /\ saved.size > 0 /\ reqBuf[r] = [buf |-> saved.virt, dir |-> call[t].dir]
          /\ call[t].dir = "down" => bufData[saved.virt] = call[t].ticket
      BY <1>0, <2>1, <2>6, <3>4, CallFields DEF CallOk, Pointed
    <3>6. \A c \in Ch : inProgress[c] # r
      BY <2>4, <2>6, EngineFacts, DmaAssumption
    <3>7. \A c \in Ch : ~(inProgress'[c] = r /\ hw'[c] = "msi")
      BY <2>1, <2>3, <3>6
    <3>8. QED
      BY <2>1, <2>2, <2>4, <2>6, <3>5, <3>7 DEF XferOk
  <2>7. QED
    BY <2>1, <2>5, <2>6
<1>7. ASSUME NEW c \in Ch, XHwComplete(c)
      PROVE  XferOk(r)'
  <2>1. /\ Submissions' = Submissions /\ UNCHANGED <<reqTicket, saved, reqBuf, pwork, disturbed, inProgress>>
        /\ hw[c] = "running" /\ \A d \in Ch \ {c} : hw'[d] = hw[d]
    BY <1>0, <1>7, EngineStepFacts DEF XHwComplete, HwComplete, ctlVars, TypeOK
  <2>2. XferOk(r) /\ OneBuffer
    BY <2>1, NobodyPrepares DEF XferHasBuf, XferOk
  <2>3. bufData' # bufData => /\ hwBuf[c].buf # NULL /\ hwBuf[c].dir = "up"
                              /\ bufData' = [bufData EXCEPT ![hwBuf[c].buf] = hwTicket[c]]
    BY <1>7 DEF XHwComplete
  <2>4. bufData' # bufData => inProgress[c] = r /\ hwTicket[c] = reqTicket[r]
    BY <2>1, <2>3, ChannelBuf DEF Alone
  <2>5. bufData'[saved.virt] \in {bufData[saved.virt], reqTicket[r]}
    BY <1>0, <2>2, <2>3, <2>4, Functions DEF OneBuffer
  <2>6. ASSUME inProgress[c] = r PROVE bufData'[saved.virt] = reqTicket[r]
    <3>1. r # NULL
      BY <2>1, EngineFacts, DmaAssumption DEF Pending
    <3>2. c \notin BusyAtProbe
      BY <2>6, <3>1 DEF DmaInv, ChannelsConserved
    <3>3. hwBuf[c] = reqBuf[r] /\ hwTicket[c] = reqTicket[r]
      BY <2>1, <2>6, <3>2 DEF XferInv, HwHasBuf, DmaInv, RunsWhatIsInProgress
    <3>4. hwBuf[c].buf = saved.virt /\ saved.virt \in Bufs /\ hwBuf[c].dir \in {"down", "up"}
      BY <1>0, <2>2, <3>3 DEF XferOk, OneBuffer, XferType, Bounce
    <3>5. CASE hwBuf[c].dir = "down"
      BY <2>2, <2>3, <3>3, <3>5 DEF XferOk
    <3>6. CASE hwBuf[c].dir = "up"
      <4>1. bufData' = [bufData EXCEPT ![hwBuf[c].buf] = hwTicket[c]]
        BY <1>7, <3>4, <3>6 DEF XHwComplete
      <4>2. QED
        BY <1>0, <3>3, <3>4, <4>1, Functions
    <3>7. QED
      BY <3>4, <3>5, <3>6
  <2>7. QED
    BY <2>1, <2>5, <2>6, XferOkFrame
<1>8. ASSUME NEW c \in Ch, XTakeDone(c)
      PROVE  XferOk(r)'
  <2>1. /\ UNCHANGED <<reqTicket, pwork, disturbed, saved, bufData>> /\ Submissions' = Submissions \ {inProgress[c]}
        /\ \A s \in Reqs \ {inProgress[c]} : reqBuf'[s] = reqBuf[s]
        /\ inProgress'[c] = NULL /\ \A d \in Ch \ {c} : inProgress'[d] = inProgress[d] /\ hw'[d] = hw[d]
    BY <1>0, <1>8, DoneFacts
  <2>2. r \in Submissions /\ r \in Reqs /\ r # NULL
    BY <2>1, EngineFacts, DmaAssumption DEF Pending
  <2>3. QED
    BY <2>1, <2>2, XferOkFrame
<1>9. CASE \/ \E t \in Threads : XKick(t)
           \/ \E c \in Ch : XKickNext(c) \/ XOther(c)
           \/ UNCHANGED allVars
  <2>1. /\ Submissions' = Submissions /\ UNCHANGED <<reqTicket, saved, reqBuf, pwork, disturbed>>
        /\ bufData' = bufData
    BY <1>0, <1>9, EngineStepFacts DEF XKick, XKickNext, XOther, xVars, allVars
  <2>2. \A d \in Ch : hw'[d] = "msi" => hw[d] = "msi"
    BY <1>0, <1>9 DEF XKick, KickOff, ChanStart, XKickNext, KickNext, XOther, Spurious,
        RefillNext,
        RefillNone, CreateEvent, hwVars, allVars, vars, TypeOK
  <2>3. \A d \in Ch : inProgress'[d] # inProgress[d] =>
          inProgress[d] = NULL /\ d \notin BusyAtProbe
    <3>1. ASSUME NEW c \in Ch, RefillNext(c)
          PROVE  \A d \in Ch : inProgress'[d] # inProgress[d] =>
                   inProgress[d] = NULL /\ d \notin BusyAtProbe
      BY <1>0, <3>1 DEF RefillNext, DmaInv, ChannelsConserved, TypeOK
    <3>2. QED
      BY <1>9, <3>1 DEF XKick, KickOff, XKickNext, KickNext, XOther, Spurious,
          RefillNone, CreateEvent, ctlVars, allVars, vars
  <2>4. \A d \in Ch : inProgress'[d] # inProgress[d] => hw'[d] # "msi"
    BY <2>2, <2>3, RunningFacts
  <2>5. QED
    BY <2>1, <2>2, <2>4, XferOkFrame
<1> QED
  BY <1>2, <1>3, <1>4, <1>5, <1>6, <1>7, <1>8, <1>9 DEF XNext, XThread, XChannel

LEMMA MovedNext ==
  ASSUME DmaInv, DmaInv', XferInv, XferInv', ~raced', SavedBuf, Alone, CallHasBuf, XferHasBuf,
         MovedRight, [XNext]_allVars
  PROVE  MovedRight'
<1> USE XferAssumption DEF histVars
<1>0. XferType /\ CallsInv /\ TypeOK /\ disturbed \subseteq disturbed'
  BY NotRacedBefore DEF XferInv, DmaInv
<1>1. CASE moved' = moved
  BY <1>0, <1>1 DEF MovedRight
<1>2. ASSUME NEW c \in Ch, XHwComplete(c), moved' # moved
      PROVE  MovedRight'
  <2>1. /\ hw[c] = "running" /\ hwBuf[c].buf # NULL /\ hwBuf[c].dir = "down"
        /\ moved' = [moved EXCEPT ![hwTicket[c]] = bufData[hwBuf[c].buf]]
    BY <1>2 DEF XHwComplete, HwComplete
  <2>2. ASSUME hwTicket[c] \notin disturbed PROVE bufData[hwBuf[c].buf] = hwTicket[c]
    BY <2>1, <2>2, ChannelBuf DEF XferHasBuf, XferOk
  <2>3. \A k \in Tickets : moved'[k] = IF k = hwTicket[c] THEN bufData[hwBuf[c].buf] ELSE moved[k]
    BY <1>0, <2>1 DEF XferType
  <2>4. QED
    BY <1>0, <2>2, <2>3 DEF MovedRight
<1>3. ASSUME NEW t \in Threads, Finish(t), moved' # moved
      PROVE  MovedRight'
  <2>1. /\ call[t].usr /\ work[t] /\ pc[t] = "started"
        /\ moved' = [moved EXCEPT ![call[t].ticket] = bufData[call[t].buf]]
    BY <1>3 DEF Finish, WaitOver, Return
  <2>2. ASSUME call[t].ticket \notin disturbed PROVE bufData[call[t].buf] = call[t].ticket
    <3>1. t \notin late
      BY <2>2 DEF Alone
    <3>2. xpc[t] = "none" /\ CallOk(t)
      BY <1>0, <2>1, <2>2 DEF CallHasBuf, CallsInv, CallHasTicket
    <3>3. call[t].ticket \notin Submitted
      BY <2>1, <3>1, EndedIsDone
    <3>4. QED
      BY <2>1, <3>2, <3>3 DEF CallOk, Pointed
  <2>3. \A k \in Tickets : moved'[k] = IF k = call[t].ticket THEN bufData[call[t].buf] ELSE moved[k]
    BY <1>0, <2>1 DEF XferType
  <2>4. QED
    BY <1>0, <2>2, <2>3 DEF MovedRight
<1>4. ASSUME NEW t \in Threads, XThread(t), ~Finish(t)
      PROVE  moved' = moved
  BY <1>4 DEF XThread, Begin, CheckSize, GrowFree, GrowResize, GrowAlloc, GrowAssign, GrowFails,
      PrepareFails, Point, CopyIn, MapBuf, UseFails, Prepare, XStart, XKick, PlainReturn, Timeout, xVars
<1>5. ASSUME NEW c \in Ch, XChannel(c), ~XHwComplete(c)
      PROVE  moved' = moved
  BY <1>5 DEF XChannel, XTakeDone, XKickNext, XOther, xVars
<1>6. UNCHANGED allVars => moved' = moved
  BY DEF allVars, xVars
<1> QED BY <1>1, <1>2, <1>3, <1>4, <1>5, <1>6 DEF XNext

LEMMA QuietInit == ASSUME XInit PROVE QuietInv
<1> USE XferAssumption DEF XInit, Init
<1>1. SavedBuf
  <2>1. saved.size = 0 /\ NoBuffer
    BY DEF NoBuffer
  <2>2. QED
    BY <2>1 DEF SavedBuf, Growing
<1>2. Submissions = {}
  BY DEF Submissions, Queued, Elems, OnChannel
<1>3. \A t \in Threads : ~call[t].usr
  BY DEF NoCall
<1>4. Alone /\ CallHasBuf /\ XferHasBuf
  BY <1>2, <1>3 DEF Alone, CallHasBuf, XferHasBuf
<1>5. MovedRight
  BY DEF MovedRight
<1> QED BY <1>1, <1>4, <1>5 DEF QuietInv

LEMMA QuietInvariant == XSpec => []QuietInv
<1>1. ASSUME DmaInv, DmaInv', XferInv, XferInv', QuietInv, [XNext]_allVars
      PROVE  QuietInv'
  <2> SUFFICES ASSUME ~raced'
               PROVE  (SavedBuf /\ Alone /\ CallHasBuf /\ XferHasBuf /\ MovedRight)'
    BY DEF QuietInv
  <2>1. SavedBuf /\ Alone /\ CallHasBuf /\ XferHasBuf /\ MovedRight /\ XferType'
    BY <1>1, NotRacedBefore DEF QuietInv, XferInv
  <2>2. SavedBuf' /\ Alone'
    BY <1>1, <2>1, SavedBufNext, AloneNext
  <2>3. CallHasBuf' /\ XferHasBuf' /\ MovedRight'
    BY <1>1, <2>1, CallHasBufNext, XferHasBufNext, MovedNext
  <2>4. QED
    BY <2>2, <2>3
<1> QED BY <1>1, QuietInit, XferKeepsDmaInv, XferInvariant, PTL DEF XSpec

\* prepare_dma_buffer keeps its static saved_dma_buf and the memory it allocated in step,
\* as long as no two calls replace the buffer at once: the address is NULL and the size 0, or
\* they are those of the one buffer that is allocated.
THEOREM SavedBufIsRight == XSpec => []SavedBufIsTheBuffer
<1>1. ASSUME XferInv, QuietInv PROVE SavedBufIsTheBuffer
  <2> SUFFICES ASSUME ~raced, \A t \in Threads : xpc[t] \notin Growing
               PROVE  \/ saved.size = 0 /\ saved.virt = NULL /\ Allocated = {}
                      \/ /\ saved.size > 0 /\ Allocated = {saved.virt}
                         /\ bufSize[saved.virt] = saved.size
    BY DEF SavedBufIsTheBuffer
  <2>1. OneBuffer \/ (saved.size = 0 /\ NoBuffer)
    BY <1>1 DEF QuietInv, SavedBuf
  <2>2. QED
    BY <2>1 DEF OneBuffer, NoBuffer, Allocated
<1> QED BY <1>1, XferInvariant, QuietInvariant, PTL

\* What the DMA_USER ioctls promise, as far as the code keeps it: a transfer that no other
\* one overlapped moves the caller's own data, through a buffer that is large enough and
\* not freed while the FPGA uses it.
THEOREM UndisturbedIsSafe == XSpec => []UndisturbedMovesItsData
<1>1. ASSUME DmaInv, XferInv, QuietInv PROVE UndisturbedMovesItsData
  <2> USE XferAssumption
  <2> SUFFICES ASSUME ~raced, NEW k \in Tickets \ disturbed
               PROVE  /\ moved[k] \in {0, k}
                      /\ \A t \in Threads :
                           call[t].usr /\ call[t].ticket = k /\ xpc[t] \in {"copy", "map", "none"}
                           => call[t].buf \in Bufs /\ bufSize[call[t].buf] >= call[t].size
                      /\ \A c \in Ch : hw[c] = "running" /\ hwTicket[c] = k
                                       => hwBuf[c].buf \in Allocated \union {NULL}
    BY DEF UndisturbedMovesItsData
  <2>1. SavedBuf /\ Alone /\ CallHasBuf /\ XferHasBuf /\ MovedRight
    BY <1>1 DEF QuietInv
  <2>2. moved[k] \in {0, k}
    BY <2>1 DEF MovedRight
  <2>3. ASSUME NEW t \in Threads, call[t].usr, call[t].ticket = k,
               xpc[t] \in {"copy", "map", "none"}
        PROVE  call[t].buf \in Bufs /\ bufSize[call[t].buf] >= call[t].size
    <3>1. call[t].buf = saved.virt /\ saved.size >= call[t].size /\ call[t].size > 0
      BY <2>1, <2>3 DEF CallHasBuf, CallOk, Pointed
    <3>2. \A u \in Threads : xpc[u] # "none" => u = t
      BY <1>1, <2>1, <2>3 DEF Alone, XferInv, CallsInv, CallHasTicket
    <3>3. \A u \in Threads : xpc[u] \notin Growing
      BY <2>3, <3>2 DEF Growing
    <3>4. saved.size # 0
      BY <1>1, <3>1, CallFields DEF XferInv
    <3>5. OneBuffer
      BY <2>1, <3>3, <3>4 DEF SavedBuf
    <3>6. QED
      BY <3>1, <3>5 DEF OneBuffer
  <2>4. ASSUME NEW c \in Ch, hw[c] = "running", hwTicket[c] = k, hwBuf[c].buf # NULL
        PROVE  hwBuf[c].buf \in Allocated
    <3>1. PICK r \in Submissions : /\ r = inProgress[c] /\ hwBuf[c] = reqBuf[r]
                                   /\ pwork[r] # NULL /\ reqTicket[r] = k
      BY <1>1, <2>4, ChannelBuf
    <3>2. reqBuf[r].buf = saved.virt /\ saved.size > 0
      BY <2>1, <3>1 DEF XferHasBuf, XferOk
    <3>3. OneBuffer
      BY <1>1, <2>1, <3>1, <3>2, NobodyPrepares
    <3>4. QED
      BY <3>1, <3>2, <3>3 DEF OneBuffer, Allocated
  <2>5. QED
    BY <2>2, <2>3, <2>4
<1> QED BY <1>1, XferKeepsDmaInv, XferInvariant, QuietInvariant, PTL
===============================================================================
