------------------------------ MODULE DmaService ------------------------------
(***************************************************************************)
(* What the bifrost DMA engine promises its callers, without channels,     *)
(* locks, interrupts or request memory: transfers, named by their tickets, *)
(* start in the order in which they were submitted, at most Capacity of    *)
(* them run at a time, and each one finishes once.  BifrostDma implements  *)
(* this specification.                                                     *)
(***************************************************************************)
EXTENDS Naturals, Sequences, FiniteSets

CONSTANTS Tickets,   \* the names of the transfers
          Capacity   \* how many transfers can run at a time

VARIABLES pending,   \* submitted, not yet started: a FIFO queue of tickets
          running,   \* started, not yet finished
          finished   \* finished

svars == <<pending, running, finished>>

Pending == {pending[i] : i \in 1..Len(pending)}
Known   == Pending \union running \union finished

SInit == pending = <<>> /\ running = {} /\ finished = {}

\* A new transfer waits behind the ones already pending.
Submit(k) ==
    /\ k \notin Known
    /\ pending' = Append(pending, k)
    /\ UNCHANGED <<running, finished>>

\* A new transfer may start at once, but never past a pending one.
SubmitAndStart(k) ==
    /\ k \notin Known
    /\ pending = <<>>
    /\ Cardinality(running) < Capacity
    /\ running' = running \union {k}
    /\ UNCHANGED <<pending, finished>>

\* The oldest pending transfer starts.
StartNext ==
    /\ pending # <<>>
    /\ Cardinality(running) < Capacity
    /\ running' = running \union {Head(pending)}
    /\ pending' = Tail(pending)
    /\ UNCHANGED finished

Finish(k) ==
    /\ k \in running
    /\ running' = running \ {k}
    /\ finished' = finished \union {k}
    /\ UNCHANGED pending

SNext == \/ \E k \in Tickets : Submit(k) \/ SubmitAndStart(k) \/ Finish(k)
         \/ StartNext

\* Transfers are not required to be submitted, but a running one finishes and
\* the queue advances.
SSpec == /\ SInit /\ [][SNext]_svars
         /\ WF_svars(StartNext)
         /\ \A k \in Tickets : WF_svars(Finish(k))
===============================================================================
