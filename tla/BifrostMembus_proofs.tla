------------------------- MODULE BifrostMembus_proofs -------------------------
(***************************************************************************)
(* Proofs about register access (BifrostRegs) and the transfers over the   *)
(* memory bus on top of it (BifrostMembus), for any number of CPUs, any    *)
(* bits, offsets and transfers, and any number of interrupts and calls.    *)
(***************************************************************************)
EXTENDS BifrostMembus, TLAPS

(* The register banks *)

UserHolds == {"rd", "wr", "unlock"}
DmaHolds  == {"dmaSelect", "dmaStart", "dmaUnlock"}

\* Who is between a lock and its unlock holds the lock of the bank it works on.
HoldsItsLock ==
    \A x \in Ctxs : /\ pc[x] \in UserHolds => lock[op[x].bar] = x
                    /\ pc[x] \in DmaHolds => lock[DmaBar] = x

\* What do_modify_regb has read is still in the register when it writes, and only
\* calls that write get to the write.
ReadIsCurrent ==
    \A x \in Ctxs : pc[x] = "wr" =>
      /\ op[x].name \in {"write", "modify"}
      /\ op[x].name = "modify" => op[x].v = reg[op[x].bar]

BanksInv == TypeOK /\ HoldsItsLock /\ ReadIsCurrent /\ AtomicModify /\ StartsWhatItSelected

\* The comment of bifrost_cdev.c:530 is right where users cannot take the lock of the
\* bank with the DMA registers, or where there is no DMA engine.
DmaBankClosed == plat = "membus" \/ UserAccess(DmaBar) = {} \/ DmaBar \notin Enabled

InUserCall == {"lock"} \union UserHolds
InChanStart == {"dmaLock"} \union DmaHolds

\* A lock that is taken has a holder that is about to release it.
LockHasHolder ==
    \A b \in Bars, x \in Ctxs : lock[b] = x =>
      \/ pc[x] \in UserHolds /\ op[x].bar = b
      \/ pc[x] \in DmaHolds /\ DmaBar = b

\* A user call on a closed platform works on another bank than the DMA engine; on the
\* memory bus there is no engine.
UsersStayOut ==
    \A x \in Ctxs :
      /\ pc[x] \in InUserCall /\ DmaBankClosed /\ plat # "membus" => op[x].bar # DmaBar
      /\ pc[x] \in InChanStart => plat # "membus"

\* While a task is in bifrost_dma_chan_start no handler runs on its CPU, and a handler
\* makes no user calls.
MaskedInChanStart ==
    \A c \in Cpus : /\ pc[<<c, "task">>] \in InChanStart => irqsOff[c]
                    /\ pc[<<c, "irq">>] # "idle" => ~irqsOff[c]
                    /\ pc[<<c, "irq">>] \notin InUserCall

ClosedInv == LockHasHolder /\ UsersStayOut /\ MaskedInChanStart

OpRec == [name : {"none", "read", "write", "modify"}, bar : Bars, offset : 0..(Size - 1),
          clear : SUBSET Bits, set : SUBSET Bits, v : SUBSET Bits]

\* mem->rd changes only the value of a call.
LEMMA ValueRead ==
  ASSUME NEW o \in OpRec, NEW w \in SUBSET Bits
  PROVE  /\ [o EXCEPT !.v = w] \in OpRec
         /\ [o EXCEPT !.v = w].v = w
         /\ [o EXCEPT !.v = w].name = o.name /\ [o EXCEPT !.v = w].bar = o.bar
<1>1. [o EXCEPT !.v = w] = [name |-> o.name, bar |-> o.bar, offset |-> o.offset,
                            clear |-> o.clear, set |-> o.set, v |-> w]
  BY DEF OpRec
<1> QED BY <1>1 DEF OpRec

\* Every register the code touches is in its range: the type invariant of the banks is
\* inductive on its own.
LEMMA BanksTypeStep == TypeOK /\ [Next]_vars => TypeOK'
<1> SUFFICES ASSUME TypeOK, [Next]_vars PROVE TypeOK'
  OBVIOUS
<1> USE RegsAssumption DEF TypeOK, Ctxs, Goto
<1>1. ASSUME NEW c \in Cpus, NEW name \in {"read", "write", "modify"}, NEW bar \in 0..6,
             NEW o \in Offsets, NEW cl \in SUBSET Bits, NEW s \in SUBSET Bits,
             Call(c, name, bar, o, cl, s)
      PROVE  TypeOK'
  <2>1. bar \in Bars /\ o \in 0..(Size - 1)
    BY <1>1 DEF Call, CheckBarAccess
  <2> QED BY <1>1, <2>1 DEF Call
<1>2. ASSUME NEW c \in Cpus, UserCall(c) PROVE TypeOK'
  <2> HIDE DEF TypeOK
  <2>1. {} \in SUBSET Bits
    OBVIOUS
  <2> QED BY <1>1, <1>2, <2>1 DEF UserCall
<1>3. ASSUME NEW c \in Cpus, StartDma(c) PROVE TypeOK'
  BY <1>3 DEF StartDma
<1>4. ASSUME NEW c \in Cpus, Irq(c) PROVE TypeOK'
  BY <1>4 DEF Irq
<1>5. ASSUME NEW x \in Ctxs, SpinLock(x) PROVE TypeOK'
  BY <1>5 DEF SpinLock
<1>6. ASSUME NEW x \in Ctxs, DmaLock(x) PROVE TypeOK'
  BY <1>6 DEF DmaLock, DmaBar, Bars
<1>7. ASSUME NEW x \in Ctxs, Rd(x) PROVE TypeOK'
  <2>1. op[x].bar \in Bars /\ reg[op[x].bar] \in SUBSET Bits
    OBVIOUS
  <2>2. op' = [op EXCEPT ![x] = [op[x] EXCEPT !.v = reg[op[x].bar]]]
    BY <1>7 DEF Rd
  <2>3. [op[x] EXCEPT !.v = reg[op[x].bar]] \in OpRec
    <3>1. op[x] \in OpRec
      BY DEF OpRec
    <3> HIDE DEF TypeOK
    <3> QED BY <2>1, <3>1, ValueRead
  <2>4. op' \in [Ctxs -> OpRec]
    BY <2>2, <2>3 DEF OpRec
  <2> QED BY <1>7, <2>4 DEF Rd, OpRec
<1>8. ASSUME NEW x \in Ctxs, Wr(x) PROVE TypeOK'
  <2> DEFINE o == op[x]
             Update(v) == IF o.name = "write" THEN o.set ELSE (v \ o.clear) \union o.set
  <2>1. /\ o.set \in SUBSET Bits /\ o.v \in SUBSET Bits /\ o.bar \in Bars
        /\ want[o.bar] \in SUBSET Bits
    OBVIOUS
  <2>2. Update(o.v) \in SUBSET Bits /\ Update(want[o.bar]) \in SUBSET Bits
    BY <2>1
  <2>3. /\ reg' = [reg EXCEPT ![o.bar] = Update(o.v)]
        /\ want' = [want EXCEPT ![o.bar] = Update(want[o.bar])]
    BY <1>8, <2>1 DEF Wr
  <2> HIDE DEF o, Update
  <2>4. reg' \in [Bars -> SUBSET Bits] /\ want' \in [Bars -> SUBSET Bits]
    BY <2>1, <2>2, <2>3
  <2> QED BY <1>8, <2>4 DEF Wr
<1>9. ASSUME NEW x \in Ctxs, SpinUnlock(x) PROVE TypeOK'
  BY <1>9 DEF SpinUnlock, NoOp, Bars
<1>10. ASSUME NEW x \in Ctxs, DmaStep(x) PROVE TypeOK'
  BY <1>10 DEF DmaStep, DmaSelect, DmaStart, DmaUnlock, DmaBar, Bars
<1>11. CASE UNCHANGED vars
  BY <1>11 DEF vars
<1> QED BY <1>2, <1>3, <1>4, <1>5, <1>6, <1>7, <1>8, <1>9, <1>10, <1>11 DEF Next, Acquire

\* The spin lock of a bank excludes: one step keeps what is read current, the register
\* as if every update were atomic, and the channel selected.
LEMMA BanksStep == BanksInv /\ [Next]_vars => BanksInv'
<1> SUFFICES ASSUME BanksInv, [Next]_vars PROVE BanksInv'
  OBVIOUS
<1> DEFINE Parts == HoldsItsLock /\ ReadIsCurrent /\ AtomicModify /\ StartsWhatItSelected
<1>0. TypeOK'
  BY BanksTypeStep DEF BanksInv
<1>t. /\ pc \in [Ctxs -> {"idle", "lock", "rd", "wr", "unlock", "dmaLock", "dmaSelect",
                          "dmaStart", "dmaUnlock"}]
      /\ op \in [Ctxs -> OpRec] /\ lock \in [Bars -> Ctxs \union {NULL}]
      /\ reg \in [Bars -> SUBSET Bits] /\ want \in [Bars -> SUBSET Bits]
      /\ NULL \notin Ctxs /\ DmaBar \in Bars
  BY RegsAssumption DEF BanksInv, TypeOK, OpRec, DmaBar, Bars
<1>b. \A x \in Ctxs : op[x].bar \in Bars
  BY <1>t DEF OpRec
<1>i. HoldsItsLock /\ ReadIsCurrent /\ AtomicModify /\ StartsWhatItSelected
  BY DEF BanksInv
<1> USE <1>t, <1>b, <1>i DEF HoldsItsLock, ReadIsCurrent, AtomicModify, StartsWhatItSelected,
        UserHolds, DmaHolds, Goto
<1>1. ASSUME NEW c \in Cpus, NEW name, NEW bar, NEW o, NEW cl, NEW s,
             Call(c, name, bar, o, cl, s)
      PROVE  Parts'
  <2>1. <<c, "task">> \in Ctxs
    BY DEF Ctxs
  <2> QED BY <1>1, <2>1 DEF Call, DmaBar
<1>2. ASSUME NEW c \in Cpus, UserCall(c) PROVE Parts'
  <2> HIDE DEF Parts
  <2> QED BY <1>1, <1>2 DEF UserCall
<1>3. ASSUME NEW c \in Cpus, StartDma(c) PROVE Parts'
  <2>1. <<c, "task">> \in Ctxs
    BY DEF Ctxs
  <2> QED BY <1>3, <2>1 DEF StartDma, DmaBar
<1>4. ASSUME NEW c \in Cpus, Irq(c) PROVE Parts'
  <2>1. <<c, "irq">> \in Ctxs
    BY DEF Ctxs
  <2> QED BY <1>4, <2>1 DEF Irq, DmaBar
<1>5. ASSUME NEW x \in Ctxs, SpinLock(x) PROVE Parts'
  BY <1>5 DEF SpinLock, LockFree, DmaBar
<1>6. ASSUME NEW x \in Ctxs, DmaLock(x) PROVE Parts'
  BY <1>6 DEF DmaLock, LockFree, DmaBar
<1>7. ASSUME NEW x \in Ctxs, Rd(x) PROVE Parts'
  BY <1>7 DEF Rd, DmaBar
<1>8. ASSUME NEW x \in Ctxs, Wr(x) PROVE Parts'
  <2> DEFINE o == op[x]
             Update(v) == IF o.name = "write" THEN o.set ELSE (v \ o.clear) \union o.set
  <2>1. /\ reg' = [reg EXCEPT ![o.bar] = Update(o.v)]
        /\ want' = [want EXCEPT ![o.bar] = Update(want[o.bar])]
        /\ pc[x] = "wr" /\ pc' = [pc EXCEPT ![x] = "unlock"]
        /\ UNCHANGED <<plat, lock, op, chanReg>>
    BY <1>8 DEF Wr
  <2>2. Update(o.v) = Update(want[o.bar])
    BY <2>1
  <2> HIDE DEF Update
  <2>3. AtomicModify'
    BY <2>1, <2>2
  <2>4. HoldsItsLock' /\ StartsWhatItSelected'
    BY <2>1 DEF DmaBar
  <2>5. ASSUME NEW y \in Ctxs, pc'[y] = "wr"
        PROVE  /\ op'[y].name \in {"write", "modify"}
               /\ op'[y].name = "modify" => op'[y].v = reg'[op'[y].bar]
    <3>1. y # x /\ pc[y] = "wr"
      BY <2>1, <2>5
    <3>2. op[y].bar # o.bar
      BY <2>1, <3>1
    <3> QED BY <2>1, <3>1, <3>2
  <2> QED BY <2>3, <2>4, <2>5
<1>9. ASSUME NEW x \in Ctxs, SpinUnlock(x) PROVE Parts'
  BY <1>9 DEF SpinUnlock, DmaBar
<1>10. ASSUME NEW x \in Ctxs, DmaSelect(x) PROVE Parts'
  BY <1>10 DEF DmaSelect, DmaBar
<1>11. ASSUME NEW x \in Ctxs, DmaStart(x) PROVE Parts'
  BY <1>11 DEF DmaStart, DmaBar
<1>12. ASSUME NEW x \in Ctxs, DmaUnlock(x) PROVE Parts'
  BY <1>12 DEF DmaUnlock, DmaBar
<1>13. ASSUME UNCHANGED vars PROVE Parts'
  BY <1>13 DEF vars, DmaBar
<1>14. Parts'
  <2> HIDE DEF Parts
  <2> QED BY <1>2, <1>3, <1>4, <1>5, <1>6, <1>7, <1>8, <1>9, <1>10, <1>11, <1>12, <1>13
          DEF Next, Acquire, DmaStep
<1> QED BY <1>0, <1>14 DEF BanksInv

\* The initial states.
LEMMA BanksInit == Init => BanksInv
<1> SUFFICES ASSUME Init PROVE BanksInv
  OBVIOUS
<1>1. TypeOK
  BY RegsAssumption DEF Init, TypeOK, NoOp, Bars
<1>2. HoldsItsLock /\ ReadIsCurrent /\ AtomicModify /\ StartsWhatItSelected
  BY DEF Init, HoldsItsLock, ReadIsCurrent, AtomicModify, StartsWhatItSelected,
         UserHolds, DmaHolds
<1> QED BY <1>1, <1>2 DEF BanksInv

\* On every platform, however user calls, START_DMA and interrupts interleave:
\* do_modify_regb loses no update, and START takes effect on the channel that its own
\* sequence selected.
THEOREM BanksSafe == Spec => [](TypeOK /\ AtomicModify /\ StartsWhatItSelected)
<1>1. BanksInv => TypeOK /\ AtomicModify /\ StartsWhatItSelected
  BY DEF BanksInv
<1> QED BY BanksInit, BanksStep, <1>1, PTL DEF Spec

\* No step changes the platform.
LEMMA PlatformStays == [Next]_vars => UNCHANGED plat
<1> SUFFICES ASSUME [Next]_vars PROVE UNCHANGED plat
  OBVIOUS
<1>1. ASSUME NEW c \in Cpus, UserCall(c) \/ StartDma(c) \/ Irq(c) PROVE UNCHANGED plat
  BY <1>1 DEF UserCall, Call, StartDma, Irq
<1>2. ASSUME NEW x \in Ctxs, Acquire(x) \/ Rd(x) \/ Wr(x) PROVE UNCHANGED plat
  BY <1>2 DEF Acquire, SpinLock, DmaLock, Rd, Wr
<1>3. ASSUME NEW x \in Ctxs, SpinUnlock(x) \/ DmaStep(x) PROVE UNCHANGED plat
  BY <1>3 DEF SpinUnlock, DmaStep, DmaSelect, DmaStart, DmaUnlock
<1> QED BY <1>1, <1>2, <1>3 DEF Next, vars

\* A step of ClosedInv, from the types and the locks of BanksInv.
LEMMA ClosedStep == BanksInv /\ ClosedInv /\ [Next]_vars => ClosedInv'
<1> SUFFICES ASSUME BanksInv, ClosedInv, [Next]_vars PROVE ClosedInv'
  OBVIOUS
<1>t. /\ pc \in [Ctxs -> {"idle", "lock", "rd", "wr", "unlock", "dmaLock", "dmaSelect",
                          "dmaStart", "dmaUnlock"}]
      /\ op \in [Ctxs -> OpRec] /\ lock \in [Bars -> Ctxs \union {NULL}]
      /\ irqsOff \in [Cpus -> BOOLEAN]
      /\ NULL \notin Ctxs /\ DmaBar \in Bars /\ HoldsItsLock
  BY RegsAssumption DEF BanksInv, TypeOK, OpRec, DmaBar, Bars
<1>b. \A x \in Ctxs : op[x].bar \in Bars
  BY <1>t DEF OpRec
<1>c. \A c \in Cpus : <<c, "task">> \in Ctxs /\ <<c, "irq">> \in Ctxs
  BY DEF Ctxs
<1>d. ASSUME UNCHANGED plat
      PROVE  DmaBar' = DmaBar /\ DmaBankClosed' = DmaBankClosed
  BY <1>d DEF DmaBar, DmaBankClosed, UserAccess, PlatformFvd, Enabled
<1>p. UNCHANGED plat
  BY PlatformStays
<1> USE <1>t, <1>b, <1>c DEF UserHolds, DmaHolds, InUserCall, InChanStart, Goto
<1>i. LockHasHolder /\ UsersStayOut /\ MaskedInChanStart
  BY DEF ClosedInv
<1>1. ASSUME NEW c \in Cpus, NEW name \in {"read", "write", "modify"}, NEW bar, NEW o,
             NEW cl, NEW s, Call(c, name, bar, o, cl, s)
      PROVE  ClosedInv'
  <2>1. DmaBankClosed /\ plat # "membus" => bar # DmaBar
    BY <1>1 DEF Call, CheckBarAccess, Needs, DmaBankClosed
  <2>2. LockHasHolder'
    BY <1>1, <1>i, <1>d, <1>p DEF Call, LockHasHolder
  <2>3. UsersStayOut'
    BY <1>1, <1>i, <1>d, <1>p, <2>1 DEF Call, UsersStayOut
  <2>4. MaskedInChanStart'
    BY <1>1, <1>i DEF Call, MaskedInChanStart
  <2> QED BY <2>2, <2>3, <2>4 DEF ClosedInv
<1>2. ASSUME NEW c \in Cpus, UserCall(c) PROVE ClosedInv'
  BY <1>1, <1>2 DEF UserCall
<1>3. ASSUME NEW c \in Cpus, StartDma(c) PROVE ClosedInv'
  <2>1. LockHasHolder'
    BY <1>3, <1>i, <1>d, <1>p DEF StartDma, LockHasHolder
  <2>2. UsersStayOut'
    BY <1>3, <1>i, <1>d, <1>p DEF StartDma, UsersStayOut
  <2>3. MaskedInChanStart'
    BY <1>3, <1>i DEF StartDma, MaskedInChanStart, Runs
  <2> QED BY <2>1, <2>2, <2>3 DEF ClosedInv
<1>4. ASSUME NEW c \in Cpus, Irq(c) PROVE ClosedInv'
  <2>1. LockHasHolder'
    BY <1>4, <1>i, <1>d, <1>p DEF Irq, LockHasHolder
  <2>2. UsersStayOut'
    BY <1>4, <1>i, <1>d, <1>p DEF Irq, UsersStayOut
  <2>3. MaskedInChanStart'
    BY <1>4, <1>i DEF Irq, MaskedInChanStart
  <2> QED BY <2>1, <2>2, <2>3 DEF ClosedInv
<1>5. ASSUME NEW x \in Ctxs, SpinLock(x) PROVE ClosedInv'
  <2>1. LockHasHolder'
    BY <1>5, <1>i, <1>d, <1>p DEF SpinLock, LockHasHolder
  <2>2. UsersStayOut'
    BY <1>5, <1>i, <1>d, <1>p DEF SpinLock, UsersStayOut
  <2>3. MaskedInChanStart'
    BY <1>5, <1>i DEF SpinLock, MaskedInChanStart
  <2> QED BY <2>1, <2>2, <2>3 DEF ClosedInv
<1>6. ASSUME NEW x \in Ctxs, DmaLock(x) PROVE ClosedInv'
  <2>1. LockHasHolder'
    BY <1>6, <1>i, <1>d, <1>p DEF DmaLock, LockHasHolder
  <2>2. UsersStayOut'
    BY <1>6, <1>i, <1>d, <1>p DEF DmaLock, UsersStayOut
  <2>3. MaskedInChanStart'
    BY <1>6, <1>i DEF DmaLock, MaskedInChanStart
  <2> QED BY <2>1, <2>2, <2>3 DEF ClosedInv
<1>7. ASSUME NEW x \in Ctxs, Rd(x) PROVE ClosedInv'
  <2>0. \A y \in Ctxs : op'[y].bar = op[y].bar
    BY <1>7 DEF Rd, OpRec
  <2>1. LockHasHolder'
    BY <1>7, <1>i, <1>d, <1>p, <2>0 DEF Rd, LockHasHolder
  <2>2. UsersStayOut'
    BY <1>7, <1>i, <1>d, <1>p, <2>0 DEF Rd, UsersStayOut
  <2>3. MaskedInChanStart'
    BY <1>7, <1>i DEF Rd, MaskedInChanStart
  <2> QED BY <2>1, <2>2, <2>3 DEF ClosedInv
<1>8. ASSUME NEW x \in Ctxs, Wr(x) PROVE ClosedInv'
  <2>1. LockHasHolder'
    BY <1>8, <1>i, <1>d, <1>p DEF Wr, LockHasHolder
  <2>2. UsersStayOut'
    BY <1>8, <1>i, <1>d, <1>p DEF Wr, UsersStayOut
  <2>3. MaskedInChanStart'
    BY <1>8, <1>i DEF Wr, MaskedInChanStart
  <2> QED BY <2>1, <2>2, <2>3 DEF ClosedInv
<1>9. ASSUME NEW x \in Ctxs, SpinUnlock(x) PROVE ClosedInv'
  <2>1. LockHasHolder'
    BY <1>9, <1>i, <1>d, <1>p DEF SpinUnlock, LockHasHolder
  <2>2. UsersStayOut'
    BY <1>9, <1>i, <1>d, <1>p DEF SpinUnlock, UsersStayOut
  <2>3. MaskedInChanStart'
    BY <1>9, <1>i DEF SpinUnlock, MaskedInChanStart
  <2> QED BY <2>1, <2>2, <2>3 DEF ClosedInv
<1>10. ASSUME NEW x \in Ctxs, DmaSelect(x) \/ DmaStart(x) PROVE ClosedInv'
  <2>1. LockHasHolder'
    BY <1>10, <1>i, <1>d, <1>p DEF DmaSelect, DmaStart, LockHasHolder
  <2>2. UsersStayOut'
    BY <1>10, <1>i, <1>d, <1>p DEF DmaSelect, DmaStart, UsersStayOut
  <2>3. MaskedInChanStart'
    BY <1>10, <1>i DEF DmaSelect, DmaStart, MaskedInChanStart
  <2> QED BY <2>1, <2>2, <2>3 DEF ClosedInv
<1>11. ASSUME NEW x \in Ctxs, DmaUnlock(x) PROVE ClosedInv'
  <2>1. LockHasHolder'
    BY <1>11, <1>i, <1>d, <1>p DEF DmaUnlock, LockHasHolder, HoldsItsLock
  <2>2. UsersStayOut'
    BY <1>11, <1>i, <1>d, <1>p DEF DmaUnlock, UsersStayOut
  <2>3. MaskedInChanStart'
    <3>1. PICK d \in Cpus, k \in {"task", "irq"} : x = <<d, k>>
      BY DEF Ctxs
    <3> QED BY <1>11, <1>i, <3>1 DEF DmaUnlock, MaskedInChanStart
  <2> QED BY <2>1, <2>2, <2>3 DEF ClosedInv
<1>12. ASSUME UNCHANGED vars PROVE ClosedInv'
  BY <1>12, <1>d, <1>p, <1>i DEF vars, ClosedInv, LockHasHolder, UsersStayOut, MaskedInChanStart
<1> QED BY <1>2, <1>3, <1>4, <1>5, <1>6, <1>7, <1>8, <1>9, <1>10, <1>11, <1>12
        DEF Next, Acquire, DmaStep

\* The lock users take without disabling interrupts is enough where they cannot take the
\* one of the DMA bank (evander, eoco, ec702, the memory bus): no handler there ever
\* waits for the task it interrupted.
THEOREM SpinLockEnoughWhereClosed == Spec => [](DmaBankClosed => SpinLockIsEnough)
<1>1. Init => ClosedInv
  BY RegsAssumption DEF Init, ClosedInv, LockHasHolder, UsersStayOut, MaskedInChanStart,
     UserHolds, DmaHolds, InUserCall, InChanStart, Ctxs
<1>2. BanksInv /\ ClosedInv => (DmaBankClosed => SpinLockIsEnough)
  <2> SUFFICES ASSUME BanksInv, ClosedInv, DmaBankClosed, NEW c \in Cpus,
                      pc[<<c, "irq">>] = "dmaLock", lock[DmaBar] = <<c, "task">>
               PROVE  FALSE
    BY DEF SpinLockIsEnough
  <2>1. <<c, "task">> \in Ctxs /\ <<c, "irq">> \in Ctxs /\ DmaBar \in Bars
    BY DEF Ctxs, DmaBar, Bars
  <2>2. plat # "membus" /\ ~irqsOff[c]
    BY <2>1 DEF ClosedInv, UsersStayOut, MaskedInChanStart, InChanStart
  <2>3. pc[<<c, "task">>] \in DmaHolds
    BY <2>1, <2>2 DEF ClosedInv, LockHasHolder, UsersStayOut, InUserCall
  <2> QED BY <2>2, <2>3 DEF ClosedInv, MaskedInChanStart, InChanStart
<1> QED BY BanksInit, BanksStep, ClosedStep, <1>1, <1>2, PTL DEF Spec

-------------------------------------------------------------------------------
(* The memory bus *)

\* Division with remainder.
LEMMA DivMod ==
  ASSUME NEW a \in Nat, NEW n \in Nat \ {0}
  PROVE  a = n * (a \div n) + (a % n) /\ a % n \in 0..(n - 1) /\ a \div n \in Nat
  OBVIOUS

\* A product grows with its factor.
LEMMA TimesMono ==
  ASSUME NEW n \in Nat, NEW x \in Nat, NEW y \in Nat, x <= y
  PROVE  n * x <= n * y
  OBVIOUS

\* The size of the SDRAM.
LEMMA SdramSizePositive == SdramSize \in Nat \ {0}
  BY MembusAssumption DEF SdramSize

\* A pair of register values names a byte of the SDRAM.
LEMMA WindowInSdram ==
  ASSUME NEW hi \in 0..(HiSize - 1), NEW lo \in 0..(LoSize - 1)
  PROVE  LoSize * hi + lo \in Sdram
<1>1. LoSize * hi + LoSize = LoSize * (hi + 1) /\ LoSize * hi \in Nat
  BY MembusAssumption
<1>2. LoSize * (hi + 1) <= LoSize * HiSize
  BY MembusAssumption, TimesMono
<1> QED BY <1>1, <1>2, MembusAssumption DEF Sdram, SdramSize

\* FPGA_ADDR_LO and FPGA_ADDR_HI fit their registers, and of an even address nothing is
\* lost.
LEMMA AddrSplit ==
  ASSUME NEW a \in Sdram
  PROVE  /\ AddrLo(a) \in 0..(LoSize - 1) /\ AddrHi(a) \in 0..(HiSize - 1)
         /\ a % 2 = 0 => LoSize * AddrHi(a) + AddrLo(a) = a
<1> DEFINE q == a \div LoSize
           m == a % LoSize
<1>1. a \in Nat /\ a < LoSize * HiSize
  BY MembusAssumption, SdramSizePositive DEF Sdram, SdramSize
<1>2. a = LoSize * q + m /\ m \in 0..(LoSize - 1) /\ q \in Nat
  BY <1>1, MembusAssumption, DivMod
<1> HIDE DEF q, m
<1>3. q < HiSize
  <2> SUFFICES ASSUME HiSize <= q PROVE FALSE
    BY <1>2, MembusAssumption
  <2>1. LoSize * HiSize <= LoSize * q
    BY <1>2, MembusAssumption, TimesMono
  <2>2. LoSize * q <= a /\ LoSize * q \in Nat
    BY <1>2, MembusAssumption
  <2> QED BY <1>1, <2>1, <2>2, MembusAssumption
<1>4. q % HiSize = q
  BY <1>2, <1>3, MembusAssumption
<1>5. AddrHi(a) = q /\ AddrLo(a) = 2 * (m \div 2)
  BY <1>4 DEF AddrHi, AddrLo, q, m
<1>6. AddrLo(a) \in 0..(LoSize - 1)
  BY <1>2, <1>5, MembusAssumption
<1>7. ASSUME a % 2 = 0 PROVE 2 * (m \div 2) = m
  <2>1. PICK k \in Nat : LoSize = 2 * k
    BY MembusAssumption
  <2>2. LoSize * q = 2 * (k * q) /\ k * q \in Nat
    BY <2>1, <1>2
  <2>3. a = 2 * (k * q) + m
    BY <1>2, <2>2
  <2> QED BY <1>1, <1>2, <1>7, <2>2, <2>3
<1> QED BY <1>2, <1>3, <1>5, <1>6, <1>7, MembusAssumption

MpcLabels == {"idle", "iolock", "toggle", "lo", "hi", "burst", "iounlock", "return"}
InWindowUse == {"toggle", "lo", "hi", "burst", "iounlock"}

\* Who programs the window or moves data holds iolock.
HoldsIoLock == \A c \in Cpus : mpc[c] \in InWindowUse => iolock = c

\* A call has a transfer that was asked for, and a buffer of its size.
HasItsBuffer ==
    /\ buf = [c \in Cpus |-> buf[c]]
    /\ \A c \in Cpus : mpc[c] # "idle" =>
         xfer[c] \in Xfers /\ DOMAIN buf[c] = 0..(xfer[c].size - 1)

\* Step by step a transfer that no user disturbs sets the window to its address: the
\* direction bit is turned away, so that writing it later triggers the access; the low
\* half is set; the port stands at the first byte.
WindowFollows ==
    \A c \in Cpus \ disturbed :
      /\ mpc[c] \in {"lo", "hi"} => win.dir = Other(xfer[c].dir)
      /\ mpc[c] = "hi" => win.lo = AddrLo(xfer[c].device)
      /\ mpc[c] = "burst" =>
           /\ win.dir = xfer[c].dir
           /\ port = LoSize * AddrHi(xfer[c].device) + AddrLo(xfer[c].device)

BusInv == HoldsIoLock /\ HasItsBuffer /\ WindowFollows /\ MembusMovesItsData

\* The memory bus leaves the banks to BifrostRegs: each of its steps is one of the
\* banks' or none.
THEOREM MembusUsesBanks == MembusSpec => Spec
<1>1. MembusInit => Init
  BY DEF MembusInit
<1>2. MembusNext => [Next]_vars
  <2> SUFFICES ASSUME MembusNext PROVE [Next]_vars
    OBVIOUS
  <2>1. ASSUME NEW c \in Cpus, UserCall(c) \/ StartDma(c) \/ Irq(c) PROVE [Next]_vars
    BY <2>1 DEF Next
  <2>2. ASSUME NEW c \in Cpus,
               (\E x \in Xfers : DoXfer(c, x)) \/ IoLock(c) \/ XferStep(c)
        PROVE  [Next]_vars
    BY <2>2 DEF DoXfer, IoLock, XferStep, Toggle, SetLo, SetHi, Burst, IoUnlock, XferReturn,
                Step
  <2>3. ASSUME NEW x \in Ctxs, Acquire(x) \/ SpinUnlock(x) \/ DmaStep(x) \/ Rd(x) \/ Wr(x)
        PROVE  [Next]_vars
    BY <2>3 DEF Next
  <2> QED BY <2>1, <2>2, <2>3 DEF MembusNext, UserRd, UserWr
<1>3. [MembusNext]_mvars => [Next]_vars
  BY <1>2 DEF mvars
<1> QED BY <1>1, <1>3, PTL DEF MembusSpec, Spec

\* So what the spin locks of the banks guarantee holds while transfers run on the memory
\* bus, too.
THEOREM MembusKeepsBanksSafe ==
    MembusSpec => [](/\ TypeOK /\ AtomicModify /\ StartsWhatItSelected
                     /\ DmaBankClosed => SpinLockIsEnough)
BY MembusUsesBanks, BanksSafe, SpinLockEnoughWhereClosed, PTL

Win == [lo : 0..(LoSize - 1), hi : 0..(HiSize - 1), dir : {"UP", "DOWN"}]
Data == (Cpus \union {NULL}) \X Sdram

\* What a write of register 0 does to the window.
LEMMA WriteReg0Effect ==
  ASSUME win \in Win, NEW lo \in 0..(LoSize - 1), WriteReg0(lo)
  PROVE  win' \in Win /\ win'.lo = lo /\ win'.dir = win.dir /\ port' = port
<1>1. win' = [lo |-> lo, hi |-> win.hi, dir |-> win.dir]
  BY DEF WriteReg0, Win
<1> QED BY <1>1 DEF WriteReg0, Win

\* What a write of register 1 does: it triggers an access when the direction changes.
LEMMA WriteReg1Effect ==
  ASSUME win \in Win, port \in Sdram, NEW hi \in 0..(HiSize - 1), NEW dir \in {"UP", "DOWN"},
         WriteReg1(hi, dir)
  PROVE  /\ win' \in Win /\ win'.lo = win.lo /\ win'.dir = dir /\ port' \in Sdram
         /\ dir # win.dir => port' = LoSize * hi + win.lo
<1>1. win' = [lo |-> win.lo, hi |-> hi, dir |-> dir]
  BY DEF WriteReg1, Win
<1>2. LoSize * hi + win.lo \in Sdram
  BY WindowInSdram DEF Win
<1> QED BY <1>1, <1>2 DEF WriteReg1, Win

\* Everything a transfer can ask for is inside the SDRAM.
LEMMA XferInSdram ==
  ASSUME NEW x \in Xfers
  PROVE  /\ x.dir \in {"UP", "DOWN"} /\ x.device \in Sdram /\ x.size \in Nat
         /\ \A i \in 0..(x.size - 1) : x.device + i \in Sdram
BY MembusAssumption, SdramSizePositive DEF Sdram

\* Reading or writing a register from user space keeps the invariant: it cannot reach
\* window or port without marking the transfer that holds iolock as disturbed.
LEMMA UserAccessStep ==
  ASSUME MembusTypeOK, BusInv, TypeOK', NEW x \in Ctxs, UserRd(x) \/ UserWr(x)
  PROVE  MembusTypeOK' /\ BusInv'
<1>1. UNCHANGED <<iolock, mpc, xfer, buf, faulted, calls>>
  BY DEF UserRd, UserWr
<1>2. \/ UNCHANGED <<win, port, sdram, disturbed>>
      \/ Disturb /\ (UserWindow(x) \/ UserPort(x))
  BY DEF UserRd, UserWr, UserWindow, UserPort
<1>t. /\ win \in Win /\ port \in Sdram /\ sdram \in [Sdram -> Data]
      /\ disturbed \subseteq Cpus /\ iolock \in Cpus \union {NULL}
  BY DEF MembusTypeOK, Win, Data
<1>z. Zero \in Data /\ 0 \in 0..(LoSize - 1) /\ 0 \in 0..(HiSize - 1)
  BY MembusAssumption, SdramSizePositive DEF Zero, Data, Sdram
<1>3. ASSUME Disturb, UserWindow(x)
      PROVE  win' \in Win /\ port' \in Sdram /\ sdram' \in [Sdram -> Data]
  <2>1. WriteReg0(0) \/ \E d \in {"UP", "DOWN"} : WriteReg1(0, d)
    BY <1>3 DEF UserWindow
  <2>2. win' \in Win /\ port' \in Sdram
    BY <2>1, <1>t, <1>z, WriteReg0Effect, WriteReg1Effect
  <2> QED BY <2>2, <1>3, <1>t DEF UserWindow
<1>4. ASSUME Disturb, UserPort(x)
      PROVE  win' \in Win /\ port' \in Sdram /\ sdram' \in [Sdram -> Data]
  <2>1. port + 2 \in Nat
    BY <1>t DEF Sdram
  <2>2. (port + 2) % SdramSize \in Sdram
    BY <2>1, SdramSizePositive, DivMod DEF Sdram
  <2> QED BY <1>4, <1>t, <1>z, <2>2 DEF UserPort
<1>5. /\ win' \in Win /\ port' \in Sdram /\ sdram' \in [Sdram -> Data]
      /\ disturbed' \subseteq Cpus
  BY <1>2, <1>3, <1>4, <1>t DEF Disturb
<1>6. MembusTypeOK'
  BY <1>1, <1>5 DEF MembusTypeOK, Win, Data
<1>7. HoldsIoLock' /\ HasItsBuffer'
  BY <1>1 DEF BusInv, HoldsIoLock, HasItsBuffer
<1>8. ASSUME NEW c \in Cpus, c \notin disturbed', mpc[c] \in InWindowUse
      PROVE  UNCHANGED <<win, port, sdram>> /\ c \notin disturbed
  <2>1. iolock = c /\ c # NULL
    BY <1>8, RegsAssumption DEF BusInv, HoldsIoLock
  <2> QED BY <1>2, <1>8, <2>1 DEF Disturb
<1>9. WindowFollows'
  BY <1>1, <1>8 DEF BusInv, WindowFollows, InWindowUse
<1>10. MembusMovesItsData'
  <2> SUFFICES ASSUME NEW c \in Cpus \ disturbed', mpc'[c] = "iounlock", Even(xfer'[c])
               PROVE  Agrees(c)'
    BY DEF MembusMovesItsData, Even
  <2>1. Agrees(c) /\ UNCHANGED sdram
    BY <1>1, <1>8 DEF BusInv, MembusMovesItsData, InWindowUse
  <2> QED BY <1>1, <2>1 DEF Agrees
<1> QED BY <1>6, <1>7, <1>9, <1>10 DEF BusInv

\* The start of a call: its buffer has its size, and holds data for the bytes it names.
LEMMA DoXferStep ==
  ASSUME MembusTypeOK, BusInv, TypeOK', NEW c \in Cpus, NEW x \in Xfers, DoXfer(c, x)
  PROVE  MembusTypeOK' /\ BusInv'
<1>t. /\ mpc[c] = "idle" /\ mpc' = [mpc EXCEPT ![c] = "iolock"]
      /\ xfer' = [xfer EXCEPT ![c] = x]
      /\ UNCHANGED <<iolock, win, port, sdram, disturbed, calls>>
  BY DEF DoXfer, Step
<1>1. PICK fault \in BOOLEAN :
        /\ buf' = [buf EXCEPT ![c] = [i \in 0..(x.size - 1) |->
                     IF x.dir = "DOWN" /\ ~fault THEN <<c, x.device + i>> ELSE Zero]]
        /\ faulted' = IF fault THEN faulted \union {c} ELSE faulted
  BY DEF DoXfer
<1>2. buf = [d \in Cpus |-> buf[d]]
  BY DEF BusInv, HasItsBuffer
<1>3. /\ DOMAIN buf'[c] = 0..(x.size - 1)
      /\ \A i \in DOMAIN buf'[c] : buf'[c][i] \in {<<c, x.device + i>>, Zero}
      /\ \A d \in Cpus \ {c} : buf'[d] = buf[d]
      /\ buf' = [d \in Cpus |-> buf'[d]]
  BY <1>1, <1>2
<1>4. \A i \in DOMAIN buf'[c] : buf'[c][i] \in Data
  BY <1>3, XferInSdram, SdramSizePositive DEF Data, Zero, Sdram
<1>5. MembusTypeOK'
  <2>1. \A d \in Cpus : \A i \in DOMAIN buf'[d] : buf'[d][i] \in Data
    BY <1>3, <1>4 DEF MembusTypeOK, Data
  <2> QED BY <1>t, <1>1, <2>1 DEF MembusTypeOK, Data
<1>6. mpc \in [Cpus -> MpcLabels] /\ xfer \in [Cpus -> Xfers \union {NoXfer}]
  BY DEF MembusTypeOK, MpcLabels
<1>7. HoldsIoLock' /\ HasItsBuffer'
  BY <1>t, <1>3, <1>6 DEF BusInv, HoldsIoLock, HasItsBuffer, InWindowUse
<1>8. WindowFollows'
  BY <1>t, <1>6 DEF BusInv, WindowFollows
<1>9. MembusMovesItsData'
  BY <1>t, <1>3, <1>6 DEF BusInv, MembusMovesItsData, Agrees, Even
<1> QED BY <1>5, <1>7, <1>8, <1>9 DEF BusInv

\* iolock is taken and given back, and the call ends.
LEMMA IoLockStep ==
  ASSUME MembusTypeOK, BusInv, TypeOK', NEW c \in Cpus,
         IoLock(c) \/ IoUnlock(c) \/ XferReturn(c)
  PROVE  MembusTypeOK' /\ BusInv'
<1>t. /\ mpc \in [Cpus -> MpcLabels] /\ xfer \in [Cpus -> Xfers \union {NoXfer}]
      /\ buf = [d \in Cpus |-> buf[d]] /\ NULL \notin Cpus
  BY RegsAssumption DEF MembusTypeOK, BusInv, HasItsBuffer, MpcLabels
<1>i. HoldsIoLock /\ HasItsBuffer /\ WindowFollows /\ MembusMovesItsData
  BY DEF BusInv
<1>1. CASE IoLock(c)
  <2>1. MembusTypeOK'
    BY <1>1 DEF IoLock, Step, MembusTypeOK
  <2>2. HoldsIoLock' /\ HasItsBuffer'
    BY <1>1, <1>t, <1>i DEF IoLock, Step, HoldsIoLock, HasItsBuffer, InWindowUse
  <2>3. WindowFollows'
    BY <1>1, <1>t, <1>i DEF IoLock, Step, WindowFollows
  <2>4. MembusMovesItsData'
    BY <1>1, <1>t, <1>i DEF IoLock, Step, MembusMovesItsData, Agrees, Even
  <2> QED BY <2>1, <2>2, <2>3, <2>4 DEF BusInv
<1>2. CASE IoUnlock(c)
  <2>1. MembusTypeOK'
    BY <1>2 DEF IoUnlock, Step, MembusTypeOK
  <2>2. HoldsIoLock' /\ HasItsBuffer'
    BY <1>2, <1>t, <1>i DEF IoUnlock, Step, HoldsIoLock, HasItsBuffer, InWindowUse
  <2>3. WindowFollows'
    BY <1>2, <1>t, <1>i DEF IoUnlock, Step, WindowFollows
  <2>4. MembusMovesItsData'
    BY <1>2, <1>t, <1>i DEF IoUnlock, Step, MembusMovesItsData, Agrees, Even
  <2> QED BY <2>1, <2>2, <2>3, <2>4 DEF BusInv
<1>3. CASE XferReturn(c)
  <2>0. /\ DOMAIN buf'[c] = {} /\ buf' = [d \in Cpus |-> buf'[d]]
        /\ \A d \in Cpus \ {c} : buf'[d] = buf[d]
    BY <1>3, <1>t DEF XferReturn
  <2>1. MembusTypeOK'
    <3>1. \A d \in Cpus : \A i \in DOMAIN buf'[d] : buf'[d][i] \in Data
      BY <2>0 DEF MembusTypeOK, Data
    <3> QED BY <1>3, <3>1 DEF XferReturn, Step, MembusTypeOK, Data
  <2>2. HoldsIoLock' /\ HasItsBuffer'
    BY <1>3, <1>t, <1>i, <2>0 DEF XferReturn, Step, HoldsIoLock, HasItsBuffer, InWindowUse
  <2>3. WindowFollows'
    BY <1>3, <1>t, <1>i DEF XferReturn, Step, WindowFollows
  <2>4. MembusMovesItsData'
    BY <1>3, <1>t, <1>i, <2>0 DEF XferReturn, Step, MembusMovesItsData, Agrees, Even
  <2> QED BY <2>1, <2>2, <2>3, <2>4 DEF BusInv
<1> QED BY <1>1, <1>2, <1>3

\* The three register writes of WriteSDRAM and ReadSDRAM.
LEMMA WindowStep ==
  ASSUME MembusTypeOK, BusInv, TypeOK', NEW c \in Cpus, Toggle(c) \/ SetLo(c) \/ SetHi(c)
  PROVE  MembusTypeOK' /\ BusInv'
<1>t. /\ mpc \in [Cpus -> MpcLabels] /\ xfer \in [Cpus -> Xfers \union {NoXfer}]
      /\ NULL \notin Cpus /\ win \in Win /\ port \in Sdram
  BY RegsAssumption DEF MembusTypeOK, Win, MpcLabels
<1>i. HoldsIoLock /\ HasItsBuffer /\ WindowFollows /\ MembusMovesItsData
  BY DEF BusInv
<1>u. UNCHANGED <<iolock, xfer, buf, sdram, faulted, disturbed, calls>>
  BY DEF Toggle, SetLo, SetHi, Step
<1>m. /\ mpc[c] \in {"toggle", "lo", "hi"}
      /\ mpc' = [mpc EXCEPT ![c] = IF mpc[c] = "toggle" THEN "lo"
                                   ELSE IF mpc[c] = "lo" THEN "hi" ELSE "burst"]
  BY DEF Toggle, SetLo, SetHi, Step
<1>x. xfer[c] \in Xfers /\ iolock = c
  BY <1>m, <1>i DEF HasItsBuffer, HoldsIoLock, InWindowUse
<1>0. ASSUME NEW d \in Cpus, d # c PROVE mpc[d] \notin InWindowUse /\ mpc'[d] = mpc[d]
  BY <1>0, <1>x, <1>i, <1>m, <1>t DEF HoldsIoLock
<1>a. /\ xfer[c].dir \in {"UP", "DOWN"} /\ Other(xfer[c].dir) \in {"UP", "DOWN"}
      /\ Other(xfer[c].dir) # xfer[c].dir
      /\ AddrLo(xfer[c].device) \in 0..(LoSize - 1)
      /\ AddrHi(xfer[c].device) \in 0..(HiSize - 1) /\ 0 \in 0..(HiSize - 1)
  BY <1>x, XferInSdram, AddrSplit, MembusAssumption DEF Other
<1>1. /\ win' \in Win /\ port' \in Sdram
      /\ mpc'[c] \in {"lo", "hi"} /\ c \notin disturbed => win'.dir = Other(xfer[c].dir)
      /\ mpc'[c] = "hi" => win'.lo = AddrLo(xfer[c].device)
      /\ mpc'[c] = "burst" /\ c \notin disturbed =>
           /\ win'.dir = xfer[c].dir
           /\ port' = LoSize * AddrHi(xfer[c].device) + AddrLo(xfer[c].device)
  <2>1. CASE Toggle(c)
    <3>1. mpc'[c] = "lo" /\ WriteReg1(0, Other(xfer[c].dir))
      BY <2>1, <1>t DEF Toggle, Step
    <3> QED BY <3>1, <1>t, <1>a, WriteReg1Effect
  <2>2. CASE SetLo(c)
    <3>1. mpc[c] = "lo" /\ mpc'[c] = "hi" /\ WriteReg0(AddrLo(xfer[c].device))
      BY <2>2, <1>t DEF SetLo, Step
    <3>2. c \notin disturbed => win.dir = Other(xfer[c].dir)
      BY <3>1, <1>i DEF WindowFollows
    <3> QED BY <3>1, <3>2, <1>t, <1>a, WriteReg0Effect
  <2>3. CASE SetHi(c)
    <3>1. mpc[c] = "hi" /\ mpc'[c] = "burst" /\ WriteReg1(AddrHi(xfer[c].device), xfer[c].dir)
      BY <2>3, <1>t DEF SetHi, Step
    <3>2. c \notin disturbed =>
            win.dir = Other(xfer[c].dir) /\ win.lo = AddrLo(xfer[c].device)
      BY <3>1, <1>i DEF WindowFollows
    <3> QED BY <3>1, <3>2, <1>t, <1>a, WriteReg1Effect
  <2> QED BY <2>1, <2>2, <2>3
<1>2. MembusTypeOK'
  BY <1>1, <1>u, <1>m DEF MembusTypeOK, Win
<1>3. HoldsIoLock' /\ HasItsBuffer'
  BY <1>u, <1>m, <1>x, <1>0, <1>t, <1>i DEF HoldsIoLock, HasItsBuffer, InWindowUse
<1>4. WindowFollows'
  BY <1>u, <1>1, <1>0 DEF WindowFollows, InWindowUse
<1>5. MembusMovesItsData'
  BY <1>u, <1>m, <1>0, <1>t DEF MembusMovesItsData, InWindowUse
<1> QED BY <1>2, <1>3, <1>4, <1>5 DEF BusInv

\* The data: a burst moves the bytes of an undisturbed transfer of whole words to and
\* from where it was told.
LEMMA BurstStep ==
  ASSUME MembusTypeOK, BusInv, TypeOK', NEW c \in Cpus, Burst(c)
  PROVE  MembusTypeOK' /\ BusInv'
<1> DEFINE x == xfer[c]
           moved == IF win.dir = x.dir THEN Moved(x.size) ELSE {}
           At(i) == (port + i) % SdramSize
<1>t. /\ mpc \in [Cpus -> MpcLabels] /\ xfer \in [Cpus -> Xfers \union {NoXfer}]
      /\ NULL \notin Cpus /\ win \in Win /\ port \in Sdram /\ sdram \in [Sdram -> Data]
      /\ \A d \in Cpus : \A i \in DOMAIN buf[d] : buf[d][i] \in Data
  BY RegsAssumption DEF MembusTypeOK, Win, Data, MpcLabels
<1>i. HoldsIoLock /\ HasItsBuffer /\ WindowFollows /\ MembusMovesItsData
  BY DEF BusInv
<1>m. /\ mpc[c] = "burst" /\ mpc' = [mpc EXCEPT ![c] = "iounlock"]
      /\ UNCHANGED <<iolock, xfer, win, faulted, disturbed, calls>>
      /\ port' = (port + 2 * (x.size \div 2)) % SdramSize
      /\ x.dir = "DOWN" =>
           /\ sdram' = [b \in Sdram |-> IF \E i \in moved : At(i) = b
                                        THEN buf[c][CHOOSE i \in moved : At(i) = b]
                                        ELSE sdram[b]]
           /\ UNCHANGED buf
      /\ x.dir # "DOWN" =>
           /\ buf' = [buf EXCEPT ![c] = [i \in DOMAIN buf[c] |->
                                           IF i \in moved THEN sdram[At(i)] ELSE buf[c][i]]]
           /\ UNCHANGED sdram
  BY DEF Burst, Step
<1>x. x \in Xfers /\ iolock = c /\ DOMAIN buf[c] = 0..(x.size - 1)
  BY <1>m, <1>i DEF HasItsBuffer, HoldsIoLock, InWindowUse
<1>y. /\ x.dir \in {"UP", "DOWN"} /\ x.device \in Sdram /\ x.size \in Nat
      /\ \A i \in 0..(x.size - 1) : x.device + i \in Sdram
  BY <1>x, XferInSdram
<1>0. ASSUME NEW d \in Cpus, d # c PROVE mpc[d] \notin InWindowUse /\ mpc'[d] = mpc[d]
  BY <1>0, <1>x, <1>i, <1>m, <1>t DEF HoldsIoLock
<1>f. buf = [d \in Cpus |-> buf[d]]
  BY <1>i DEF HasItsBuffer
<1> HIDE DEF x, At
\* The bytes a burst moves are bytes of its buffer.
<1>1. moved \subseteq 0..(x.size - 1) /\ moved \subseteq Nat
  BY <1>y DEF Moved
<1> HIDE DEF moved
<1>2. \A i \in Nat : At(i) \in Sdram
  BY <1>t, SdramSizePositive, DivMod DEF At, Sdram
<1>3. port' \in Sdram
  <2>1. x.size \div 2 \in Nat
    BY <1>y
  <2>2. port + 2 * (x.size \div 2) \in Nat
    BY <1>t, <2>1 DEF Sdram
  <2> QED BY <1>m, <2>2, SdramSizePositive, DivMod DEF Sdram
<1>4. sdram' \in [Sdram -> Data]
  <2>1. CASE x.dir = "DOWN"
    <3>1. ASSUME NEW b \in Sdram, \E i \in moved : At(i) = b
          PROVE  buf[c][CHOOSE i \in moved : At(i) = b] \in Data
      BY <3>1, <1>1, <1>x, <1>t
    <3> QED BY <2>1, <3>1, <1>m, <1>t
  <2> QED BY <2>1, <1>m, <1>t
<1>5. /\ \A d \in Cpus \ {c} : buf'[d] = buf[d]
      /\ DOMAIN buf'[c] = 0..(x.size - 1) /\ buf' = [d \in Cpus |-> buf'[d]]
      /\ \A i \in 0..(x.size - 1) :
           buf'[c][i] = IF x.dir # "DOWN" /\ i \in moved THEN sdram[At(i)] ELSE buf[c][i]
  <2>1. CASE x.dir = "DOWN"
    BY <2>1, <1>m, <1>x, <1>f
  <2>2. CASE x.dir # "DOWN"
    BY <2>2, <1>m, <1>x, <1>f
  <2> QED BY <2>1, <2>2
<1>6. \A d \in Cpus : \A i \in DOMAIN buf'[d] : buf'[d][i] \in Data
  BY <1>5, <1>t, <1>x, <1>1, <1>2
<1>7. MembusTypeOK'
  BY <1>m, <1>3, <1>4, <1>6 DEF MembusTypeOK, Data
<1>8. HoldsIoLock' /\ HasItsBuffer'
  BY <1>m, <1>x, <1>5, <1>t, <1>i DEF HoldsIoLock, HasItsBuffer, InWindowUse, x
<1>9. WindowFollows'
  BY <1>m, <1>0, <1>t DEF WindowFollows, InWindowUse
<1>10. ASSUME c \notin disturbed, Even(x), NEW i \in 0..(x.size - 1)
       PROVE  buf'[c][i] = sdram'[x.device + i]
  <2>1. port = x.device /\ win.dir = x.dir
    BY <1>10, <1>m, <1>i, <1>y, AddrSplit DEF WindowFollows, x, Even
  <2>2. moved = 0..(x.size - 1)
    BY <2>1, <1>10, <1>y DEF moved, Moved, Even
  <2>3. \A j \in 0..(x.size - 1) : At(j) = x.device + j
    <3> SUFFICES ASSUME NEW j \in 0..(x.size - 1) PROVE At(j) = x.device + j
      OBVIOUS
    <3>1. x.device + j \in 0..(SdramSize - 1)
      BY <1>y DEF Sdram
    <3> QED BY <2>1, <3>1, SdramSizePositive DEF At
  <2>4. CASE x.dir = "DOWN"
    <3>1. (CHOOSE j \in moved : At(j) = x.device + i) = i
      BY <2>2, <2>3, <1>y DEF Sdram
    <3> QED BY <2>2, <2>3, <2>4, <3>1, <1>5, <1>m, <1>y
  <2>5. CASE x.dir # "DOWN"
    BY <2>2, <2>3, <2>5, <1>5, <1>m
  <2> QED BY <2>4, <2>5
<1>11. MembusMovesItsData'
  <2> SUFFICES ASSUME NEW d \in Cpus \ disturbed', mpc'[d] = "iounlock", Even(xfer'[d])
               PROVE  Agrees(d)'
    BY DEF MembusMovesItsData, Even
  <2>1. d = c
    BY <1>0 DEF InWindowUse
  <2> QED BY <1>10, <1>m, <2>1 DEF Agrees, x
<1> QED BY <1>7, <1>8, <1>9, <1>11 DEF BusInv

\* Transfers over the memory bus, with any transfers at any time and users that access the
\* registers in between: a transfer of whole words that nobody disturbs moves its bytes
\* from and to the SDRAM bytes it names; and the types.
THEOREM MembusMovesData == MembusSpec => [](MembusTypeOK /\ MembusMovesItsData)
<1>1. MembusInit /\ TypeOK => MembusTypeOK /\ BusInv
  <2> SUFFICES ASSUME MembusInit, TypeOK PROVE MembusTypeOK /\ BusInv
    OBVIOUS
  <2>1. \A c \in Cpus : mpc[c] = "idle" /\ DOMAIN buf[c] = {}
    BY DEF MembusInit
  <2>2. MembusTypeOK
    <3>1. 0 \in Sdram
      BY SdramSizePositive DEF Sdram
    <3> QED BY <2>1, <3>1, MembusAssumption DEF MembusInit, MembusTypeOK
  <2>3. BusInv
    BY <2>1 DEF BusInv, HoldsIoLock, HasItsBuffer, WindowFollows, MembusMovesItsData,
                MembusInit, InWindowUse
  <2> QED BY <2>2, <2>3
<1>2. TypeOK' /\ MembusTypeOK /\ BusInv /\ [MembusNext]_mvars => MembusTypeOK' /\ BusInv'
  <2> SUFFICES ASSUME TypeOK', MembusTypeOK, BusInv, [MembusNext]_mvars
               PROVE  MembusTypeOK' /\ BusInv'
    OBVIOUS
  <2>1. ASSUME UNCHANGED busVars, calls' \in 0..MaxCalls PROVE MembusTypeOK' /\ BusInv'
    BY <2>1 DEF busVars, MembusTypeOK, BusInv, HoldsIoLock, HasItsBuffer, WindowFollows,
                MembusMovesItsData, Agrees, Even
  <2>2. calls \in 0..MaxCalls
    BY DEF MembusTypeOK
  <2>3. ASSUME NEW c \in Cpus, UNCHANGED busVars,
               IF plat = "membus" THEN calls < MaxCalls /\ calls' = calls + 1
                                  ELSE UNCHANGED calls
        PROVE  calls' \in 0..MaxCalls
    BY <2>2, <2>3, MembusAssumption
  <2>4. ASSUME UNCHANGED mbVars PROVE UNCHANGED busVars /\ calls' \in 0..MaxCalls
    BY <2>2, <2>4 DEF mbVars
  <2>5. ASSUME NEW c \in Cpus, XferStep(c) PROVE MembusTypeOK' /\ BusInv'
    BY <2>5, WindowStep, BurstStep, IoLockStep DEF XferStep
  <2> QED BY <2>1, <2>3, <2>4, <2>5, DoXferStep, IoLockStep, UserAccessStep
          DEF MembusNext, mvars
<1>3. MembusTypeOK /\ BusInv => MembusTypeOK /\ MembusMovesItsData
  BY DEF BusInv
<1> QED BY MembusKeepsBanksSafe, <1>1, <1>2, <1>3, PTL DEF MembusSpec
===============================================================================
