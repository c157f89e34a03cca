------------------------------ MODULE BifrostRegs ------------------------------
(***************************************************************************)
(* Access to the FPGA registers of the bifrost driver.  User calls         *)
(* (do_read_regb, do_write_regb, do_modify_regb in bifrost_cdev.c) and the *)
(* DMA engine's bifrost_dma_chan_start (bifrost_pci.c) share the spin lock *)
(* of a register bank.  The latter runs in user calls and in the DMA       *)
(* interrupt handler, which interrupts the task on its CPU unless the task *)
(* has disabled interrupts.                                                *)
(*                                                                         *)
(* Each bank has one user register, a set of bits, and the DMA registers.  *)
(***************************************************************************)
EXTENDS Integers, FiniteSets

CONSTANTS Cpus,     \* CPUs; one task on each
          NULL,
          Platforms, \* the platforms to consider
          Bits,     \* bits of a user register
          PciBars,  \* BARs that a PCIe platform maps into memory
          Size,     \* mem->size, in bytes
          Offsets,  \* offsets users ask for
          MaxIrqs   \* bound: DMA interrupts

Bars == 0..5

\* The contexts of a CPU: its task, and the interrupt handler.
Ctxs == Cpus \X {"task", "irq"}

ASSUME RegsAssumption ==
    /\ NULL \notin Cpus \union Ctxs /\ PciBars \subseteq Bars /\ MaxIrqs \in Nat
    /\ Size \in Nat \ {0} /\ Offsets \subseteq Nat
    /\ Platforms \subseteq {"rocky", "evander", "pci", "membus"}

VARIABLES
    plat,    \* "rocky", "evander" (also eoco, ec702), "pci", "membus"
    lock,    \* per bank: the context that holds mem->lock, or NULL
    pc, op,  \* per context: where it is, and the arguments of its call
    irqsOff, \* per CPU: interrupts disabled by spin_lock_irqsave
    reg,     \* per bank: the user register
    want,    \* per bank: the register, had every update been atomic (ghost)
    chanReg, \* DMA channel select register of the DMA bank
    irqs     \* interrupts so far

vars == <<plat, lock, pc, op, irqsOff, reg, want, chanReg, irqs>>

\* platform_fvd
PlatformFvd == plat \in {"rocky", "evander"}

\* The BAR with the DMA registers, chosen by bifrost_dma_init.
DmaBar == CASE plat = "rocky"   -> 3
            [] plat = "evander" -> 2
            [] OTHER            -> 0

\* user_space_bar_access, _fvd and _membus of check_bar_access
UserAccess(bar) ==
    CASE PlatformFvd     -> IF bar \in {0, 1, 3} THEN {"RD", "WR", "EV"} ELSE {}
      [] plat = "membus" -> IF bar \in {0, 1} THEN {"RD", "WR", "EV"} ELSE {}
      [] OTHER           -> IF bar = 0 THEN {"RD", "EV"} ELSE {"RD", "WR", "EV"}

\* The memory bus has two chip selects.
Enabled == IF plat = "membus" THEN {0, 1} ELSE PciBars

\* check_bar_access: 0 or an error.
CheckBarAccessAnyBar(bar, access, offset) == bar \in Enabled /\ offset < Size

CheckBarAccess(bar, access, offset) ==
    /\ bar \in Bars
    /\ bar \in Enabled
    /\ access \subseteq UserAccess(bar)
    /\ offset < Size

\* The bytes that rd and wr touch: membus_read/write_device_memory for all banks
\* on the memory bus and for BAR0 when platform_fvd, else read/write_device_memory.
Touched(bar, offset) ==
    IF plat = "membus" \/ (PlatformFvd /\ bar = 0)
    THEN 2 * offset .. 2 * offset + 1
    ELSE offset .. offset + 3

NoOp == [name |-> "none", bar |-> 0, offset |-> 0, clear |-> {}, set |-> {}, v |-> {}]

Init ==
    /\ plat \in Platforms
    /\ lock = [b \in Bars |-> NULL]
    /\ pc = [x \in Ctxs |-> "idle"] /\ op = [x \in Ctxs |-> NoOp]
    /\ irqsOff = [c \in Cpus |-> FALSE]
    /\ reg = [b \in Bars |-> {}] /\ want = [b \in Bars |-> {}]
    /\ chanReg = NULL /\ irqs = 0

\* A task runs only while its CPU is not in an interrupt handler.
Runs(x) == x[2] = "irq" \/ pc[<<x[1], "irq">>] = "idle"

Goto(x, l) == pc' = [pc EXCEPT ![x] = l]

-------------------------------------------------------------------------------
(* The user calls *)

Needs(name) == CASE name = "read"   -> {"RD"}
                 [] name = "write"  -> {"WR"}
                 [] name = "modify" -> {"RD", "WR"}

\* A call passes check_bar_access, or ends with an error (no step).
Call(c, name, bar, offset, clear, set) ==
    LET x == <<c, "task">>
    IN  /\ pc[x] = "idle" /\ Runs(x)
        /\ CheckBarAccess(bar, Needs(name), offset)
        /\ op' = [op EXCEPT ![x] = [name |-> name, bar |-> bar, offset |-> offset,
                                    clear |-> clear, set |-> set, v |-> {}]]
        /\ Goto(x, "lock")
        /\ UNCHANGED <<plat, lock, irqsOff, reg, want, chanReg, irqs>>

\* spin_lock(&mem->lock): interrupts stay enabled.
LockFree(b) == lock[b] = NULL

SpinLockForgotten(x) ==
    /\ pc[x] = "lock" /\ Runs(x)
    /\ Goto(x, IF op[x].name = "write" THEN "wr" ELSE "rd")
    /\ UNCHANGED <<plat, lock, op, irqsOff, reg, want, chanReg, irqs>>

SpinLock(x) ==
    /\ pc[x] = "lock" /\ Runs(x) /\ LockFree(op[x].bar)
    /\ lock' = [lock EXCEPT ![op[x].bar] = x]
    /\ Goto(x, IF op[x].name = "write" THEN "wr" ELSE "rd")
    /\ UNCHANGED <<plat, op, irqsOff, reg, want, chanReg, irqs>>

\* mem->rd
Rd(x) ==
    /\ pc[x] = "rd" /\ Runs(x)
    /\ op' = [op EXCEPT ![x].v = reg[op[x].bar]]
    /\ Goto(x, IF op[x].name = "modify" THEN "wr" ELSE "unlock")
    /\ UNCHANGED <<plat, lock, irqsOff, reg, want, chanReg, irqs>>

\* mem->wr of the value given, or of the value read with bits cleared and set.
Wr(x) ==
    /\ pc[x] = "wr" /\ Runs(x)
    /\ LET o == op[x]
           Update(v) == IF o.name = "write" THEN o.set ELSE (v \ o.clear) \union o.set
       IN  /\ reg' = [reg EXCEPT ![o.bar] = Update(o.v)]
           /\ want' = [want EXCEPT ![o.bar] = Update(@)]
    /\ Goto(x, "unlock")
    /\ UNCHANGED <<plat, lock, op, irqsOff, chanReg, irqs>>

SpinUnlock(x) ==
    /\ pc[x] = "unlock" /\ Runs(x)
    /\ lock' = [lock EXCEPT ![op[x].bar] = NULL]
    /\ op' = [op EXCEPT ![x] = NoOp]
    /\ Goto(x, "idle")
    /\ UNCHANGED <<plat, irqsOff, reg, want, chanReg, irqs>>

-------------------------------------------------------------------------------
(* bifrost_dma_chan_start *)

\* START_DMA from a task.  (There is no DMA engine on a memory bus.)
StartDma(c) ==
    LET x == <<c, "task">>
    IN  /\ plat # "membus"
        /\ pc[x] = "idle" /\ Runs(x)
        /\ Goto(x, "dmaLock")
        /\ irqsOff' = [irqsOff EXCEPT ![c] = TRUE]
        /\ UNCHANGED <<plat, lock, op, reg, want, chanReg, irqs>>

\* dma_msi_handler finds a request waiting and starts it.
Irq(c) ==
    LET x == <<c, "irq">>
    IN  /\ plat # "membus" /\ irqs < MaxIrqs
        /\ pc[x] = "idle" /\ ~irqsOff[c]
        /\ Goto(x, "dmaLock")
        /\ irqs' = irqs + 1
        /\ UNCHANGED <<plat, lock, op, irqsOff, reg, want, chanReg>>

DmaLockForgotten(x) ==
    /\ pc[x] = "dmaLock" /\ Runs(x)
    /\ Goto(x, "dmaSelect")
    /\ UNCHANGED <<plat, lock, op, irqsOff, reg, want, chanReg, irqs>>

DmaLock(x) ==
    /\ pc[x] = "dmaLock" /\ Runs(x) /\ LockFree(DmaBar)
    /\ lock' = [lock EXCEPT ![DmaBar] = x]
    /\ Goto(x, "dmaSelect")
    /\ UNCHANGED <<plat, op, irqsOff, reg, want, chanReg, irqs>>

\* Select the channel, then program and start what is selected.
DmaSelect(x) ==
    /\ pc[x] = "dmaSelect" /\ Runs(x)
    /\ chanReg' = x
    /\ Goto(x, "dmaStart")
    /\ UNCHANGED <<plat, lock, op, irqsOff, reg, want, irqs>>

DmaStart(x) ==
    /\ pc[x] = "dmaStart" /\ Runs(x)
    /\ Goto(x, "dmaUnlock")
    /\ UNCHANGED <<plat, lock, op, irqsOff, reg, want, chanReg, irqs>>

\* spin_unlock_irqrestore
DmaUnlock(x) ==
    /\ pc[x] = "dmaUnlock" /\ Runs(x)
    /\ lock' = [lock EXCEPT ![DmaBar] = NULL]
    /\ irqsOff' = IF x[2] = "task" THEN [irqsOff EXCEPT ![x[1]] = FALSE] ELSE irqsOff
    /\ Goto(x, "idle")
    /\ UNCHANGED <<plat, op, reg, want, chanReg, irqs>>

-------------------------------------------------------------------------------
UserCall(c) ==
    \E bar \in 0..6, o \in Offsets, s \in SUBSET Bits :
      \/ Call(c, "read", bar, o, {}, {})
      \/ Call(c, "write", bar, o, {}, s)
      \/ \E cl \in SUBSET Bits : Call(c, "modify", bar, o, cl, s)

Acquire(x) == SpinLock(x) \/ DmaLock(x)
DmaStep(x) == DmaSelect(x) \/ DmaStart(x) \/ DmaUnlock(x)

Next ==
    \/ \E c \in Cpus : UserCall(c) \/ StartDma(c) \/ Irq(c)
    \/ \E x \in Ctxs : Acquire(x) \/ Rd(x) \/ Wr(x) \/ SpinUnlock(x) \/ DmaStep(x)

Spec == Init /\ [][Next]_vars

-------------------------------------------------------------------------------
(* Properties *)

\* Every variable stays in its type.
TypeOK ==
    /\ plat \in Platforms
    /\ lock \in [Bars -> Ctxs \union {NULL}]
    /\ pc \in [Ctxs -> {"idle", "lock", "rd", "wr", "unlock", "dmaLock", "dmaSelect",
                        "dmaStart", "dmaUnlock"}]
    /\ op \in [Ctxs -> [name : {"none", "read", "write", "modify"}, bar : Bars,
                        offset : 0..(Size - 1), clear : SUBSET Bits,
                        set : SUBSET Bits, v : SUBSET Bits]]
    /\ irqsOff \in [Cpus -> BOOLEAN]
    /\ reg \in [Bars -> SUBSET Bits] /\ want \in [Bars -> SUBSET Bits]
    /\ chanReg \in Ctxs \union {NULL}
    /\ irqs \in 0..MaxIrqs

\* do_modify_regb never loses an update that another CPU makes between its read
\* and its write.
AtomicModify == reg = want

\* Two programming sequences of the DMA registers never mix: START takes effect
\* on the channel that its own sequence selected.
StartsWhatItSelected == \A x \in Ctxs : pc[x] = "dmaStart" => chanReg = x

\* "these registers are only accessed from user-space and never from ISRs etc. so
\* a spin_lock/unlock should be enough" (bifrost_cdev.c:530): an interrupt handler
\* never waits for a lock that the task it interrupted holds.
SpinLockIsEnough ==
    \A c \in Cpus : pc[<<c, "irq">>] = "dmaLock" => lock[DmaBar] # <<c, "task">>

\* The check "Offset is out-of-range" (bifrost_cdev.c:507) of check_bar_access: a
\* user call touches only bytes of the mapped bank.
InsideBank ==
    \A x \in Ctxs : pc[x] \in {"rd", "wr"} =>
      Touched(op[x].bar, op[x].offset) \subseteq 0..(Size - 1)
===============================================================================
