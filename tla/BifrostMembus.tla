----------------------------- MODULE BifrostMembus -----------------------------
(***************************************************************************)
(* Transfers between user memory and the SDRAM of the FPGA over the memory *)
(* bus: the branch bifrost->membus of bifrost_do_xfer (bifrost_cdev.c) and *)
(* do_membus_xfer, WriteSDRAM, ReadSDRAM (bifrost_membus.c).  A transfer   *)
(* programs a window with three register writes, then moves its data       *)
(* through one data port.  Transfers exclude each other with the mutex     *)
(* iolock; the user calls of BifrostRegs reach the same registers under    *)
(* the spin lock only.                                                     *)
(*                                                                         *)
(* A byte of data is the pair of who gave it and the SDRAM byte it is      *)
(* meant for.                                                              *)
(***************************************************************************)
EXTENDS BifrostRegs

CONSTANTS LoSize, HiSize, \* SDRAM bytes per value of register 1, and its values
                          \* (2^16 and 2^15 in the code)
          Xfers,          \* the transfers users ask for
          MaxCalls        \* bound: register calls on the memory bus

SdramSize == LoSize * HiSize
Sdram == 0..(SdramSize - 1)

ASSUME MembusAssumption ==
    /\ LoSize \in Nat \ {0} /\ LoSize % 2 = 0 /\ HiSize \in Nat \ {0} /\ MaxCalls \in Nat
    /\ Xfers \subseteq {x \in [dir : {"UP", "DOWN"}, device : Sdram, size : 0..SdramSize] :
                          x.device + x.size <= SdramSize}

VARIABLES
    iolock,   \* the CPU whose task holds regb[0].iolock, or NULL
    mpc,      \* per CPU: where its task is in bifrost_do_xfer
    xfer,     \* per CPU: the transfer
    buf,      \* per CPU: the kernel buffer
    win,      \* registers 0 and 1 of BAR0: address and direction
    port,     \* the SDRAM byte the data port (BAR1) accesses next
    sdram,    \* the bytes of the SDRAM
    faulted,  \* CPUs whose copy_from_user failed
    disturbed,\* ghost: CPUs in whose transfer a user accessed window or port
    calls     \* register calls on the memory bus so far

busVars == <<iolock, mpc, xfer, buf, win, port, sdram, faulted, disturbed>>
mbVars  == <<busVars, calls>>
mvars   == <<vars, mbVars>>

\* kcalloc; what a register write of a user puts through the port
Zero == <<NULL, 0>>

\* FPGA_ADDR_LO ("Do not allow odd addresses"), FPGA_ADDR_HI
AddrLo(a) == 2 * ((a % LoSize) \div 2)
AddrHi(a) == (a \div LoSize) % HiSize

\* The bytes that ioread16_rep and iowrite16_rep move, from the first.
Moved(n) == 0..(2 * (n \div 2) - 1)

NoXfer == [dir |-> "UP", device |-> 0, size |-> 0]

MembusInit ==
    /\ Init
    /\ iolock = NULL
    /\ mpc = [c \in Cpus |-> "idle"]
    /\ xfer = [c \in Cpus |-> NoXfer]
    /\ buf = [c \in Cpus |-> <<>>]
    /\ win = [lo |-> 0, hi |-> 0, dir |-> "UP"] /\ port = 0
    /\ sdram = [b \in Sdram |-> <<NULL, b>>]
    /\ faulted = {} /\ disturbed = {} /\ calls = 0

-------------------------------------------------------------------------------
(* The window in the FPGA: "SDRAM WR/RD-bit must be toggled to trig" an access   *)
(* (bifrost_membus.c:306), at the address the two registers hold then.           *)

WriteReg0(lo) == win' = [win EXCEPT !.lo = lo] /\ UNCHANGED port

WriteReg1(hi, dir) ==
    /\ win' = [win EXCEPT !.hi = hi, !.dir = dir]
    /\ port' = IF dir # win.dir THEN LoSize * hi + win.lo ELSE port

Other(dir) == IF dir = "UP" THEN "DOWN" ELSE "UP"

-------------------------------------------------------------------------------
(* User calls of BifrostRegs that reach window or port *)

Disturb == disturbed' = IF iolock = NULL THEN disturbed ELSE disturbed \union {iolock}

InWindow(x) == plat = "membus" /\ op[x].bar = 0 /\ op[x].offset \in {0, 1}
InPort(x)   == plat = "membus" /\ op[x].bar = 1

\* The values of a user address byte 0; their bit is the direction.
UserWindow(x) ==
    /\ InWindow(x) /\ Disturb
    /\ IF op[x].offset = 0 THEN WriteReg0(0)
       ELSE WriteReg1(0, IF reg'[0] = {} THEN "UP" ELSE "DOWN")
    /\ UNCHANGED sdram

UserPort(x) ==
    /\ InPort(x) /\ Disturb
    /\ port' = (port + 2) % SdramSize
    /\ sdram' = [b \in Sdram |->
                   IF b \in {port, port + 1} /\ win.dir = "DOWN" /\ pc[x] = "wr"
                   THEN Zero ELSE sdram[b]]
    /\ UNCHANGED win

UserRd(x) ==
    /\ Rd(x)
    /\ UserPort(x) \/ (~InPort(x) /\ UNCHANGED <<win, port, sdram, disturbed>>)
    /\ UNCHANGED <<iolock, mpc, xfer, buf, faulted, calls>>

UserWr(x) ==
    /\ Wr(x)
    /\ \/ UserWindow(x) \/ UserPort(x)
       \/ ~InWindow(x) /\ ~InPort(x) /\ UNCHANGED <<win, port, sdram, disturbed>>
    /\ UNCHANGED <<iolock, mpc, xfer, buf, faulted, calls>>

-------------------------------------------------------------------------------
(* bifrost_do_xfer *)

Step(c, from, to) ==
    /\ mpc[c] = from /\ mpc' = [mpc EXCEPT ![c] = to]
    /\ UNCHANGED <<vars, calls>>

\* kcalloc (or -ENOMEM, no step), and copy_from_user for a transfer down.  What
\* it could not copy stays zero, and the call goes on: its result is never < 0.
DoXfer(c, x) ==
    /\ plat = "membus" /\ pc[<<c, "task">>] = "idle"
    /\ Step(c, "idle", "iolock")
    /\ xfer' = [xfer EXCEPT ![c] = x]
    /\ \E fault \in BOOLEAN :
         /\ buf' = [buf EXCEPT ![c] = [i \in 0..(x.size - 1) |->
                      IF x.dir = "DOWN" /\ ~fault THEN <<c, x.device + i>> ELSE Zero]]
         /\ fault => x.dir = "DOWN"
         /\ faulted' = IF fault THEN faulted \union {c} ELSE faulted
    /\ UNCHANGED <<iolock, win, port, sdram, disturbed>>

IoLockForgotten(c) ==
    /\ Step(c, "iolock", "toggle")
    /\ UNCHANGED <<iolock, xfer, buf, win, port, sdram, faulted, disturbed>>

IoLock(c) ==
    /\ Step(c, "iolock", "toggle") /\ iolock = NULL /\ iolock' = c
    /\ UNCHANGED <<xfer, buf, win, port, sdram, faulted, disturbed>>

\* WriteSDRAM, ReadSDRAM: the other direction first ...
Toggle(c) ==
    /\ Step(c, "toggle", "lo") /\ WriteReg1(0, Other(xfer[c].dir))
    /\ UNCHANGED <<iolock, xfer, buf, sdram, faulted, disturbed>>

\* ... then the low half of the address, and the high half with the direction ...
SetLo(c) ==
    /\ Step(c, "lo", "hi") /\ WriteReg0(AddrLo(xfer[c].device))
    /\ UNCHANGED <<iolock, xfer, buf, sdram, faulted, disturbed>>

SetHi(c) ==
    /\ Step(c, "hi", "burst") /\ WriteReg1(AddrHi(xfer[c].device), xfer[c].dir)
    /\ UNCHANGED <<iolock, xfer, buf, sdram, faulted, disturbed>>

\* ... and all the data.  Against the direction of the port nothing is moved.
Burst(c) ==
    LET x == xfer[c]
        moved == IF win.dir = x.dir THEN Moved(x.size) ELSE {}
        At(i) == (port + i) % SdramSize
    IN  /\ Step(c, "burst", "iounlock")
        /\ IF x.dir = "DOWN"
           THEN /\ sdram' = [b \in Sdram |-> IF \E i \in moved : At(i) = b
                                             THEN buf[c][CHOOSE i \in moved : At(i) = b]
                                             ELSE sdram[b]]
                /\ UNCHANGED buf
           ELSE /\ buf' = [buf EXCEPT ![c] = [i \in DOMAIN @ |->
                                                IF i \in moved THEN sdram[At(i)] ELSE @[i]]]
                /\ UNCHANGED sdram
        /\ port' = (port + 2 * (x.size \div 2)) % SdramSize
        /\ UNCHANGED <<iolock, xfer, win, faulted, disturbed>>

IoUnlock(c) ==
    /\ Step(c, "iounlock", "return") /\ iolock' = NULL
    /\ UNCHANGED <<xfer, buf, win, port, sdram, faulted, disturbed>>

\* copy_to_user for a transfer up (what it could not copy is returned, as a
\* positive number), kfree.
XferReturn(c) ==
    /\ Step(c, "return", "idle")
    /\ buf' = [buf EXCEPT ![c] = <<>>] /\ xfer' = [xfer EXCEPT ![c] = NoXfer]
    /\ faulted' = faulted \ {c} /\ disturbed' = disturbed \ {c}
    /\ UNCHANGED <<iolock, win, port, sdram>>

XferStep(c) ==
    Toggle(c) \/ SetLo(c) \/ SetHi(c) \/ Burst(c) \/ IoUnlock(c) \/ XferReturn(c)

-------------------------------------------------------------------------------
MembusNext ==
    \/ \E c \in Cpus :
         \/ /\ mpc[c] = "idle" /\ UserCall(c)
            /\ IF plat = "membus" THEN calls < MaxCalls /\ calls' = calls + 1
                                  ELSE UNCHANGED calls
            /\ UNCHANGED busVars
         \/ mpc[c] = "idle" /\ StartDma(c) /\ UNCHANGED mbVars
         \/ Irq(c) /\ UNCHANGED mbVars
         \/ \E x \in Xfers : DoXfer(c, x)
         \/ IoLock(c) \/ XferStep(c)
    \/ \E x \in Ctxs :
         \/ (Acquire(x) \/ SpinUnlock(x) \/ DmaStep(x)) /\ UNCHANGED mbVars
         \/ UserRd(x) \/ UserWr(x)

MembusSpec == MembusInit /\ [][MembusNext]_mvars

-------------------------------------------------------------------------------
(* Properties *)

\* Every variable stays in its type.
MembusTypeOK ==
    /\ TypeOK
    /\ iolock \in Cpus \union {NULL} /\ xfer \in [Cpus -> Xfers \union {NoXfer}]
    /\ mpc \in [Cpus -> {"idle", "iolock", "toggle", "lo", "hi", "burst", "iounlock",
                         "return"}]
    /\ \A c \in Cpus : \A i \in DOMAIN buf[c] : buf[c][i] \in (Cpus \union {NULL}) \X Sdram
    /\ win \in [lo : 0..(LoSize - 1), hi : 0..(HiSize - 1), dir : {"UP", "DOWN"}]
    /\ port \in Sdram /\ sdram \in [Sdram -> (Cpus \union {NULL}) \X Sdram]
    /\ faulted \subseteq Cpus /\ disturbed \subseteq Cpus /\ calls \in 0..MaxCalls

\* The buffer of a transfer and the SDRAM it names are equal once it is done.
Agrees(c) ==
    \A i \in 0..(xfer[c].size - 1) : buf[c][i] = sdram[xfer[c].device + i]

Even(x) == x.device % 2 = 0 /\ x.size % 2 = 0

\* The buffers of transfers, and the interleaving of WriteSDRAM, ReadSDRAM and user
\* calls: a transfer of whole words during which no user touches the window or the
\* port moves its bytes from and to the SDRAM bytes it names, whatever the window
\* was set to before it and however transfers and register calls interleave.
MembusMovesItsData ==
    \A c \in Cpus \ disturbed :
      mpc[c] = "iounlock" /\ Even(xfer[c]) => Agrees(c)

\* The same without the conditions; both are needed.
MembusMovesAll == \A c \in Cpus : mpc[c] = "iounlock" => Agrees(c)

\* bifrost_do_xfer returns 0 for a transfer down only if it had the user's data.
MembusSuccessHasData ==
    \A c \in Cpus : mpc[c] = "return" /\ xfer[c].dir = "DOWN" => c \notin faulted
===============================================================================
