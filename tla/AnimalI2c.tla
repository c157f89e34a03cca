------------------------------- MODULE AnimalI2c -------------------------------
(***************************************************************************)
(* The animal-i2c character device of i2c_main.c: user handles, each with  *)
(* an adapter and possibly a GPIO pin that selects the chip, and transfers *)
(* that raise the pin under a per adapter lock.  The module is loaded with  *)
(* the adapters that happen to exist, and unloaded.                        *)
(*                                                                         *)
(* A thread works on one open file.  The fields of a handle are read where *)
(* the code reads them: once to lock, again for the pin, for the bus and   *)
(* to unlock.                                                              *)
(***************************************************************************)
EXTENDS Integers, FiniteSets

CONSTANTS Threads, Handles,
          HandleOf,      \* the open file a thread works on
          NAdapters,     \* module parameter adapters
          Valid,         \* the pins gpio_is_valid accepts
          Asked,         \* what users pass to SET_GPIO
          DirectionFails,\* gpio_direction_output may fail
          NoThread, NoHandle

ASSUME I2cAssumption ==
    /\ HandleOf \in [Threads -> Handles]
    /\ NAdapters \in Nat \ {0} /\ Valid \subseteq Nat /\ Asked \subseteq Int
    /\ DirectionFails \in BOOLEAN
    /\ NoThread \notin Threads /\ NoHandle \notin Handles

NoPin == -1
Adapters == 0..(NAdapters - 1)

VARIABLES
    mod, held,             \* where animal_init is, and what the module has acquired
    installed,             \* the adapters it has a reference to
    leaked,                \* ghost: an open failed and kept its handle, since the last load
    opened, gpio, adapter, \* per handle: struct animal_user_handle
    owner, level,          \* per pin: the handle that requested it, its output
    lock,                  \* per adapter: the holder of gpio_lock
    pc, lk, bus, tmp       \* per thread: where it is, the lock and the bus it
                           \* took, the argument of SET_GPIO

hndVars == <<opened, gpio, adapter>>
pinVars == <<owner, level>>
thrVars == <<pc, lk, bus, tmp>>
modVars == <<mod, held, installed, leaked>>
vars == <<modVars, hndVars, pinVars, lock, thrVars>>

Init ==
    /\ opened = [h \in Handles |-> FALSE] /\ gpio = [h \in Handles |-> NoPin]
    /\ mod = "out" /\ held = {} /\ installed = {} /\ leaked = FALSE
    /\ adapter = [h \in Handles |-> 0]
    /\ owner = [g \in Valid |-> NoHandle] /\ level = [g \in Valid |-> 0]
    /\ lock = [a \in Adapters |-> NoThread]
    /\ pc = [t \in Threads |-> "idle"] /\ tmp = [t \in Threads |-> NoPin]
    /\ lk = [t \in Threads |-> 0] /\ bus = [t \in Threads |-> 0]

-------------------------------------------------------------------------------
(* animal_init and animal_exit *)

\* What is acquired at a step of animal_init, the step that follows, and the label
\* animal_init jumps to if the step fails.
Acquires == [out |-> "dev", alloc |-> "adapters", driver |-> "driver",
             region |-> "region", cdev |-> "cdev"]
Following == [out |-> "alloc", alloc |-> "install", driver |-> "region",
              region |-> "cdev", cdev |-> "live"]
ErrLabelOff == [out |-> "out", alloc |-> "err_alloc_adapter", install |-> "err_get_adapter",
                driver |-> "err_alloc_adapter", region |-> "err_chrdev",
                cdev |-> "err_cdev_add"]
ErrLabel == [out |-> "out", alloc |-> "err_alloc_adapter", install |-> "err_get_adapter",
             driver |-> "err_get_adapter", region |-> "err_chrdev",
             cdev |-> "err_cdev_add"]

InitStep ==
    /\ mod \in DOMAIN Acquires
    /\ \/ held' = held \union {Acquires[mod]} /\ mod' = Following[mod]
       \/ UNCHANGED held /\ mod' = ErrLabel[mod]
    /\ UNCHANGED <<installed, leaked, hndVars, pinVars, lock, thrVars>>

\* install_adapters: those that exist, possibly none.  In simulator mode one adapter
\* stands for all, and it fails without the number of that adapter.
InstallAdapters ==
    /\ mod = "install"
    /\ \/ installed' \in SUBSET Adapters /\ mod' = "driver"
       \/ UNCHANGED installed /\ mod' = ErrLabel[mod]
    /\ lock' = [a \in Adapters |-> NoThread]
    /\ UNCHANGED <<held, leaked, hndVars, pinVars, thrVars>>

\* "stack-like clean up on error"
Releases == [err_cdev_add |-> {"region"}, err_chrdev |-> {"driver"},
             err_get_adapter |-> {"adapters"}, err_alloc_adapter |-> {"dev"}]
FallsTo == [err_cdev_add |-> "err_chrdev", err_chrdev |-> "err_get_adapter",
            err_get_adapter |-> "err_alloc_adapter", err_alloc_adapter |-> "out"]

CleanUp ==
    /\ mod \in DOMAIN Releases
    /\ held' = held \ Releases[mod] /\ mod' = FallsTo[mod]
    /\ installed' = IF mod = "err_get_adapter" THEN {} ELSE installed
    /\ UNCHANGED <<leaked, hndVars, pinVars, lock, thrVars>>

\* animal_exit: only when no file is open, and then no file can be opened.
InUse == \E h \in Handles : opened[h]

Exit ==
    /\ mod = "live" /\ ~InUse
    /\ mod' = "out" /\ held' = {} /\ installed' = {} /\ leaked' = FALSE
    /\ UNCHANGED <<hndVars, pinVars, lock, thrVars>>

-------------------------------------------------------------------------------
(* open and close *)

Goto(t, from, to) == pc[t] = from /\ pc' = [pc EXCEPT ![t] = to]

\* Nobody is inside a call on handle h: the file stays referenced in a call.
Quiet(h) == \A t \in Threads : HandleOf[t] = h => pc[t] = "idle"

\* open: the first installed adapter is the default.
FirstInstalled == CHOOSE a \in installed : \A b \in installed : a <= b

Open(h) ==
    /\ mod = "live" /\ ~opened[h] /\ installed # {}
    /\ opened' = [opened EXCEPT ![h] = TRUE]
    /\ adapter' = [adapter EXCEPT ![h] = FirstInstalled]
    /\ UNCHANGED <<modVars, gpio, pinVars, lock, thrVars>>

\* No adapter: -EFAULT, and the new handle is not freed.
OpenFails(h) ==
    /\ mod = "live" /\ ~opened[h] /\ installed = {} /\ leaked' = TRUE
    /\ UNCHANGED <<mod, held, installed, hndVars, pinVars, lock, thrVars>>

\* gpio_free, as the kernel does it: whoever requested the pin, it is free.
GpioFree(g) == owner' = [x \in Valid |-> IF x = g THEN NoHandle ELSE owner[x]]

\* gpio_set_value
GpioSet(g, v) == level' = [x \in Valid |-> IF x = g THEN v ELSE level[x]]

Release(h) ==
    /\ opened[h] /\ Quiet(h)
    /\ GpioFree(gpio[h])
    /\ opened' = [opened EXCEPT ![h] = FALSE]
    /\ gpio' = [gpio EXCEPT ![h] = NoPin] /\ adapter' = [adapter EXCEPT ![h] = 0]
    /\ UNCHANGED <<modVars, level, lock, thrVars>>

-------------------------------------------------------------------------------
(* ioctl SET_ADAPTER and SET_GPIO *)

AdapterOk(a) == a \in Adapters /\ a \in installed

SetAdapter(t, a) ==
    /\ opened[HandleOf[t]] /\ pc[t] = "idle" /\ AdapterOk(a)
    /\ adapter' = [adapter EXCEPT ![HandleOf[t]] = a]
    /\ UNCHANGED <<modVars, opened, gpio, pinVars, lock, thrVars>>

\* A new pin: the old one is freed first.  A negative argument stops here, and
\* the handle keeps the number of the pin.
SetGpio(t, g) ==
    LET h == HandleOf[t]
    IN  /\ opened[h] /\ pc[t] = "idle" /\ g # gpio[h]
        /\ GpioFree(gpio[h])
        /\ tmp' = [tmp EXCEPT ![t] = IF g >= 0 THEN g ELSE NoPin]
        /\ pc' = [pc EXCEPT ![t] = IF g >= 0 THEN "gpio" ELSE "idle"]
        /\ UNCHANGED <<modVars, hndVars, level, lock, lk, bus>>

\* animal_gpio_init.  An invalid pin makes it return what is_valid did: 0.
GpioInitInvalid(t) ==
    /\ Goto(t, "gpio", "idle") /\ tmp[t] \notin Valid
    /\ gpio' = [gpio EXCEPT ![HandleOf[t]] = tmp[t]]
    /\ tmp' = [tmp EXCEPT ![t] = NoPin]
    /\ UNCHANGED <<modVars, opened, adapter, pinVars, lock, lk, bus>>

\* gpio_request grants a pin to one requester.
Requestable(g) == owner[g] = NoHandle

GpioInitOk(t) ==
    /\ Goto(t, "gpio", "idle") /\ tmp[t] \in Valid /\ Requestable(tmp[t])
    /\ owner' = [owner EXCEPT ![tmp[t]] = HandleOf[t]]
    /\ GpioSet(tmp[t], 0)
    /\ gpio' = [gpio EXCEPT ![HandleOf[t]] = tmp[t]]
    /\ tmp' = [tmp EXCEPT ![t] = NoPin]
    /\ UNCHANGED <<modVars, opened, adapter, lock, lk, bus>>

\* request fails, or the direction does: then the request is not taken back.
GpioInitFails(t) ==
    /\ Goto(t, "gpio", "idle") /\ tmp[t] \in Valid
    /\ \/ ~Requestable(tmp[t]) /\ UNCHANGED owner
       \/ /\ DirectionFails /\ Requestable(tmp[t])
          /\ owner' = [owner EXCEPT ![tmp[t]] = HandleOf[t]]
    /\ gpio' = [gpio EXCEPT ![HandleOf[t]] = NoPin]
    /\ tmp' = [tmp EXCEPT ![t] = NoPin]
    /\ UNCHANGED <<modVars, opened, adapter, level, lock, lk, bus>>

-------------------------------------------------------------------------------
(* A transfer: any of the SMB_ and I2C_ commands *)

\* animal_i2c_xfer_begin: mutex_lock(&hnd->animal_adapter->gpio_lock) ...
Begin(t) ==
    /\ opened[HandleOf[t]] /\ Goto(t, "idle", "lock")
    /\ lk' = [lk EXCEPT ![t] = adapter[HandleOf[t]]]
    /\ UNCHANGED <<modVars, hndVars, pinVars, lock, bus, tmp>>

LockFree(a) == lock[a] = NoThread

LockForgotten(t) ==
    /\ Goto(t, "lock", "select")
    /\ UNCHANGED <<modVars, hndVars, pinVars, lock, lk, bus, tmp>>

Lock(t) ==
    /\ Goto(t, "lock", "select") /\ LockFree(lk[t])
    /\ lock' = [lock EXCEPT ![lk[t]] = t]
    /\ UNCHANGED <<modVars, hndVars, pinVars, lk, bus, tmp>>

\* ... and select the chip.
SelectForgotten(t) ==
    /\ Goto(t, "select", "call")
    /\ UNCHANGED <<modVars, hndVars, pinVars, lock, lk, bus, tmp>>

Select(t) ==
    /\ Goto(t, "select", "call") /\ GpioSet(gpio[HandleOf[t]], 1)
    /\ UNCHANGED <<modVars, hndVars, owner, lock, lk, bus, tmp>>

\* i2c_transfer, i2c_smbus_*: on hnd->client.adapter; they end, well or not.
BusStart(t) ==
    /\ Goto(t, "call", "xfer")
    /\ bus' = [bus EXCEPT ![t] = adapter[HandleOf[t]]]
    /\ UNCHANGED <<modVars, hndVars, pinVars, lock, lk, tmp>>

BusEnd(t) ==
    /\ Goto(t, "xfer", "deselect") /\ bus' = [bus EXCEPT ![t] = 0]
    /\ UNCHANGED <<modVars, hndVars, pinVars, lock, lk, tmp>>

\* animal_i2c_xfer_done: deselect the chip ...
Deselect(t) ==
    /\ Goto(t, "deselect", "unlock") /\ GpioSet(gpio[HandleOf[t]], 0)
    /\ UNCHANGED <<modVars, hndVars, owner, lock, lk, bus, tmp>>

\* ... then unlock the adapter the handle has now.
UnlockForgotten(t) ==
    /\ Goto(t, "unlock", "idle") /\ lk' = [lk EXCEPT ![t] = 0]
    /\ UNCHANGED <<modVars, hndVars, pinVars, lock, bus, tmp>>

Unlock(t) ==
    /\ Goto(t, "unlock", "idle") /\ lk' = [lk EXCEPT ![t] = 0]
    /\ lock' = [lock EXCEPT ![adapter[HandleOf[t]]] = NoThread]
    /\ UNCHANGED <<modVars, hndVars, pinVars, bus, tmp>>

-------------------------------------------------------------------------------
XferStep(t) == Select(t) \/ BusStart(t) \/ BusEnd(t) \/ Deselect(t) \/ Unlock(t)
GpioStep(t) == GpioInitInvalid(t) \/ GpioInitOk(t) \/ GpioInitFails(t)

Next ==
    \/ InitStep \/ InstallAdapters \/ CleanUp \/ Exit
    \/ \E h \in Handles : Open(h) \/ OpenFails(h) \/ Release(h)
    \/ \E t \in Threads :
         \/ \E a \in -1..NAdapters : SetAdapter(t, a)
         \/ \E g \in Asked : SetGpio(t, g)
         \/ GpioStep(t) \/ Begin(t) \/ Lock(t) \/ XferStep(t)

Spec == Init /\ [][Next]_vars

\* Kernel code runs, a bus transfer ends, and a mutex is granted to a waiter
\* (its waiters queue up in order).
FairSpec ==
    /\ Spec
    /\ \A t \in Threads : WF_vars(XferStep(t)) /\ SF_vars(Lock(t))

-------------------------------------------------------------------------------
(* Properties *)

Holding == {"select", "call", "xfer", "deselect", "unlock"}

\* Every variable stays in its type.
TypeOK ==
    /\ opened \in [Handles -> BOOLEAN] /\ gpio \in [Handles -> Int]
    /\ adapter \in [Handles -> Adapters]
    /\ mod \in DOMAIN Acquires \union DOMAIN Releases \union {"install", "live"}
    /\ held \subseteq {"dev", "adapters", "driver", "region", "cdev"}
    /\ installed \subseteq Adapters /\ leaked \in BOOLEAN
    /\ owner \in [Valid -> Handles \union {NoHandle}] /\ level \in [Valid -> {0, 1}]
    /\ lock \in [Adapters -> Threads \union {NoThread}]
    /\ pc \in [Threads -> {"idle", "gpio", "lock"} \union Holding]
    /\ lk \in [Threads -> Adapters] /\ bus \in [Threads -> Adapters]
    /\ tmp \in [Threads -> Int]

\* The per adapter lock is held from begin to done, by the thread that transfers
\* and on the bus it transfers on, and by nobody else.
LockHeldInTransfer ==
    /\ \A t \in Threads : pc[t] \in Holding => lock[lk[t]] = t
    /\ \A t \in Threads : pc[t] = "xfer" => bus[t] = lk[t]
    /\ \A a \in Adapters : lock[a] # NoThread => pc[lock[a]] \in Holding /\ lk[lock[a]] = a

\* Whatever fails in animal_init, and whoever still has the device open when the module
\* is removed: the module leaves nothing behind (its memory, the references to the
\* adapters, driver, region and device), and a handle only ever uses an adapter that
\* the module has a reference to.
ModuleOwnsWhatItUses ==
    /\ mod = "out" => held = {} /\ installed = {}
    /\ installed # {} => "adapters" \in held
    /\ \A h \in Handles : opened[h] => mod = "live" /\ adapter[h] \in installed

\* "ensure that there is no addressing collision" (i2c_main.c:160): while a thread
\* transfers, the pin of its handle is raised, and of the pins of the handles that
\* are set to this adapter no other.
OnlyAddressedChip ==
    \A t \in Threads : pc[t] = "xfer" =>
        LET g == gpio[HandleOf[t]]
        IN  /\ g \in Valid => level[g] = 1
            /\ \A x \in Valid :
                 level[x] = 1 /\ owner[x] # NoHandle /\ opened[owner[x]]
                    /\ adapter[owner[x]] = bus[t] => x = g

\* "After transfer is completed, GPIO chip select is released" (i2c_main.c:15): an
\* adapter nobody has locked has no chip selected.
UnlockedIsDeselected ==
    \A x \in Valid : level[x] = 1 =>
        \E t \in Threads : pc[t] \in Holding /\ gpio[HandleOf[t]] = x /\ lock[lk[t]] = t

\* No two handles select with the same pin: the pin of a handle is one that
\* gpio_request granted to it, also after failed requests.
OwnsItsPin ==
    \A h \in Handles : opened[h] /\ Quiet(h) /\ gpio[h] \in Valid =>
        owner[gpio[h]] = h

\* "close(), should clean up everything that the user has been messing with"
\* (i2c_main.c:518): a closed handle leaves no pin requested.  It holds only if
\* ~DirectionFails.
CloseCleansUp == \A h \in Handles, g \in Valid : owner[g] = h => opened[h]

\* animal_open, as every open that fails, leaves nothing behind.  It does not hold: with
\* no adapter installed the handle is lost.
OpenLeaksNothing == ~leaked

\* A transfer that is begun comes to its end, however often the other threads use
\* the adapter.
TransferEnds == \A t \in Threads : pc[t] = "lock" ~> pc[t] = "idle"
===============================================================================
