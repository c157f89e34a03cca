--------------------------- MODULE AnimalI2c_proofs ---------------------------
(***************************************************************************)
(* Proofs about animal-i2c, for any number of threads, files, adapters and *)
(* pins: loading and unloading leave nothing behind; and, when every       *)
(* thread works on its own file, the lock of an adapter keeps transfers    *)
(* and their chip selects apart.                                           *)
(***************************************************************************)
EXTENDS AnimalI2c, TLAPS, WellFoundedInduction

\* What the module has acquired when animal_init is at a step or a label.
HeldAt ==
    [out |-> {}, alloc |-> {"dev"}, install |-> {"dev", "adapters"},
     driver |-> {"dev", "adapters"}, region |-> {"dev", "adapters", "driver"},
     cdev |-> {"dev", "adapters", "driver", "region"},
     live |-> {"dev", "adapters", "driver", "region", "cdev"},
     err_cdev_add |-> {"dev", "adapters", "driver", "region"},
     err_chrdev |-> {"dev", "adapters", "driver"},
     err_get_adapter |-> {"dev", "adapters"}, err_alloc_adapter |-> {"dev"}]

\* The steps at which no adapter is installed yet, or none any more.
NoneInstalled == {"out", "alloc", "install", "err_alloc_adapter"}

ModuleInv ==
    /\ held = HeldAt[mod]
    /\ mod \in NoneInstalled => installed = {}
    /\ \A h \in Handles : opened[h] => mod = "live" /\ adapter[h] \in installed

\* Every thread works on a file of its own.
OwnFiles == \A t, u \in Threads : HandleOf[t] = HandleOf[u] => t = u

InTransfer == {"lock"} \union Holding

\* A call keeps its file open, and its adapter where it is.
CallKeepsFile ==
    \A t \in Threads : /\ pc[t] # "idle" => opened[HandleOf[t]]
                       /\ pc[t] \in InTransfer => lk[t] = adapter[HandleOf[t]]

LockInv == CallKeepsFile /\ LockHeldInTransfer

\* The threads that have their chip selected.
Selecting == {"call", "xfer", "deselect"}

\* Except in SET_GPIO, between gpio_free and gpio_request, a handle owns its pin.
OwnsPin ==
    \A h \in Handles :
      gpio[h] \in Valid /\ (\A t \in Threads : HandleOf[t] = h => pc[t] # "gpio")
        => owner[gpio[h]] = h

\* A pin is up exactly while a thread has selected the chip of its handle.
UpWhileSelected ==
    /\ \A t \in Threads : pc[t] \in Selecting /\ gpio[HandleOf[t]] \in Valid
         => level[gpio[HandleOf[t]]] = 1
    /\ \A x \in Valid : level[x] = 1 =>
         \E t \in Threads : pc[t] \in Selecting /\ gpio[HandleOf[t]] = x

-------------------------------------------------------------------------------
(* The module *)

Labels == {"out", "alloc", "driver", "region", "cdev", "install", "live",
           "err_cdev_add", "err_chrdev", "err_get_adapter", "err_alloc_adapter"}

\* The tables of animal_init name the labels.
LEMMA LabelsAreTables ==
    /\ DOMAIN Acquires = {"out", "alloc", "driver", "region", "cdev"}
    /\ DOMAIN Releases = {"err_cdev_add", "err_chrdev", "err_get_adapter", "err_alloc_adapter"}
    /\ DOMAIN Acquires \union DOMAIN Releases \union {"install", "live"} = Labels
BY DEF Acquires, Releases, Labels

\* One step of animal_init, or of its clean-up, keeps what is held in step with where it
\* is.
LEMMA TableStep ==
  ASSUME held = HeldAt[mod], InitStep \/ InstallAdapters \/ CleanUp
  PROVE  held' = HeldAt[mod'] /\ mod' \in Labels
<1>1. CASE InitStep
  <2>1. mod \in {"out", "alloc", "driver", "region", "cdev"}
    BY <1>1, LabelsAreTables DEF InitStep
  <2>2. CASE mod = "out"
    BY <1>1, <2>2 DEF InitStep, Acquires, Following, ErrLabel, HeldAt, Labels
  <2>3. CASE mod = "alloc"
    BY <1>1, <2>3 DEF InitStep, Acquires, Following, ErrLabel, HeldAt, Labels
  <2>4. CASE mod = "driver"
    BY <1>1, <2>4 DEF InitStep, Acquires, Following, ErrLabel, HeldAt, Labels
  <2>5. CASE mod = "region"
    BY <1>1, <2>5 DEF InitStep, Acquires, Following, ErrLabel, HeldAt, Labels
  <2>6. CASE mod = "cdev"
    BY <1>1, <2>6 DEF InitStep, Acquires, Following, ErrLabel, HeldAt, Labels
  <2> QED BY <2>1, <2>2, <2>3, <2>4, <2>5, <2>6
<1>2. CASE InstallAdapters
  BY <1>2 DEF InstallAdapters, ErrLabel, HeldAt, Labels
<1>3. CASE CleanUp
  <2>1. mod \in {"err_cdev_add", "err_chrdev", "err_get_adapter", "err_alloc_adapter"}
    BY <1>3, LabelsAreTables DEF CleanUp
  <2> QED BY <1>3, <2>1 DEF CleanUp, Releases, FallsTo, HeldAt, Labels
<1> QED BY <1>1, <1>2, <1>3

\* A non-empty set of naturals has a least element.
LEMMA HasMin ==
  ASSUME NEW S \in SUBSET Nat, S # {}
  PROVE  \E c \in S : \A d \in S : c <= d
<1> DEFINE R == {ij \in Nat \X Nat : ij[1] < ij[2]}
<1>1. IsWellFoundedOn(R, Nat)
  BY NatLessThanWellFounded DEF OpToRel
<1>2. PICK x \in S : \A y \in S : ~ (<<y, x>> \in R)
  <2> HIDE DEF R
  <2> QED BY <1>1, WFMin
<1>3. ASSUME NEW y \in S PROVE x <= y
  <2>1. x \in Nat /\ y \in Nat
    OBVIOUS
  <2>2. y < x => <<y, x>> \in R
    BY <2>1
  <2> HIDE DEF R
  <2> QED BY <1>2, <2>1, <2>2
<1> QED BY <1>3

\* FirstInstalled is an installed adapter.
LEMMA FirstInstalledIsInstalled ==
  ASSUME NEW S \in SUBSET Adapters, S # {}
  PROVE  (CHOOSE a \in S : \A b \in S : a <= b) \in S
<1>1. S \in SUBSET Nat
  BY I2cAssumption DEF Adapters
<1>2. \E a \in S : \A b \in S : a <= b
  BY <1>1, HasMin
<1> QED BY <1>2

\* Every variable stays in its type; loading, unloading and failing in between keep the
\* module's things together.
LEMMA ModuleInit == Init => TypeOK /\ ModuleInv
<1> SUFFICES ASSUME Init PROVE TypeOK /\ ModuleInv
  OBVIOUS
<1>1. TypeOK
  <2>1. 0 \in Adapters /\ NoPin \in Int /\ mod \in Labels
    BY I2cAssumption DEF Adapters, NoPin, Init, Labels
  <2> QED BY <2>1, LabelsAreTables DEF Init, TypeOK
<1>2. ModuleInv
  BY DEF Init, ModuleInv, HeldAt, NoneInstalled
<1> QED BY <1>1, <1>2

\* A step of the type invariant and of ModuleInv.
LEMMA ModuleStep == TypeOK /\ ModuleInv /\ [Next]_vars => TypeOK' /\ ModuleInv'
<1> SUFFICES ASSUME TypeOK, ModuleInv, [Next]_vars PROVE TypeOK' /\ ModuleInv'
  OBVIOUS
<1> DEFINE Pcs == {"idle", "gpio", "lock"} \union Holding
<1>a. 0 \in Adapters /\ NoPin \in Int /\ Valid \subseteq Nat /\ Asked \subseteq Int
  BY I2cAssumption DEF Adapters, NoPin
<1>h. \A t \in Threads : HandleOf[t] \in Handles
  BY I2cAssumption
<1>1. ASSUME InitStep \/ InstallAdapters \/ CleanUp PROVE TypeOK' /\ ModuleInv'
  <2>1. held' = HeldAt[mod'] /\ mod' \in Labels
    BY <1>1, TableStep DEF ModuleInv
  <2>2. held' \subseteq {"dev", "adapters", "driver", "region", "cdev"}
    BY <2>1 DEF HeldAt, Labels
  <2>3. mod # "live"
    BY <1>1, LabelsAreTables DEF InitStep, InstallAdapters, CleanUp
  <2>4. \A h \in Handles : ~opened[h]
    BY <2>3 DEF ModuleInv
  <2>5. installed' \subseteq Adapters /\ (mod' \in NoneInstalled => installed' = {})
    <3>1. CASE InitStep
      <4>1. mod \in {"out", "alloc", "driver", "region", "cdev"} /\ UNCHANGED installed
        BY <3>1, LabelsAreTables DEF InitStep
      <4>2. mod' \in NoneInstalled => mod \in NoneInstalled
        <5>1. mod \in {"driver", "region", "cdev"} => mod' \notin NoneInstalled
          BY <3>1 DEF InitStep, Following, ErrLabel, NoneInstalled
        <5> QED BY <4>1, <5>1 DEF NoneInstalled
      <4> QED BY <4>1, <4>2 DEF TypeOK, ModuleInv
    <3>2. CASE InstallAdapters
      BY <3>2 DEF InstallAdapters, ErrLabel, NoneInstalled, TypeOK
    <3>3. CASE CleanUp
      <4>1. mod \in {"err_cdev_add", "err_chrdev", "err_get_adapter", "err_alloc_adapter"}
        BY <3>3, LabelsAreTables DEF CleanUp
      <4>2. mod = "err_get_adapter" => installed' = {}
        BY <3>3 DEF CleanUp
      <4>3. mod = "err_alloc_adapter" => installed = {}
        BY DEF ModuleInv, NoneInstalled
      <4>4. mod \in {"err_cdev_add", "err_chrdev"} => mod' \notin NoneInstalled
        BY <3>3 DEF CleanUp, FallsTo, NoneInstalled
      <4>5. installed' \in {installed, {}}
        BY <3>3 DEF CleanUp
      <4> QED BY <4>1, <4>2, <4>3, <4>4, <4>5 DEF TypeOK
    <3> QED BY <1>1, <3>1, <3>2, <3>3
  <2>6. UNCHANGED <<leaked, hndVars, pinVars, thrVars>>
    BY <1>1 DEF InitStep, InstallAdapters, CleanUp
  <2>7. lock' \in [Adapters -> Threads \union {NoThread}]
    BY <1>1 DEF InitStep, InstallAdapters, CleanUp, TypeOK
  <2>8. TypeOK'
    BY <2>1, <2>2, <2>5, <2>6, <2>7, LabelsAreTables DEF TypeOK, hndVars, pinVars, thrVars
  <2>9. ModuleInv'
    BY <2>1, <2>4, <2>5, <2>6 DEF ModuleInv, hndVars
  <2> QED BY <2>8, <2>9
<1>2. ASSUME Exit PROVE TypeOK' /\ ModuleInv'
  <2>1. TypeOK'
    BY <1>2, LabelsAreTables DEF Exit, TypeOK, hndVars, pinVars, thrVars, Labels
  <2>2. ModuleInv'
    BY <1>2 DEF Exit, InUse, ModuleInv, HeldAt, hndVars
  <2> QED BY <2>1, <2>2
<1>3. ASSUME NEW h \in Handles, Open(h) PROVE TypeOK' /\ ModuleInv'
  <2>1. FirstInstalled \in installed /\ FirstInstalled \in Adapters
    BY <1>3, FirstInstalledIsInstalled DEF Open, FirstInstalled, TypeOK
  <2>2. TypeOK'
    BY <1>3, <2>1 DEF Open, TypeOK, modVars, pinVars, thrVars
  <2>3. ModuleInv'
    BY <1>3, <2>1 DEF Open, ModuleInv, TypeOK, modVars
  <2> QED BY <2>2, <2>3
<1>4. ASSUME NEW h \in Handles, OpenFails(h) PROVE TypeOK' /\ ModuleInv'
  BY <1>4 DEF OpenFails, TypeOK, ModuleInv, hndVars, pinVars, thrVars
<1>5. ASSUME NEW h \in Handles, Release(h) PROVE TypeOK' /\ ModuleInv'
  <2>1. TypeOK'
    BY <1>5, <1>a DEF Release, GpioFree, TypeOK, modVars, thrVars
  <2>2. ModuleInv'
    BY <1>5 DEF Release, ModuleInv, TypeOK, modVars
  <2> QED BY <2>1, <2>2
<1>6. ASSUME NEW t \in Threads, NEW a \in -1..NAdapters, SetAdapter(t, a)
      PROVE  TypeOK' /\ ModuleInv'
  <2>1. TypeOK'
    BY <1>6, <1>h DEF SetAdapter, AdapterOk, TypeOK, modVars, pinVars, thrVars
  <2>2. ModuleInv'
    BY <1>6, <1>h DEF SetAdapter, AdapterOk, ModuleInv, TypeOK, modVars
  <2> QED BY <2>1, <2>2
<1>7. ASSUME NEW t \in Threads, NEW g \in Asked, SetGpio(t, g) PROVE TypeOK' /\ ModuleInv'
  <2>1. TypeOK'
    BY <1>7, <1>a DEF SetGpio, GpioFree, TypeOK, modVars, hndVars
  <2>2. ModuleInv'
    BY <1>7 DEF SetGpio, ModuleInv, modVars, hndVars
  <2> QED BY <2>1, <2>2
<1>8. ASSUME NEW t \in Threads, GpioStep(t) PROVE TypeOK' /\ ModuleInv'
  <2>0. CASE GpioInitInvalid(t)
    BY <2>0, <1>a, <1>h DEF GpioInitInvalid, Goto, TypeOK, ModuleInv, modVars, pinVars
  <2>1. CASE GpioInitOk(t)
    BY <2>1, <1>a, <1>h DEF GpioInitOk, GpioSet, Goto, TypeOK, ModuleInv, modVars
  <2>2. CASE GpioInitFails(t)
    BY <2>2, <1>a, <1>h DEF GpioInitFails, Goto, TypeOK, ModuleInv, modVars
  <2> QED BY <1>8, <2>0, <2>1, <2>2 DEF GpioStep
<1>9. ASSUME NEW t \in Threads, Begin(t) \/ Lock(t) PROVE TypeOK' /\ ModuleInv'
  <2>1. CASE Begin(t)
    BY <2>1, <1>h DEF Begin, Goto, TypeOK, ModuleInv, Holding, modVars, hndVars, pinVars
  <2>2. CASE Lock(t)
    BY <2>2 DEF Lock, Goto, TypeOK, ModuleInv, Holding, modVars, hndVars, pinVars
  <2> QED BY <1>9, <2>1, <2>2
<1>10. ASSUME NEW t \in Threads, XferStep(t) PROVE TypeOK' /\ ModuleInv'
  <2>1. CASE Select(t) \/ Deselect(t)
    BY <2>1 DEF Select, Deselect, GpioSet, Goto, TypeOK, ModuleInv, Holding, modVars, hndVars
  <2>2. CASE BusStart(t) \/ BusEnd(t)
    BY <2>2, <1>a, <1>h DEF BusStart, BusEnd, Goto, TypeOK, ModuleInv, Holding, modVars, hndVars,
       pinVars
  <2>3. CASE Unlock(t)
    BY <2>3, <1>a, <1>h DEF Unlock, Goto, TypeOK, ModuleInv, Holding, modVars, hndVars, pinVars
  <2> QED BY <1>10, <2>1, <2>2, <2>3 DEF XferStep
<1>11. CASE UNCHANGED vars
  BY <1>11 DEF vars, modVars, hndVars, pinVars, thrVars, TypeOK, ModuleInv
<1> QED BY <1>1, <1>2, <1>3, <1>4, <1>5, <1>6, <1>7, <1>8, <1>9, <1>10, <1>11 DEF Next

\* Whatever fails in animal_init and whoever has the device open at rmmod, the module
\* leaves nothing behind and no handle uses an adapter the module does not hold.
THEOREM ModuleSafe == Spec => [](TypeOK /\ ModuleOwnsWhatItUses)
<1>1. TypeOK /\ ModuleInv => TypeOK /\ ModuleOwnsWhatItUses
  <2> SUFFICES ASSUME TypeOK, ModuleInv PROVE ModuleOwnsWhatItUses
    OBVIOUS
  <2>1. mod \in Labels
    BY LabelsAreTables DEF TypeOK
  <2> QED BY <2>1 DEF ModuleInv, ModuleOwnsWhatItUses, HeldAt, NoneInstalled, Labels
<1> QED BY ModuleInit, ModuleStep, <1>1, PTL DEF Spec

-------------------------------------------------------------------------------
(* The lock of an adapter *)

\* A step of LockInv: with a file of its own, nobody can move a thread's adapter away
\* between lock and unlock, nor close its file; and no lock is initialised again while a
\* call is under way.
LEMMA LockStep ==
    OwnFiles /\ TypeOK /\ ModuleInv /\ LockInv /\ [Next]_vars => LockInv'
<1> SUFFICES ASSUME OwnFiles, TypeOK, ModuleInv, LockInv, [Next]_vars PROVE LockInv'
  OBVIOUS
<1>t. /\ pc \in [Threads -> {"idle", "gpio", "lock"} \union Holding]
      /\ lk \in [Threads -> Adapters] /\ bus \in [Threads -> Adapters]
      /\ adapter \in [Handles -> Adapters] /\ opened \in [Handles -> BOOLEAN]
      /\ lock \in [Adapters -> Threads \union {NoThread}]
      /\ HandleOf \in [Threads -> Handles] /\ NoThread \notin Threads
  BY I2cAssumption DEF TypeOK
<1>i. CallKeepsFile /\ LockHeldInTransfer
  BY DEF LockInv
<1>s. ASSUME UNCHANGED <<opened, adapter, lock, pc, lk, bus>> PROVE LockInv'
  BY <1>s, <1>i DEF LockInv, CallKeepsFile, LockHeldInTransfer
<1> USE DEF Holding, InTransfer
<1>1. ASSUME InitStep \/ CleanUp \/ Exit PROVE LockInv'
  BY <1>1, <1>s DEF InitStep, CleanUp, Exit, hndVars, thrVars
<1>2. ASSUME InstallAdapters PROVE LockInv'
  <2>1. \A t \in Threads : pc[t] = "idle"
    BY <1>2, <1>i, <1>t DEF InstallAdapters, ModuleInv, CallKeepsFile
  <2> QED BY <1>2, <2>1, <1>t DEF InstallAdapters, thrVars, LockInv, CallKeepsFile,
             LockHeldInTransfer
<1>3. ASSUME NEW h \in Handles, Open(h) PROVE LockInv'
  BY <1>3, <1>t, <1>i DEF Open, thrVars, LockInv, CallKeepsFile, LockHeldInTransfer
<1>4. ASSUME NEW h \in Handles, OpenFails(h) PROVE LockInv'
  BY <1>4, <1>s DEF OpenFails, hndVars, thrVars
<1>5. ASSUME NEW h \in Handles, Release(h) PROVE LockInv'
  BY <1>5, <1>t, <1>i DEF Release, Quiet, thrVars, LockInv, CallKeepsFile, LockHeldInTransfer
<1>6. ASSUME NEW t \in Threads, NEW a \in -1..NAdapters, SetAdapter(t, a) PROVE LockInv'
  <2>1. \A u \in Threads : HandleOf[u] = HandleOf[t] => pc[u] = "idle"
    BY <1>6 DEF SetAdapter, OwnFiles
  <2> QED BY <1>6, <2>1, <1>t, <1>i DEF SetAdapter, thrVars, LockInv, CallKeepsFile,
             LockHeldInTransfer
<1>7. ASSUME NEW t \in Threads, NEW g \in Asked, SetGpio(t, g) PROVE LockInv'
  BY <1>7, <1>t, <1>i DEF SetGpio, hndVars, LockInv, CallKeepsFile, LockHeldInTransfer
<1>8. ASSUME NEW t \in Threads, GpioStep(t) PROVE LockInv'
  <2>1. /\ Goto(t, "gpio", "idle") /\ UNCHANGED <<opened, adapter, lock, lk, bus>>
    BY <1>8 DEF GpioStep, GpioInitInvalid, GpioInitOk, GpioInitFails
  <2> QED BY <2>1, <1>t, <1>i DEF Goto, LockInv, CallKeepsFile, LockHeldInTransfer
<1>9. ASSUME NEW t \in Threads, Begin(t) PROVE LockInv'
  BY <1>9, <1>t, <1>i DEF Begin, Goto, hndVars, LockInv, CallKeepsFile, LockHeldInTransfer
<1>10. ASSUME NEW t \in Threads, Lock(t) PROVE LockInv'
  BY <1>10, <1>t, <1>i DEF Lock, LockFree, Goto, hndVars, LockInv, CallKeepsFile,
     LockHeldInTransfer
<1>11. ASSUME NEW t \in Threads, Select(t) \/ Deselect(t) PROVE LockInv'
  BY <1>11, <1>t, <1>i DEF Select, Deselect, Goto, hndVars, LockInv, CallKeepsFile,
     LockHeldInTransfer
<1>12. ASSUME NEW t \in Threads, BusStart(t) \/ BusEnd(t) PROVE LockInv'
  BY <1>12, <1>t, <1>i DEF BusStart, BusEnd, Goto, hndVars, LockInv, CallKeepsFile,
     LockHeldInTransfer
<1>13. ASSUME NEW t \in Threads, Unlock(t) PROVE LockInv'
  BY <1>13, <1>t, <1>i DEF Unlock, Goto, hndVars, LockInv, CallKeepsFile, LockHeldInTransfer
<1>14. CASE UNCHANGED vars
  BY <1>14, <1>s DEF vars, hndVars, thrVars
<1> QED BY <1>1, <1>2, <1>3, <1>4, <1>5, <1>6, <1>7, <1>8, <1>9, <1>10, <1>11, <1>12, <1>13, <1>14
        DEF Next, XferStep

\* The initial states.
LEMMA LockInit == Init => LockInv
BY I2cAssumption DEF Init, LockInv, CallKeepsFile, LockHeldInTransfer, Holding, InTransfer

\* When every thread works on a file of its own, the gpio_lock of an adapter is held from
\* animal_i2c_xfer_begin to animal_i2c_xfer_done by the thread that transfers, on the bus
\* it transfers on, and by nobody else.
THEOREM LockHeld == OwnFiles /\ Spec => []LockHeldInTransfer
<1>1. LockInv => LockHeldInTransfer
  BY DEF LockInv
<1>2. OwnFiles => OwnFiles'
  BY DEF OwnFiles
<1> QED BY ModuleInit, ModuleStep, LockInit, LockStep, <1>1, <1>2, PTL DEF Spec

-------------------------------------------------------------------------------
(* The pins *)

PinInv == OwnsPin /\ UpWhileSelected

\* Users do not pass negative numbers to SET_GPIO (with them a handle goes on using a pin
\* it has given back, and the theorem below does not hold).
NoneNegative == Asked \subseteq Nat

\* Of two handles that are not in SET_GPIO each has its own pin.
LEMMA PinsApart ==
  ASSUME OwnsPin, NEW h \in Handles, NEW k \in Handles, h # k, gpio[h] \in Valid,
         \A t \in Threads : HandleOf[t] \in {h, k} => pc[t] # "gpio"
  PROVE  gpio[h] # gpio[k]
BY DEF OwnsPin

\* A step of PinInv.
LEMMA PinStep ==
    OwnFiles /\ NoneNegative /\ TypeOK /\ PinInv /\ [Next]_vars => PinInv'
<1> SUFFICES ASSUME OwnFiles, NoneNegative, TypeOK, PinInv, [Next]_vars
             PROVE  PinInv'
  OBVIOUS
<1>t. /\ pc \in [Threads -> {"idle", "gpio", "lock"} \union Holding]
      /\ gpio \in [Handles -> Int] /\ tmp \in [Threads -> Int]
      /\ owner \in [Valid -> Handles \union {NoHandle}] /\ level \in [Valid -> {0, 1}]
      /\ HandleOf \in [Threads -> Handles] /\ NoHandle \notin Handles
      /\ Valid \subseteq Nat /\ NoPin \notin Valid
  BY I2cAssumption DEF TypeOK, NoPin
<1>i. OwnsPin /\ UpWhileSelected
  BY DEF PinInv
<1>s. ASSUME UNCHANGED <<gpio, owner, level, pc>> PROVE PinInv'
  BY <1>s, <1>i DEF PinInv, OwnsPin, UpWhileSelected
<1> USE DEF Holding, Selecting
\* A step of one thread between two labels outside SET_GPIO and outside Selecting.
<1>m. ASSUME NEW t \in Threads, UNCHANGED <<gpio, owner, level>>,
             pc' = [pc EXCEPT ![t] = pc'[t]], pc[t] # "gpio", pc'[t] # "gpio",
             pc[t] \in Selecting <=> pc'[t] \in Selecting
      PROVE  PinInv'
  BY <1>m, <1>t, <1>i DEF PinInv, OwnsPin, UpWhileSelected
<1>1. ASSUME InitStep \/ InstallAdapters \/ CleanUp \/ Exit PROVE PinInv'
  BY <1>1, <1>s DEF InitStep, InstallAdapters, CleanUp, Exit, hndVars, pinVars, thrVars
<1>2. ASSUME NEW h \in Handles, Open(h) \/ OpenFails(h) PROVE PinInv'
  BY <1>2, <1>s DEF Open, OpenFails, hndVars, pinVars, thrVars
<1>3. ASSUME NEW h \in Handles, Release(h) PROVE PinInv'
  <2>1. \A t \in Threads : HandleOf[t] = h => pc[t] = "idle"
    BY <1>3 DEF Release, Quiet
  <2>2. OwnsPin'
    BY <1>3, <2>1, <1>t, <1>i DEF Release, GpioFree, thrVars, OwnsPin
  <2>3. UpWhileSelected'
    BY <1>3, <2>1, <1>t, <1>i DEF Release, thrVars, UpWhileSelected
  <2> QED BY <2>2, <2>3 DEF PinInv
<1>4. ASSUME NEW t \in Threads, NEW a \in -1..NAdapters, SetAdapter(t, a) PROVE PinInv'
  BY <1>4, <1>s DEF SetAdapter, pinVars, thrVars
<1>5. ASSUME NEW t \in Threads, NEW g \in Asked, SetGpio(t, g) PROVE PinInv'
  <2>1. /\ pc[t] = "idle" /\ pc' = [pc EXCEPT ![t] = "gpio"] /\ UNCHANGED <<gpio, level>>
        /\ owner' = [x \in Valid |-> IF x = gpio[HandleOf[t]] THEN NoHandle ELSE owner[x]]
    <3>1. g \in Nat /\ g >= 0
      BY DEF NoneNegative
    <3> QED BY <1>5, <3>1 DEF SetGpio, GpioFree, hndVars
  <2>2. \A u \in Threads : HandleOf[u] = HandleOf[t] => pc[u] = "idle"
    BY <2>1 DEF OwnFiles
  <2>3. OwnsPin'
    BY <2>1, <2>2, <1>t, <1>i DEF OwnsPin
  <2>4. UpWhileSelected'
    BY <2>1, <1>t, <1>i DEF UpWhileSelected
  <2> QED BY <2>3, <2>4 DEF PinInv
<1>6. ASSUME NEW t \in Threads, GpioStep(t) PROVE PinInv'
  <2>1. /\ pc[t] = "gpio" /\ pc' = [pc EXCEPT ![t] = "idle"]
        /\ \A u \in Threads : HandleOf[u] = HandleOf[t] => u = t
    BY <1>6 DEF GpioStep, GpioInitInvalid, GpioInitOk, GpioInitFails, Goto, OwnFiles
  <2>2. CASE GpioInitInvalid(t)
    BY <2>1, <2>2, <1>t, <1>i DEF GpioInitInvalid, pinVars, PinInv, OwnsPin, UpWhileSelected
  <2>3. CASE GpioInitOk(t)
    <3>1. OwnsPin'
      BY <2>1, <2>3, <1>t, <1>i DEF GpioInitOk, Requestable, OwnsPin
    <3>2. ASSUME NEW u \in Threads, pc[u] \in Selecting, gpio[HandleOf[u]] \in Valid
          PROVE  gpio[HandleOf[u]] # tmp[t]
      <4>1. \A v \in Threads : HandleOf[v] = HandleOf[u] => pc[v] # "gpio"
        BY <3>2 DEF OwnFiles
      <4>2. owner[gpio[HandleOf[u]]] = HandleOf[u]
        BY <3>2, <4>1, <1>t, <1>i DEF OwnsPin
      <4> QED BY <4>2, <2>3, <1>t DEF GpioInitOk, Requestable
    <3>3. UpWhileSelected'
      BY <2>1, <2>3, <3>2, <1>t, <1>i DEF GpioInitOk, GpioSet, UpWhileSelected
    <3> QED BY <3>1, <3>3 DEF PinInv
  <2>4. CASE GpioInitFails(t)
    <3>1. OwnsPin'
      BY <2>1, <2>4, <1>t, <1>i DEF GpioInitFails, Requestable, OwnsPin
    <3>2. UpWhileSelected'
      BY <2>1, <2>4, <1>t, <1>i DEF GpioInitFails, UpWhileSelected
    <3> QED BY <3>1, <3>2 DEF PinInv
  <2> QED BY <1>6, <2>2, <2>3, <2>4 DEF GpioStep
<1>7. ASSUME NEW t \in Threads, Begin(t) \/ Lock(t) \/ BusStart(t) \/ BusEnd(t) \/ Unlock(t)
      PROVE  PinInv'
  BY <1>7, <1>m, <1>t DEF Begin, Lock, BusStart, BusEnd, Unlock, Goto, hndVars, pinVars
<1>8. ASSUME NEW t \in Threads, Select(t) PROVE PinInv'
  <2>1. OwnsPin'
    BY <1>8, <1>t, <1>i DEF Select, Goto, hndVars, OwnsPin
  <2>2. UpWhileSelected'
    BY <1>8, <1>t, <1>i DEF Select, Goto, GpioSet, hndVars, UpWhileSelected
  <2> QED BY <2>1, <2>2 DEF PinInv
<1>9. ASSUME NEW t \in Threads, Deselect(t) PROVE PinInv'
  <2>1. OwnsPin'
    BY <1>9, <1>t, <1>i DEF Deselect, Goto, hndVars, OwnsPin
  <2>2. ASSUME NEW u \in Threads, u # t, pc[u] \in Selecting, gpio[HandleOf[u]] \in Valid
        PROVE  gpio[HandleOf[u]] # gpio[HandleOf[t]]
    <3>1. HandleOf[u] # HandleOf[t]
      BY <2>2 DEF OwnFiles
    <3>2. \A v \in Threads : HandleOf[v] \in {HandleOf[u], HandleOf[t]} => pc[v] # "gpio"
      BY <2>2, <1>9 DEF OwnFiles, Deselect, Goto
    <3> QED BY <2>2, <3>1, <3>2, <1>t, <1>i, PinsApart
  <2>3. UpWhileSelected'
    BY <1>9, <2>2, <1>t, <1>i DEF Deselect, Goto, GpioSet, hndVars, UpWhileSelected
  <2> QED BY <2>1, <2>3 DEF PinInv
<1>10. CASE UNCHANGED vars
  BY <1>10, <1>s DEF vars, hndVars, pinVars, thrVars
<1> QED BY <1>1, <1>2, <1>3, <1>4, <1>5, <1>6, <1>7, <1>8, <1>9, <1>10 DEF Next, XferStep

\* The initial states.
LEMMA PinInit == Init => PinInv
BY I2cAssumption DEF Init, PinInv, OwnsPin, UpWhileSelected, Selecting, NoPin

\* The inductive invariant.
LEMMA PinInvariant == OwnFiles /\ NoneNegative /\ Spec => [](TypeOK /\ LockInv /\ PinInv)
<1>1. OwnFiles /\ NoneNegative => OwnFiles' /\ NoneNegative'
  BY DEF OwnFiles, NoneNegative
<1> QED BY ModuleInit, ModuleStep, LockInit, LockStep, PinInit, PinStep, <1>1, PTL DEF Spec

\* "ensure that there is no addressing collision" (i2c_main.c:160): with a file per thread
\* and no negative pins, whatever requests fail, a transfer sees its own chip selected and
\* no other chip of its adapter.
THEOREM NoAddressingCollision == OwnFiles /\ NoneNegative /\ Spec => []OnlyAddressedChip
<1>1. OwnFiles /\ TypeOK /\ LockInv /\ PinInv => OnlyAddressedChip
  <2> SUFFICES ASSUME OwnFiles, TypeOK, LockInv, PinInv, NEW t \in Threads, pc[t] = "xfer"
               PROVE  /\ gpio[HandleOf[t]] \in Valid => level[gpio[HandleOf[t]]] = 1
                      /\ \A x \in Valid :
                           level[x] = 1 /\ owner[x] # NoHandle /\ opened[owner[x]]
                             /\ adapter[owner[x]] = bus[t] => x = gpio[HandleOf[t]]
    BY DEF OnlyAddressedChip
  <2>1. gpio[HandleOf[t]] \in Valid => level[gpio[HandleOf[t]]] = 1
    BY DEF PinInv, UpWhileSelected, Selecting
  <2>2. ASSUME NEW x \in Valid, level[x] = 1, adapter[owner[x]] = bus[t]
        PROVE  x = gpio[HandleOf[t]]
    <3>1. PICK u \in Threads : pc[u] \in Selecting /\ gpio[HandleOf[u]] = x
      BY <2>2 DEF PinInv, UpWhileSelected
    <3>2. owner[x] = HandleOf[u]
      <4>1. \A v \in Threads : HandleOf[v] = HandleOf[u] => pc[v] # "gpio"
        BY <3>1 DEF OwnFiles, Selecting
      <4>2. HandleOf[u] \in Handles
        BY I2cAssumption
      <4> QED BY <3>1, <4>1, <4>2 DEF PinInv, OwnsPin
    <3>3. lk[u] = adapter[HandleOf[u]] /\ lock[lk[u]] = u
      BY <3>1 DEF LockInv, CallKeepsFile, LockHeldInTransfer, Selecting, InTransfer, Holding
    <3>4. bus[t] = lk[t] /\ lock[lk[t]] = t
      BY DEF LockInv, LockHeldInTransfer, Holding
    <3> QED BY <2>2, <3>1, <3>2, <3>3, <3>4
  <2> QED BY <2>1, <2>2
<1>2. OwnFiles => OwnFiles'
  BY DEF OwnFiles
<1> QED BY PinInvariant, <1>1, <1>2, PTL

\* "After transfer is completed, GPIO chip select is released" (i2c_main.c:15): a pin is
\* raised only while the thread that raised it has its adapter locked.
THEOREM ChipsReleased == OwnFiles /\ NoneNegative /\ Spec => []UnlockedIsDeselected
<1>1. LockInv /\ PinInv => UnlockedIsDeselected
  BY DEF LockInv, LockHeldInTransfer, PinInv, UpWhileSelected, UnlockedIsDeselected,
         Selecting, Holding
<1> QED BY PinInvariant, <1>1, PTL
===============================================================================
