-------------------------- MODULE BifrostLifecycle --------------------------
(***************************************************************************)
(* Loading and unloading of the bifrost module: bifrost_init, the probe    *)
(* and remove of the PCI device, the FVD interrupts, the character device  *)
(* and bifrost_exit, with every step that can fail and the error path it   *)
(* takes, while interrupt handlers run on another CPU.                     *)
(*                                                                         *)
(* The thread that loads or unloads walks through tables, one per function *)
(* of the code.  A step that acquires names what it adds, where it goes on *)
(* and where it goes when it fails; a step that releases names what it     *)
(* removes and where it goes on.                                           *)
(***************************************************************************)
EXTENDS Naturals, FiniteSets

CONSTANTS
    Platforms,      \* "fvd" is a PCI platform that has the FVD interrupt lines
    MayFail,        \* the steps that may fail
    MaxFailures,    \* bound on the failures between two boots
    MaxWorks        \* bound on the events waiting in the work queue

ASSUME LifecycleAssumption ==
    /\ Platforms \subseteq {"pci", "fvd", "membus"}
    /\ MaxFailures \in Nat
    /\ MaxWorks \in Nat

VARIABLES
    plat,       \* the platform and the module parameter membus
    pc,         \* next step of the loading or unloading thread
    up,         \* what is allocated, registered, mapped or attached
    ctl,        \* what bdev->dma_ctl points to
    ret,        \* the variable ret of bifrost_init
    isr,        \* the interrupt handler that is running
    works,      \* number of events in the work queue
    failed,     \* the steps that have failed since the machine started
    \* History, also since the machine started.
    binds,      \* what the driver core did to the device of a loaded driver
    leaked      \* a DMA controller was lost: nothing points to it any more

history == <<failed, binds, leaked>>
vars == <<plat, pc, up, ctl, ret, isr, works, failed, binds, leaked>>

\* The lines of the FVD platforms (FPGA_IRQ_0 to FPGA_IRQ_2), also their handlers.
FvdLines == {"irq0", "irq1", "irq2"}

\* "bound" is bdev->pdev and the driver core's binding, "msis" the attached
\* vectors, "pmem" the platform device that owns the FVD lines, and "onebar" the
\* mapping of a single BAR that a failed setup_io_regions leaves.
Things == {"bdev", "pool", "wq", "drv", "cdev", "pmem", "pcidev", "msi", "regions",
           "io", "onebar", "msis", "sysfs", "bound"} \cup FvdLines

\* Tables side by side, as in module TLC, whose @@ no prover expands.
f @@ g == [s \in DOMAIN f \union DOMAIN g |-> IF s \in DOMAIN f THEN f[s] ELSE g[s]]

Acq(add, ok, err) == [add |-> add, ok |-> ok, err |-> err]
Rel(del, ok) == [del |-> del, ok |-> ok]

Init ==
    /\ plat \in Platforms
    /\ pc = "absent"
    /\ up = {}
    /\ ctl = "null"
    /\ ret = "unset"
    /\ isr = "none"
    /\ works = 0
    /\ failed = {} /\ binds = {} /\ leaked = FALSE
---------------------------------------------------------------------------
(* Where a nested function returns to.                                     *)

\* bifrost_fvd_init is called by bifrost_membus_init and by
\* bifrost_pci_probe_post_init.
FvdOk == IF plat = "membus" THEN "chrdev" ELSE "sysfs"
FvdErr == IF plat = "membus" THEN "unmap_cs" ELSE "dma_cleanup"

\* A probe returns to pci_register_driver, which answers 0 whatever the probe
\* answered, or to the driver core that binds a device once more.
Probed == IF "cdev" \in up THEN "loaded" ELSE "chrdev"

\* A remove returns to pci_unregister_driver or to the driver core.
Removed == IF "drv" \in up THEN "loaded" ELSE "exit_flush"
---------------------------------------------------------------------------
(* The functions that set up.                                              *)

\* bifrost_init up to the interface to the FPGA.
InitSteps ==
    LET interface == IF plat = "membus" THEN "map_cs" ELSE "register"
    IN [kzalloc   |-> Acq({"bdev"}, {"mempool"}, {"absent"}),
        mempool   |-> Acq({"pool"}, {"workqueue"}, {"kfree"}),
        workqueue |-> Acq({"wq"}, {interface}, {"mempool_destroy"})]

\* bifrost_pci_init: without a device in the machine there is no probe.
PciInitSteps ==
    [register |-> Acq({"drv"}, {"enable", "chrdev"}, {"flush"})]

\* bifrost_pci_probe: the first three steps return without undoing anything.
ProbeSteps ==
    [enable          |-> Acq({"pcidev"}, {"config"}, {Probed}),
     config          |-> Acq({}, {"enable_msi"}, {Probed}),
     enable_msi      |-> Acq({"msi"}, {"request_regions"}, {Probed}),
     request_regions |-> Acq({"regions"}, {"iomap"}, {"disable"})]

\* setup_io_regions: a probe needs two BARs.
IoMapSteps ==
    [iomap |-> Acq({"io"}, {"attach"}, {"release"})]

\* Varied: the error label of sysfs_create_group undoes the post initialisation.
SysfsStepsUndone ==
    [sysfs |-> Acq({"sysfs", "bound"}, {Probed}, {"dma_cleanup"})]

\* The end of bifrost_pci_probe, with the error label err_pci_sysfs.
SysfsSteps ==
    [sysfs |-> Acq({"sysfs", "bound"}, {Probed}, {"unmap"})]

\* bifrost_attach_msis_to_irq: a vector that cannot be requested is left out.
AttachSteps ==
    [attach |-> Acq({"msis"}, {"dma_init"}, {"dma_init"})]

\* bifrost_fvd_init.  When the platform device cannot be allocated it returns the
\* variable rc, which nothing has set.
FvdInitSteps ==
    [pdev_alloc |-> Acq({"pmem"}, {"irq0"}, {FvdErr, FvdOk}),
     irq0       |-> Acq({"irq0"}, {"irq1"}, {"pdev_unregister"}),
     irq1       |-> Acq({"irq1"}, {"irq2"}, {"pdev_unregister"}),
     irq2       |-> Acq({"irq2"}, {FvdOk}, {"pdev_unregister"})]

\* bifrost_membus_init.
MembusInitSteps ==
    [map_cs |-> Acq({"io"}, {"pdev_alloc"}, {"unmap_cs"})]

\* bifrost_cdev_init.
CdevInitSteps ==
    [chrdev |-> Acq({"cdev"}, {"loaded"}, {"flush"})]

Acquires ==
    InitSteps @@ PciInitSteps @@ ProbeSteps @@ IoMapSteps @@ SysfsSteps
    @@ AttachSteps @@ FvdInitSteps @@ MembusInitSteps @@ CdevInitSteps
---------------------------------------------------------------------------
(* The functions that clean up, and the error labels.                      *)

\* The error labels of bifrost_pci_probe.
ProbeErrors ==
    [unmap   |-> Rel({"io"}, "release"),
     release |-> Rel({"regions"}, "disable"),
     disable |-> Rel({"pcidev"}, Probed)]

\* Varied: the vectors stay attached.
PostInitErrorsForgotten ==
    [detach |-> Rel({}, "unmap")]

\* The error label err_dma of bifrost_pci_probe_post_init.
PostInitErrors ==
    [detach |-> Rel({"msis"}, "unmap")]

\* The error label err_gpio of bifrost_fvd_init: the lines are managed resources of
\* the platform device and are freed with it.
FvdErrors ==
    [pdev_unregister |-> Rel({"pmem"} \cup FvdLines, FvdErr)]

\* The error label err_ioregions of bifrost_membus_init.
MembusErrors ==
    [unmap_cs |-> Rel({"io"}, "flush")]

\* The error labels of bifrost_init.
InitErrors ==
    [flush           |-> Rel({"wq"}, "mempool_destroy"),
     mempool_destroy |-> Rel({"pool"}, "kfree"),
     kfree           |-> Rel({"bdev"}, "return")]

\* bifrost_pci_remove.
RemoveSteps ==
    LET fvd == IF plat = "fvd" THEN {"pmem"} \cup FvdLines ELSE {}
    IN [rm_fvd     |-> Rel(fvd, "rm_sysfs"),
        rm_sysfs   |-> Rel({"sysfs"}, "rm_detach"),
        rm_detach  |-> Rel({"msis"}, "rm_msi"),
        rm_msi     |-> Rel({"msi"}, "rm_unmap"),
        rm_unmap   |-> Rel({"io"}, "rm_release"),
        rm_release |-> Rel({"regions"}, "rm_disable"),
        rm_disable |-> Rel({"pcidev", "bound"}, Removed)]

\* bifrost_membus_exit.
MembusExitSteps ==
    [exit_unmap |-> Rel({"io"}, "exit_fvd"),
     exit_fvd   |-> Rel({"pmem"} \cup FvdLines, "exit_flush")]

\* Varied: the driver stays registered.
PciExitStepsForgotten ==
    [unregister |-> Rel({}, "exit_flush")]

\* bifrost_pci_exit after bifrost_dma_cleanup: only a bound device is removed.
PciExitSteps ==
    [unregister |-> Rel({"drv"}, IF "bound" \in up THEN "rm_fvd" ELSE "exit_flush")]

\* Varied: bifrost_pci_exit does not call bifrost_dma_cleanup.
CdevExitStepsNoDma ==
    [cdev_exit |-> Rel({"cdev"}, IF plat = "membus" THEN "exit_unmap" ELSE "unregister")]

\* bifrost_cdev_exit, and what bifrost_exit goes on with.
CdevExitSteps ==
    [cdev_exit |-> Rel({"cdev"}, IF plat = "membus" THEN "exit_unmap" ELSE "exit_dma")]

\* bifrost_exit after the interface.
ExitSteps ==
    [exit_flush |-> Rel({"wq"}, "exit_pool"),
     exit_pool  |-> Rel({"pool"}, "exit_kfree"),
     exit_kfree |-> Rel({"bdev"}, "absent")]

Releases ==
    ProbeErrors @@ PostInitErrors @@ FvdErrors @@ MembusErrors @@ InitErrors
    @@ RemoveSteps @@ MembusExitSteps @@ PciExitSteps @@ CdevExitSteps @@ ExitSteps
---------------------------------------------------------------------------
(* The thread that loads and unloads.                                      *)

\* insmod.  The model does not load over a driver or a handler that an earlier load
\* left registered: all that can still happen to those is RebindGone or a fault.
Insmod ==
    /\ pc = "absent"
    /\ up \cap ({"drv", "msis"} \cup FvdLines) = {}
    /\ pc' = "kzalloc"
    /\ ctl' = "null"
    /\ ret' = "unset"
    /\ UNCHANGED <<plat, up, isr, works, history>>

\* pci_enable_msi refuses a device whose MSI an earlier probe left enabled.
Taken == pc = "enable_msi" /\ "msi" \in up

Acquire ==
    /\ pc \in DOMAIN Acquires
    /\ ~Taken
    /\ up' = up \cup Acquires[pc].add
    /\ pc' \in Acquires[pc].ok
    /\ UNCHANGED <<plat, ctl, ret, isr, works, history>>

MayFailNow == pc \in MayFail /\ Cardinality(failed) < MaxFailures

\* Only the allocations of bifrost_init set ret.  A probe that can map one BAR but
\* not two leaves that one mapped.
AcquireFails ==
    /\ pc \in DOMAIN Acquires
    /\ Taken \/ MayFailNow
    /\ pc' \in Acquires[pc].err
    /\ ret' = IF pc \in {"mempool", "workqueue"} THEN "ENOMEM" ELSE ret
    /\ up' \in IF pc = "iomap" THEN {up, up \cup {"onebar"}} ELSE {up}
    /\ failed' = failed \cup {pc}
    /\ UNCHANGED <<plat, ctl, isr, works, binds, leaked>>

\* The line a handler serves; free_irq waits until its handler has returned.
Line(h) == IF h \in FvdLines THEN h ELSE "msis"

Quiet(lines) == isr # "none" => Line(isr) \notin lines

\* flush_workqueue before destroy_workqueue.
Flushed(del) == "wq" \in del => works = 0

Release ==
    /\ pc \in DOMAIN Releases
    /\ Quiet(Releases[pc].del)
    /\ Flushed(Releases[pc].del)
    /\ up' = up \ Releases[pc].del
    /\ pc' = Releases[pc].ok
    /\ leaked' = (leaked \/ ("bdev" \in Releases[pc].del /\ ctl = "live"))
    /\ UNCHANGED <<plat, ctl, ret, isr, works, failed, binds>>

\* bifrost_dma_init stores what alloc_dma_ctl returns, over the pointer to a controller
\* that is still there: bifrost_pci_remove and the label err_pci_sysfs free none.
DmaInit ==
    /\ pc = "dma_init"
    /\ leaked' = (leaked \/ ctl = "live")
    /\ \/ /\ ctl' = "live"
          /\ pc' = IF plat = "fvd" THEN "pdev_alloc" ELSE "sysfs"
          /\ UNCHANGED failed
       \/ /\ MayFailNow
          /\ ctl' = "null"
          /\ pc' = "detach"
          /\ failed' = failed \cup {pc}
    /\ UNCHANGED <<plat, up, ret, isr, works, binds>>

\* bifrost_dma_cleanup frees what bdev->dma_ctl points to and keeps the pointer.
DmaCleanup ==
    /\ pc \in {"dma_cleanup", "exit_dma"}
    /\ ctl' = [null |-> "null", live |-> "freed", freed |-> "twice", twice |-> "twice"][ctl]
    /\ pc' = IF pc = "exit_dma" THEN "unregister" ELSE "detach"
    /\ UNCHANGED <<plat, up, ret, isr, works, history>>

\* bifrost_init returns ret.  After the label err_pci nothing has set it, and a
\* value that is not negative leaves the module loaded.
InitReturns ==
    /\ pc = "return"
    /\ pc' \in IF ret = "unset" THEN {"absent", "loaded"} ELSE {"absent"}
    /\ UNCHANGED <<plat, up, ctl, ret, isr, works, history>>

\* rmmod.  An open file holds a reference to the module, so none is open.
Rmmod ==
    /\ pc = "loaded"
    /\ pc' = IF "bdev" \in up THEN "cdev_exit" ELSE "oops"
    /\ UNCHANGED <<plat, up, ctl, ret, isr, works, history>>

\* The driver core removes or probes the device of a loaded driver (unbind and
\* bind in sysfs, or hotplug).
Rebind ==
    /\ pc = "loaded"
    /\ {"drv", "bdev"} \subseteq up
    /\ pc' = IF "bound" \in up THEN "rm_fvd" ELSE "enable"
    /\ binds' = binds \cup {IF "bound" \in up THEN "unbind" ELSE "bind"}
    /\ UNCHANGED <<plat, up, ctl, ret, isr, works, failed, leaked>>

\* The driver core does so to a driver whose module or device structure is gone.
RebindGone ==
    /\ pc \in {"absent", "loaded"}
    /\ "drv" \in up
    /\ "bdev" \notin up
    /\ pc' = "oops"
    /\ UNCHANGED <<plat, up, ctl, ret, isr, works, history>>

\* The machine starts again after a crash.
Reboot ==
    /\ pc = "oops"
    /\ pc' = "absent"
    /\ up' = {}
    /\ ctl' = "null"
    /\ ret' = "unset"
    /\ isr' = "none"
    /\ works' = 0
    /\ failed' = {} /\ binds' = {} /\ leaked' = FALSE
    /\ UNCHANGED plat
---------------------------------------------------------------------------
(* Interrupt handlers and the work queue.                                  *)

\* With FVD only the vector of channel 0 is attached.
Sources == [pci |-> {"dma", "other"}, fvd |-> {"dma"} \cup FvdLines, membus |-> FvdLines]

Interrupt(h) ==
    /\ isr = "none"
    /\ pc # "oops"
    /\ Line(h) \in up
    /\ isr' = h
    /\ UNCHANGED <<plat, pc, up, ctl, ret, works, history>>

\* bifrost_create_event_in_atomic uses the pool and the queue.
Posts == {"bdev", "pool", "wq"}

\* What handler h may use: the FVD services read registers of regb[0], and dma_done
\* programs the next request of the queue into the registers of its channel.
Needs(h) == Posts \cup IF h = "other" THEN {} ELSE {"io"}

\* dma_msi_handler and default_msi_handler post an event or none.  dma_done writes no
\* register when no request is queued.  One that follows a dangling dma_ctl may find
\* the memory as it was.
MsiReturns ==
    /\ isr \in {"dma", "other"}
    /\ Posts \subseteq up
    /\ isr = "dma" => ctl # "null"
    /\ isr' = "none"
    /\ works' \in {works, works + 1} \cap 0..MaxWorks
    /\ UNCHANGED <<plat, pc, up, ctl, ret, history>>

\* The FVD services post an event for each cause they find.
FvdReturns ==
    /\ isr \in FvdLines
    /\ Needs(isr) \subseteq up
    /\ isr' = "none"
    /\ works' \in works..MaxWorks
    /\ UNCHANGED <<plat, pc, up, ctl, ret, history>>

\* A handler follows a pointer to something that is gone.
HandlerFaults ==
    /\ isr # "none"
    /\ \/ ~(Needs(isr) \subseteq up)
       \/ isr = "dma" /\ ctl # "live"
    /\ isr' = "none"
    /\ pc' = "oops"
    /\ UNCHANGED <<plat, up, ctl, ret, works, history>>

\* work_create_event.
Work ==
    /\ works > 0
    /\ pc # "oops"
    /\ works' = works - 1
    /\ UNCHANGED <<plat, pc, up, ctl, ret, isr, history>>

Next ==
    \/ Insmod \/ Acquire \/ AcquireFails \/ Release
    \/ DmaInit \/ DmaCleanup \/ InitReturns
    \/ Rmmod \/ Rebind \/ RebindGone \/ Reboot
    \/ \E h \in Sources[plat] : Interrupt(h)
    \/ MsiReturns \/ FvdReturns \/ HandlerFaults \/ Work

Spec == Init /\ [][Next]_vars
---------------------------------------------------------------------------
(* Properties.                                                             *)

\* What the failure of a step leaves behind when the module is gone.  A step
\* without an entry leaves nothing.
Residue ==
    [config          |-> {"pcidev"},
     enable_msi      |-> {"pcidev"},
     request_regions |-> {"msi"},
     iomap           |-> {"msi", "onebar"},
     dma_init        |-> {"msi"},
     pdev_alloc      |-> {"msi"},
     irq0            |-> {"msi"},
     irq1            |-> {"msi"},
     irq2            |-> {"msi"},
     sysfs           |-> {"msi", "msis", "pmem"} \cup FvdLines,
     chrdev          |-> Things \ {"bdev", "pool", "wq", "cdev"}]

\* When the module is gone, after a failed bifrost_init or after bifrost_exit,
\* nothing it acquired is left but what the steps that failed account for: every other
\* error label and the exit functions undo what was done, also after the device was
\* unbound and bound again.  A DMA controller is lost, then or before, in two ways only:
\* the device is bound again after a removal or a failed sysfs_create_group, which
\* left the controller in bdev->dma_ctl, or bifrost_cdev_init fails and bdev goes.
NothingLeftBehind ==
    /\ pc = "absent" => up \subseteq UNION {Residue[s] : s \in failed \cap DOMAIN Residue}
    /\ leaked => \/ "bind" \in binds /\ ("unbind" \in binds \/ "sysfs" \in failed)
                 \/ "chrdev" \in failed

\* A handler that runs finds the event queue, the pool and the device structure, and
\* on PCI the registers, which dma_done needs too: interrupts are freed before what
\* their handlers use, at exit (bifrost_exit, bifrost_pci_remove) and on every error
\* path but those of sysfs_create_group and bifrost_cdev_init.
HandlersFindWhatTheyUse ==
    isr # "none" =>
        \/ Needs(isr) \ (IF plat = "membus" THEN {"io"} ELSE {}) \subseteq up
        \/ failed \cap {"sysfs", "chrdev"} # {}
        \/ pc = "oops"

\* bifrost_dma_cleanup keeps bdev->dma_ctl, so only one of its two calls may find a
\* controller: it is freed twice only after bifrost_fvd_init has failed in a probe.
ControllerFreedOnce ==
    ctl = "twice" => failed \cap ({"pdev_alloc"} \cup FvdLines) # {}

\* The character device is live only when the driver can serve it: the device is
\* bound (comment of bifrost_cdev_init).
ReadyWhenLive ==
    pc = "loaded" /\ "cdev" \in up /\ plat # "membus" => "bound" \in up

\* dma_msi_handler finds the DMA controller.
DmaHandlerFindsController == isr = "dma" => ctl = "live"

\* The FVD services find the registers mapped, on the memory bus too.
FvdHandlersFindRegisters == isr \in FvdLines /\ failed = {} => "io" \in up

\* The controller is never freed twice.
NeverFreedTwice == ctl # "twice"

\* Nothing at all is left behind.
NothingLeftEver == pc = "absent" => up = {}

\* No DMA controller is lost as long as no step fails.
ControllerKept == failed = {} => ~leaked
=============================================================================
