------------------------ MODULE BifrostLifecycle_proofs ------------------------
(***************************************************************************)
(* Loading and unloading, whichever steps fail and however often: what is  *)
(* acquired at each step of the walk through the tables, and so what is    *)
(* left when the module is gone and what a handler finds that runs now.    *)
(***************************************************************************)
EXTENDS BifrostLifecycle, TLAPS

-------------------------------------------------------------------------------
(* Where the loading thread is *)

InitPcs == {"kzalloc", "mempool", "workqueue", "register", "map_cs", "chrdev"}
InitErrorPcs == {"unmap_cs", "flush", "mempool_destroy", "kfree", "return"}
FvdPcs == {"pdev_alloc", "irq0", "irq1", "irq2", "pdev_unregister"}
ProbePcs == {"enable", "config", "enable_msi", "request_regions", "iomap", "attach", "dma_init",
             "sysfs"}
ProbeErrorPcs == {"dma_cleanup", "detach", "unmap", "release", "disable"}
RemovePcs == {"rm_fvd", "rm_sysfs", "rm_detach", "rm_msi", "rm_unmap", "rm_release", "rm_disable"}
ExitPcs == {"cdev_exit", "exit_unmap", "exit_fvd", "exit_dma", "unregister", "exit_flush",
            "exit_pool", "exit_kfree"}
Pcs == {"absent", "loaded", "oops"} \union InitPcs \union InitErrorPcs \union FvdPcs
       \union ProbePcs \union ProbeErrorPcs \union RemovePcs \union ExitPcs

FvdThings == {"pmem"} \union FvdLines
FvdFailed == failed \cap ({"pdev_alloc"} \union FvdLines) # {}

\* Each platform has its own steps, and the memory bus no PCI device.
StepsOfPlatform ==
    /\ pc \in FvdPcs => plat # "pci"
    /\ pc \in {"dma_cleanup", "pdev_unregister"} => FvdFailed
    /\ pc \in {"dma_cleanup"} => plat = "fvd"
    /\ pc \in {"register", "exit_dma", "unregister"} \union ProbePcs \union ProbeErrorPcs
                \union RemovePcs => plat # "membus"
    /\ pc \in {"map_cs", "unmap_cs", "exit_unmap", "exit_fvd"} => plat = "membus"
    /\ plat = "membus" => /\ up \subseteq {"bdev", "pool", "wq", "cdev", "io"} \union FvdThings
                          /\ ctl = "null"

LifeType ==
    /\ plat \in Platforms
    /\ pc \in Pcs
    /\ up \subseteq Things
    /\ ctl \in {"null", "live", "freed", "twice"}
    /\ isr \in {"none", "dma", "other"} \union FvdLines
    /\ StepsOfPlatform

-------------------------------------------------------------------------------
(* What is up at each step *)

\* What the steps that failed leave.
Left == UNION {Residue[s] : s \in failed \cap DOMAIN Residue}

\* The device is bound while no function of the driver works on it.
Resting == pc \in {"chrdev", "loaded", "cdev_exit", "exit_dma", "unregister"}
Bound == Resting /\ "bound" \in up

\* A probe is past its first steps, up to its end or to an error label.
MappedPcs == {"attach", "dma_init", "sysfs"} \union FvdPcs

\* The steps at which thing t may be up.
Expected(t) ==
    \/ /\ t = "bdev"
       /\ pc \notin {"absent", "kzalloc", "return"}
    \/ /\ t = "pool"
       /\ pc \notin {"absent", "kzalloc", "return", "mempool", "kfree", "exit_kfree"}
    \/ /\ t = "wq"
       /\ pc \notin {"absent", "kzalloc", "return", "mempool", "kfree", "exit_kfree",
                     "workqueue", "mempool_destroy", "exit_pool"}
    \/ /\ t = "cdev"
       /\ \/ pc \in {"loaded", "cdev_exit"} \union ProbePcs \union ProbeErrorPcs
          \/ pc \in FvdPcs /\ plat # "membus"
          \/ pc \in RemovePcs /\ "drv" \in up
    \/ /\ t = "drv"
       /\ \/ Resting
          \/ pc \in ProbePcs \union FvdPcs \union ProbeErrorPcs \union RemovePcs
    \/ /\ t = "pcidev"
       /\ \/ Bound
          \/ pc \in (ProbePcs \ {"enable"}) \union FvdPcs \union ProbeErrorPcs \union RemovePcs
    \/ /\ t = "msi"
       /\ \/ Bound
          \/ pc \in (MappedPcs \ {"pdev_unregister"}) \union {"request_regions", "iomap"}
          \/ pc \in {"rm_fvd", "rm_sysfs", "rm_detach", "rm_msi"}
    \/ /\ t = "regions"
       /\ \/ Bound
          \/ pc \in MappedPcs \union {"iomap"}
          \/ pc \in ProbeErrorPcs \ {"disable"}
          \/ pc \in RemovePcs \ {"rm_disable"}
    \/ /\ t = "io"
       /\ \/ Bound
          \/ pc \in MappedPcs
          \/ pc \in ProbeErrorPcs \ {"disable", "release"}
          \/ pc \in RemovePcs \ {"rm_disable", "rm_release"}
          \/ plat = "membus" /\ (Resting \/ pc \in {"unmap_cs", "exit_unmap"})
    \/ /\ t = "msis"
       /\ \/ Bound
          \/ pc \in MappedPcs \ {"attach"}
          \/ pc \in {"dma_cleanup", "detach", "rm_fvd", "rm_sysfs", "rm_detach"}
    \/ /\ t \in FvdThings /\ plat # "pci"
       /\ \/ Bound
          \/ pc \in FvdPcs \ {"pdev_alloc"}
          \/ pc \in {"sysfs", "rm_fvd"}
          \/ plat = "membus" /\ (Resting \/ pc \in {"exit_unmap", "exit_fvd"})
    \/ /\ t = "sysfs"
       /\ Bound \/ pc \in {"rm_fvd", "rm_sysfs"}
    \/ /\ t = "bound"
       /\ Bound \/ pc \in RemovePcs

\* A module that bifrost_init left loaded although it failed has nothing.
Empty == pc = "loaded" /\ "bdev" \notin up

\* Nothing is up that was not acquired for this step, but what failures left.
AtMost == pc # "oops" => \A t \in up \ Left : Expected(t) /\ ~Empty

\* The event queue and what it needs are there as long as the driver works.
BaseUp ==
    pc # "oops" =>
      /\ pc \notin {"absent", "kzalloc", "return", "loaded"} => "bdev" \in up
      /\ pc \notin {"absent", "kzalloc", "return", "mempool", "kfree", "exit_kfree", "loaded"}
           => "pool" \in up
      /\ pc \notin {"absent", "kzalloc", "return", "mempool", "kfree", "exit_kfree",
                    "workqueue", "mempool_destroy", "exit_pool", "loaded"} => "wq" \in up
      /\ pc = "loaded" /\ "bdev" \in up => {"pool", "wq"} \subseteq up

\* The registers are mapped while the FVD lines or the vectors are attached.
IoPcs == MappedPcs \union {"dma_cleanup", "detach", "rm_fvd", "rm_sysfs", "rm_detach"}

IoUp ==
    plat # "membus" /\ "chrdev" \notin failed =>
      /\ pc \in IoPcs => "io" \in up
      /\ Bound => "io" \in up

\* A handler that runs keeps its line attached.
LineUp == isr # "none" => Line(isr) \in up

\* The controller: what exit_dma freed is not reached again before the next load.
AfterExitDma ==
    \/ pc \in {"unregister", "exit_flush", "exit_pool", "exit_kfree", "absent", "oops"}
    \/ pc \in RemovePcs /\ "drv" \notin up

CtlInv ==
    /\ ctl = "live" /\ "chrdev" \notin failed =>
         /\ pc = "oops" \/ ~AfterExitDma
         /\ pc \notin InitPcs \ {"chrdev"} /\ pc \notin InitErrorPcs
    /\ ctl \in {"freed", "twice"} => FvdFailed \/ (ctl = "freed" /\ AfterExitDma)

\* The device is not bound, or it is being removed from a driver that stays.
EarlyPcs == {"enable", "config", "enable_msi", "request_regions", "iomap", "attach", "dma_init"}
Unbound ==
    \/ pc \in EarlyPcs
    \/ pc \in ProbeErrorPcs \ {"dma_cleanup"}
    \/ pc \in RemovePcs
    \/ Resting /\ "bound" \notin up

\* A controller of a device that is not bound is one that a removal or a failed
\* sysfs_create_group left, and a probe that is to overwrite it binds again.
Orphaned == "unbind" \in binds \/ "sysfs" \in failed \/ "chrdev" \in failed
Rebound == "bind" \in binds \/ "chrdev" \in failed

LeakInv ==
    /\ pc \in RemovePcs /\ "drv" \in up => Orphaned
    /\ ctl = "live" /\ Unbound => Orphaned
    /\ ctl = "live" /\ pc \in EarlyPcs => Rebound
    /\ leaked => Orphaned /\ Rebound

LifeInv == LifeType /\ AtMost /\ BaseUp /\ IoUp /\ LineUp /\ CtlInv /\ LeakInv

-------------------------------------------------------------------------------
(* The tables *)

\* What two tables say side by side, one of them says.
LEMMA OneTable ==
  ASSUME NEW f, NEW g, NEW s \in DOMAIN (f @@ g)
  PROVE  (s \in DOMAIN f /\ (f @@ g)[s] = f[s]) \/ (s \in DOMAIN g /\ (f @@ g)[s] = g[s])
BY DEF @@

LEMMA AcquireTables ==
  ASSUME NEW s \in DOMAIN Acquires
  PROVE  \/ s \in DOMAIN InitSteps /\ Acquires[s] = InitSteps[s]
         \/ s \in DOMAIN PciInitSteps /\ Acquires[s] = PciInitSteps[s]
         \/ s \in DOMAIN ProbeSteps /\ Acquires[s] = ProbeSteps[s]
         \/ s \in DOMAIN IoMapSteps /\ Acquires[s] = IoMapSteps[s]
         \/ s \in DOMAIN SysfsSteps /\ Acquires[s] = SysfsSteps[s]
         \/ s \in DOMAIN AttachSteps /\ Acquires[s] = AttachSteps[s]
         \/ s \in DOMAIN FvdInitSteps /\ Acquires[s] = FvdInitSteps[s]
         \/ s \in DOMAIN MembusInitSteps /\ Acquires[s] = MembusInitSteps[s]
         \/ s \in DOMAIN CdevInitSteps /\ Acquires[s] = CdevInitSteps[s]
<1> DEFINE Says(f) == s \in DOMAIN f /\ Acquires[s] = f[s]
           F2 == InitSteps @@ PciInitSteps
           F3 == F2 @@ ProbeSteps
           F4 == F3 @@ IoMapSteps
           F5 == F4 @@ SysfsSteps
           F6 == F5 @@ AttachSteps
           F7 == F6 @@ FvdInitSteps
           F8 == F7 @@ MembusInitSteps
           F9 == F8 @@ CdevInitSteps
<1>0. Says(F9)
  BY Zenon DEF Acquires
<1>1. ASSUME NEW f, NEW g, Says(f @@ g) PROVE Says(f) \/ Says(g)
  BY <1>1, OneTable
<1> HIDE DEF Says
<1>2. Says(F9) => Says(F8) \/ Says(CdevInitSteps)
  BY <1>1, Zenon
<1>3. Says(F8) => Says(F7) \/ Says(MembusInitSteps)
  BY <1>1, Zenon
<1>4. Says(F7) => Says(F6) \/ Says(FvdInitSteps)
  BY <1>1, Zenon
<1>5. Says(F6) => Says(F5) \/ Says(AttachSteps)
  BY <1>1, Zenon
<1>6. Says(F5) => Says(F4) \/ Says(SysfsSteps)
  BY <1>1, Zenon
<1>7. Says(F4) => Says(F3) \/ Says(IoMapSteps)
  BY <1>1, Zenon
<1>8. Says(F3) => Says(F2) \/ Says(ProbeSteps)
  BY <1>1, Zenon
<1>9. Says(F2) => Says(InitSteps) \/ Says(PciInitSteps)
  BY <1>1, Zenon
<1> HIDE DEF F2, F3, F4, F5, F6, F7, F8, F9
<1> QED BY <1>0, <1>2, <1>3, <1>4, <1>5, <1>6, <1>7, <1>8, <1>9 DEF Says

LEMMA ReleaseTables ==
  ASSUME NEW s \in DOMAIN Releases
  PROVE  \/ s \in DOMAIN ProbeErrors /\ Releases[s] = ProbeErrors[s]
         \/ s \in DOMAIN PostInitErrors /\ Releases[s] = PostInitErrors[s]
         \/ s \in DOMAIN FvdErrors /\ Releases[s] = FvdErrors[s]
         \/ s \in DOMAIN MembusErrors /\ Releases[s] = MembusErrors[s]
         \/ s \in DOMAIN InitErrors /\ Releases[s] = InitErrors[s]
         \/ s \in DOMAIN RemoveSteps /\ Releases[s] = RemoveSteps[s]
         \/ s \in DOMAIN MembusExitSteps /\ Releases[s] = MembusExitSteps[s]
         \/ s \in DOMAIN PciExitSteps /\ Releases[s] = PciExitSteps[s]
         \/ s \in DOMAIN CdevExitSteps /\ Releases[s] = CdevExitSteps[s]
         \/ s \in DOMAIN ExitSteps /\ Releases[s] = ExitSteps[s]
<1> DEFINE Says(f) == s \in DOMAIN f /\ Releases[s] = f[s]
           F2 == ProbeErrors @@ PostInitErrors
           F3 == F2 @@ FvdErrors
           F4 == F3 @@ MembusErrors
           F5 == F4 @@ InitErrors
           F6 == F5 @@ RemoveSteps
           F7 == F6 @@ MembusExitSteps
           F8 == F7 @@ PciExitSteps
           F9 == F8 @@ CdevExitSteps
           F10 == F9 @@ ExitSteps
<1>0. Says(F10)
  BY Zenon DEF Releases
<1>1. ASSUME NEW f, NEW g, Says(f @@ g) PROVE Says(f) \/ Says(g)
  BY <1>1, OneTable
<1> HIDE DEF Says
<1>2. Says(F10) => Says(F9) \/ Says(ExitSteps)
  BY <1>1, Zenon
<1>3. Says(F9) => Says(F8) \/ Says(CdevExitSteps)
  BY <1>1, Zenon
<1>4. Says(F8) => Says(F7) \/ Says(PciExitSteps)
  BY <1>1, Zenon
<1>5. Says(F7) => Says(F6) \/ Says(MembusExitSteps)
  BY <1>1, Zenon
<1>6. Says(F6) => Says(F5) \/ Says(RemoveSteps)
  BY <1>1, Zenon
<1>7. Says(F5) => Says(F4) \/ Says(InitErrors)
  BY <1>1, Zenon
<1>8. Says(F4) => Says(F3) \/ Says(MembusErrors)
  BY <1>1, Zenon
<1>9. Says(F3) => Says(F2) \/ Says(FvdErrors)
  BY <1>1, Zenon
<1>10. Says(F2) => Says(ProbeErrors) \/ Says(PostInitErrors)
  BY <1>1, Zenon
<1> HIDE DEF F2, F3, F4, F5, F6, F7, F8, F9, F10
<1> QED BY <1>0, <1>2, <1>3, <1>4, <1>5, <1>6, <1>7, <1>8, <1>9, <1>10 DEF Says

\* One step: what it adds or removes and where it goes.
Adds(s, add, ok, err) == pc = s /\ Acquires[pc] = Acq(add, ok, err)
Removes(s, del, ok) == pc = s /\ Releases[pc] = Rel(del, ok)

LEMMA AcquireRows ==
  ASSUME pc \in DOMAIN Acquires
  PROVE  \/ Adds("kzalloc", {"bdev"}, {"mempool"}, {"absent"})
         \/ Adds("mempool", {"pool"}, {"workqueue"}, {"kfree"})
         \/ Adds("workqueue", {"wq"}, {IF plat = "membus" THEN "map_cs" ELSE "register"}, {"mempool_destroy"})
         \/ Adds("register", {"drv"}, {"enable", "chrdev"}, {"flush"})
         \/ Adds("enable", {"pcidev"}, {"config"}, {Probed})
         \/ Adds("config", {}, {"enable_msi"}, {Probed})
         \/ Adds("enable_msi", {"msi"}, {"request_regions"}, {Probed})
         \/ Adds("request_regions", {"regions"}, {"iomap"}, {"disable"})
         \/ Adds("iomap", {"io"}, {"attach"}, {"release"})
         \/ Adds("sysfs", {"sysfs", "bound"}, {Probed}, {"unmap"})
         \/ Adds("attach", {"msis"}, {"dma_init"}, {"dma_init"})
         \/ Adds("pdev_alloc", {"pmem"}, {"irq0"}, {FvdErr, FvdOk})
         \/ Adds("irq0", {"irq0"}, {"irq1"}, {"pdev_unregister"})
         \/ Adds("irq1", {"irq1"}, {"irq2"}, {"pdev_unregister"})
         \/ Adds("irq2", {"irq2"}, {FvdOk}, {"pdev_unregister"})
         \/ Adds("map_cs", {"io"}, {"pdev_alloc"}, {"unmap_cs"})
         \/ Adds("chrdev", {"cdev"}, {"loaded"}, {"flush"})
<1>1. CASE pc \in DOMAIN InitSteps /\ Acquires[pc] = InitSteps[pc]
  BY <1>1 DEF Adds, InitSteps
<1>2. CASE pc \in DOMAIN PciInitSteps /\ Acquires[pc] = PciInitSteps[pc]
  BY <1>2 DEF Adds, PciInitSteps
<1>3. CASE pc \in DOMAIN ProbeSteps /\ Acquires[pc] = ProbeSteps[pc]
  BY <1>3 DEF Adds, ProbeSteps
<1>4. CASE pc \in DOMAIN IoMapSteps /\ Acquires[pc] = IoMapSteps[pc]
  BY <1>4 DEF Adds, IoMapSteps
<1>5. CASE pc \in DOMAIN SysfsSteps /\ Acquires[pc] = SysfsSteps[pc]
  BY <1>5 DEF Adds, SysfsSteps
<1>6. CASE pc \in DOMAIN AttachSteps /\ Acquires[pc] = AttachSteps[pc]
  BY <1>6 DEF Adds, AttachSteps
<1>7. CASE pc \in DOMAIN FvdInitSteps /\ Acquires[pc] = FvdInitSteps[pc]
  BY <1>7 DEF Adds, FvdInitSteps
<1>8. CASE pc \in DOMAIN MembusInitSteps /\ Acquires[pc] = MembusInitSteps[pc]
  BY <1>8 DEF Adds, MembusInitSteps
<1>9. CASE pc \in DOMAIN CdevInitSteps /\ Acquires[pc] = CdevInitSteps[pc]
  BY <1>9 DEF Adds, CdevInitSteps
<1> QED BY <1>1, <1>2, <1>3, <1>4, <1>5, <1>6, <1>7, <1>8, <1>9, AcquireTables

LEMMA ReleaseRows ==
  ASSUME pc \in DOMAIN Releases
  PROVE  \/ Removes("unmap", {"io"}, "release")
         \/ Removes("release", {"regions"}, "disable")
         \/ Removes("disable", {"pcidev"}, Probed)
         \/ Removes("detach", {"msis"}, "unmap")
         \/ Removes("pdev_unregister", FvdThings, FvdErr)
         \/ Removes("unmap_cs", {"io"}, "flush")
         \/ Removes("flush", {"wq"}, "mempool_destroy")
         \/ Removes("mempool_destroy", {"pool"}, "kfree")
         \/ Removes("kfree", {"bdev"}, "return")
         \/ Removes("rm_fvd", IF plat = "fvd" THEN FvdThings ELSE {}, "rm_sysfs")
         \/ Removes("rm_sysfs", {"sysfs"}, "rm_detach")
         \/ Removes("rm_detach", {"msis"}, "rm_msi")
         \/ Removes("rm_msi", {"msi"}, "rm_unmap")
         \/ Removes("rm_unmap", {"io"}, "rm_release")
         \/ Removes("rm_release", {"regions"}, "rm_disable")
         \/ Removes("rm_disable", {"pcidev", "bound"}, Removed)
         \/ Removes("exit_unmap", {"io"}, "exit_fvd")
         \/ Removes("exit_fvd", FvdThings, "exit_flush")
         \/ Removes("unregister", {"drv"}, IF "bound" \in up THEN "rm_fvd" ELSE "exit_flush")
         \/ Removes("cdev_exit", {"cdev"}, IF plat = "membus" THEN "exit_unmap" ELSE "exit_dma")
         \/ Removes("exit_flush", {"wq"}, "exit_pool")
         \/ Removes("exit_pool", {"pool"}, "exit_kfree")
         \/ Removes("exit_kfree", {"bdev"}, "absent")
<1>1. CASE pc \in DOMAIN ProbeErrors /\ Releases[pc] = ProbeErrors[pc]
  BY <1>1 DEF Removes, ProbeErrors, FvdThings
<1>2. CASE pc \in DOMAIN PostInitErrors /\ Releases[pc] = PostInitErrors[pc]
  BY <1>2 DEF Removes, PostInitErrors, FvdThings
<1>3. CASE pc \in DOMAIN FvdErrors /\ Releases[pc] = FvdErrors[pc]
  BY <1>3 DEF Removes, FvdErrors, FvdThings
<1>4. CASE pc \in DOMAIN MembusErrors /\ Releases[pc] = MembusErrors[pc]
  BY <1>4 DEF Removes, MembusErrors, FvdThings
<1>5. CASE pc \in DOMAIN InitErrors /\ Releases[pc] = InitErrors[pc]
  BY <1>5 DEF Removes, InitErrors, FvdThings
<1>6. CASE pc \in DOMAIN RemoveSteps /\ Releases[pc] = RemoveSteps[pc]
  BY <1>6 DEF Removes, RemoveSteps, FvdThings
<1>7. CASE pc \in DOMAIN MembusExitSteps /\ Releases[pc] = MembusExitSteps[pc]
  BY <1>7 DEF Removes, MembusExitSteps, FvdThings
<1>8. CASE pc \in DOMAIN PciExitSteps /\ Releases[pc] = PciExitSteps[pc]
  BY <1>8 DEF Removes, PciExitSteps, FvdThings
<1>9. CASE pc \in DOMAIN CdevExitSteps /\ Releases[pc] = CdevExitSteps[pc]
  BY <1>9 DEF Removes, CdevExitSteps, FvdThings
<1>10. CASE pc \in DOMAIN ExitSteps /\ Releases[pc] = ExitSteps[pc]
  BY <1>10 DEF Removes, ExitSteps, FvdThings
<1> QED BY <1>1, <1>2, <1>3, <1>4, <1>5, <1>6, <1>7, <1>8, <1>9, <1>10, ReleaseTables

-------------------------------------------------------------------------------
(* What failures leave *)

LEMMA LeftFacts ==
  /\ Left \subseteq Things \ {"bdev", "pool", "wq", "cdev"}
  /\ failed \cap {"sysfs", "chrdev"} = {} => Left \cap ({"msis"} \union FvdLines) = {}
  /\ "chrdev" \notin failed => Left \cap {"bound", "drv"} = {}
<1>1. \A s \in DOMAIN Residue :
        /\ Residue[s] \subseteq Things \ {"bdev", "pool", "wq", "cdev"}
        /\ s \notin {"sysfs", "chrdev"} => Residue[s] \cap ({"msis"} \union FvdLines) = {}
        /\ s # "chrdev" => Residue[s] \cap {"bound", "drv"} = {}
  BY DEF Residue, Things, FvdLines
<1> QED BY <1>1 DEF Left

LEMMA LeftGrows ==
  ASSUME NEW s, failed' = failed \union {s}
  PROVE  Left \subseteq Left' /\ (s \in DOMAIN Residue => Residue[s] \subseteq Left')
<1>1. Residue' = Residue
  BY DEF Residue, FvdLines, Things
<1> QED BY <1>1 DEF Left

LEMMA LeftStays ==
  ASSUME failed' = failed
  PROVE  Left' = Left
BY DEF Left, Residue, FvdLines, Things

-------------------------------------------------------------------------------
(* The steps that acquire *)

LEMMA AcquireKeeps ==
  ASSUME LifeInv, Acquire
  PROVE  LifeInv'
<1> USE DEF InitPcs, InitErrorPcs, FvdPcs, ProbePcs, ProbeErrorPcs, RemovePcs, ExitPcs, FvdThings,
       FvdLines, MappedPcs
<1> DEFINE Does(s, add, ok) == pc = s /\ up' = up \union add /\ pc' \in ok
<1>1. /\ LifeType /\ AtMost /\ BaseUp /\ IoUp /\ LineUp /\ CtlInv /\ LeakInv
      /\ pc \in DOMAIN Acquires
      /\ up' = up \union Acquires[pc].add /\ pc' \in Acquires[pc].ok /\ ~Taken
      /\ plat' = plat /\ ctl' = ctl /\ isr' = isr /\ failed' = failed
      /\ binds' = binds /\ leaked' = leaked
  BY DEF LifeInv, Acquire, history
<1>2. \/ Does("kzalloc", {"bdev"}, {"mempool"})
      \/ Does("mempool", {"pool"}, {"workqueue"})
      \/ Does("workqueue", {"wq"}, {IF plat = "membus" THEN "map_cs" ELSE "register"})
      \/ Does("register", {"drv"}, {"enable", "chrdev"})
      \/ Does("enable", {"pcidev"}, {"config"})
      \/ Does("config", {}, {"enable_msi"})
      \/ Does("enable_msi", {"msi"}, {"request_regions"})
      \/ Does("request_regions", {"regions"}, {"iomap"})
      \/ Does("iomap", {"io"}, {"attach"})
      \/ Does("sysfs", {"sysfs", "bound"}, {Probed})
      \/ Does("attach", {"msis"}, {"dma_init"})
      \/ Does("pdev_alloc", {"pmem"}, {"irq0"})
      \/ Does("irq0", {"irq0"}, {"irq1"})
      \/ Does("irq1", {"irq1"}, {"irq2"})
      \/ Does("irq2", {"irq2"}, {FvdOk})
      \/ Does("map_cs", {"io"}, {"pdev_alloc"})
      \/ Does("chrdev", {"cdev"}, {"loaded"})
  BY <1>1, AcquireRows DEF Adds, Acq
<1>3. Left' = Left /\ (FvdFailed' <=> FvdFailed)
  BY <1>1, LeftStays DEF FvdFailed
<1>4. LifeType'
  <2>1. pc' \in Pcs /\ up' \subseteq Things
    BY <1>1, <1>2 DEF LifeType, Pcs, Things, Probed, FvdOk
  <2>2. StepsOfPlatform'
    BY <1>1, <1>2, <1>3, LifecycleAssumption DEF LifeType, StepsOfPlatform, Probed, FvdOk
  <2> QED BY <1>1, <2>1, <2>2 DEF LifeType
<1>5. AtMost'
  <2>1. pc # "oops" /\ ~Empty /\ ~Empty'
    BY <1>1, <1>2 DEF Empty, BaseUp, Probed, FvdOk
  <2>2. ASSUME NEW t \in up, t \notin Left
        PROVE  Expected(t)'
    <3>1. Expected(t)
      BY <1>1, <2>1, <2>2 DEF AtMost
    <3> QED BY <1>1, <1>2, <3>1 DEF LifeType, StepsOfPlatform, Expected, Bound, Resting,
            Probed, FvdOk
  <2>3. ASSUME NEW t \in up', t \notin up
        PROVE  Expected(t)'
    BY <1>1, <1>2, <2>3 DEF LifeType, StepsOfPlatform, Expected, Bound, Resting, Probed, FvdOk
  <2> QED BY <1>3, <2>1, <2>2, <2>3 DEF AtMost
<1>6. BaseUp'
  BY <1>1, <1>2 DEF BaseUp, Probed, FvdOk
<1>7. IoUp'
  BY <1>1, <1>2, <1>3, LeftFacts DEF IoUp, IoPcs, AtMost, Expected, Bound, Resting, Probed,
      FvdOk
<1>8. LineUp'
  BY <1>1, <1>2 DEF LineUp, Line
<1>9. CtlInv'
  BY <1>1, <1>2, <1>3 DEF CtlInv, AfterExitDma, Probed, FvdOk
<1>10. LeakInv'
  BY <1>1, <1>2 DEF LeakInv, CtlInv, Unbound, EarlyPcs, Orphaned, Rebound, Resting, Probed,
      FvdOk,
     LifeType, StepsOfPlatform
<1> QED BY <1>4, <1>5, <1>6, <1>7, <1>8, <1>9, <1>10 DEF LifeInv

-------------------------------------------------------------------------------
(* The steps that fail *)

LEMMA AcquireFailsKeeps ==
  ASSUME LifeInv, AcquireFails
  PROVE  LifeInv'
<1> USE DEF InitPcs, InitErrorPcs, FvdPcs, ProbePcs, ProbeErrorPcs, RemovePcs, ExitPcs, FvdThings,
       FvdLines, MappedPcs
<1> DEFINE Fails(s, err) == pc = s /\ pc' \in err
<1>1. /\ LifeType /\ AtMost /\ BaseUp /\ IoUp /\ LineUp /\ CtlInv /\ LeakInv
      /\ pc \in DOMAIN Acquires
      /\ pc' \in Acquires[pc].err /\ failed' = failed \union {pc}
      /\ up' \in IF pc = "iomap" THEN {up, up \union {"onebar"}} ELSE {up}
      /\ plat' = plat /\ ctl' = ctl /\ isr' = isr /\ binds' = binds /\ leaked' = leaked
  BY DEF LifeInv, AcquireFails
<1>2. \/ Fails("kzalloc", {"absent"})
      \/ Fails("mempool", {"kfree"})
      \/ Fails("workqueue", {"mempool_destroy"})
      \/ Fails("register", {"flush"})
      \/ Fails("enable", {Probed})
      \/ Fails("config", {Probed})
      \/ Fails("enable_msi", {Probed})
      \/ Fails("request_regions", {"disable"})
      \/ Fails("iomap", {"release"})
      \/ Fails("sysfs", {"unmap"})
      \/ Fails("attach", {"dma_init"})
      \/ Fails("pdev_alloc", {FvdErr, FvdOk})
      \/ Fails("irq0", {"pdev_unregister"})
      \/ Fails("irq1", {"pdev_unregister"})
      \/ Fails("irq2", {"pdev_unregister"})
      \/ Fails("map_cs", {"unmap_cs"})
      \/ Fails("chrdev", {"flush"})
  BY <1>1, AcquireRows DEF Adds, Acq
<1>3. Left \subseteq Left' /\ (pc \in DOMAIN Residue => Residue[pc] \subseteq Left')
  BY <1>1, LeftGrows
<1>4. /\ FvdFailed => FvdFailed'
      /\ pc \in {"pdev_alloc", "irq0", "irq1", "irq2"} => FvdFailed'
  BY <1>1 DEF FvdFailed
<1>5. /\ pc # "iomap" => up' = up
      /\ pc = "iomap" => up \subseteq up' /\ up' \subseteq up \union {"onebar"}
      /\ "bdev" \in up' <=> "bdev" \in up
      /\ "drv" \in up' <=> "drv" \in up
      /\ "bound" \in up' <=> "bound" \in up
  BY <1>1
<1>6. LifeType'
  <2>1. pc' \in Pcs /\ up' \subseteq Things
    BY <1>1, <1>2 DEF LifeType, Pcs, Things, Probed, FvdOk, FvdErr
  <2>2. StepsOfPlatform'
    BY <1>1, <1>2, <1>4, <1>5, LifecycleAssumption
       DEF LifeType, StepsOfPlatform, Probed, FvdOk, FvdErr
  <2> QED BY <1>1, <2>1, <2>2 DEF LifeType
<1>7. AtMost'
  <2>1. pc # "oops" /\ ~Empty /\ ~Empty'
    BY <1>1, <1>2, <1>5 DEF Empty, BaseUp, Probed, FvdOk, FvdErr
  <2>2. ASSUME NEW t \in up, t \notin Left'
        PROVE  Expected(t)'
    <3>1. Expected(t) /\ t \in Things
      BY <1>1, <1>3, <2>1, <2>2 DEF AtMost, LifeType
    <3>2. pc \in DOMAIN Residue => t \notin Residue[pc]
      BY <1>3, <2>2
    <3>3. CASE pc \in {"kzalloc", "mempool", "workqueue", "register", "enable", "attach", "map_cs"}
      BY <1>1, <1>2, <1>5, <3>1, <3>3 DEF LifeType, StepsOfPlatform, Expected, Bound, Resting,
         Probed
    <3>4. CASE pc \in {"config", "enable_msi", "request_regions", "iomap"}
      BY <1>1, <1>2, <1>5, <3>1, <3>2, <3>4 DEF LifeType, StepsOfPlatform, Expected, Bound,
         Resting, Probed, Residue
    <3>5. CASE pc \in {"pdev_alloc", "irq0", "irq1", "irq2"}
      BY <1>1, <1>2, <1>5, <3>1, <3>2, <3>5 DEF LifeType, StepsOfPlatform, Expected, Bound,
         Resting, Residue, FvdOk, FvdErr
    <3>6. CASE pc \in {"sysfs", "chrdev"}
      BY <1>1, <1>2, <1>5, <3>1, <3>2, <3>6 DEF LifeType, StepsOfPlatform, Expected, Bound,
         Resting, Residue, Things
    <3> QED BY <1>2, <3>3, <3>4, <3>5, <3>6
  <2>3. ASSUME NEW t \in up', t \notin up
        PROVE  t \in Left'
    BY <1>3, <1>5, <2>3 DEF Residue
  <2> QED BY <2>1, <2>2, <2>3 DEF AtMost
<1>8. BaseUp'
  BY <1>1, <1>2, <1>5 DEF BaseUp, Probed, FvdOk, FvdErr
<1>9. IoUp'
  BY <1>1, <1>2, <1>5, LeftFacts DEF IoUp, IoPcs, AtMost, Expected, Bound, Resting, Probed,
      FvdOk,
      FvdErr
<1>10. LineUp'
  BY <1>1, <1>5 DEF LineUp, Line
<1>11. CtlInv'
  BY <1>1, <1>2, <1>4, <1>5 DEF CtlInv, AfterExitDma, LifeType, StepsOfPlatform, Probed, FvdOk,
     FvdErr
<1>12. LeakInv'
  <2>1. /\ (Orphaned => Orphaned') /\ (Rebound => Rebound')
        /\ pc \in {"sysfs", "chrdev"} => Orphaned'
    BY <1>1 DEF Orphaned, Rebound
  <2> QED BY <1>1, <1>2, <1>5, <2>1 DEF LeakInv, CtlInv, Unbound, EarlyPcs, Resting, Probed,
      FvdOk,
          FvdErr, LifeType, StepsOfPlatform
<1> QED BY <1>6, <1>7, <1>8, <1>9, <1>10, <1>11, <1>12 DEF LifeInv

-------------------------------------------------------------------------------
(* The steps that release *)

LEMMA ReleaseKeeps ==
  ASSUME LifeInv, Release
  PROVE  LifeInv'
<1> USE DEF InitPcs, InitErrorPcs, FvdPcs, ProbePcs, ProbeErrorPcs, RemovePcs, ExitPcs, FvdThings,
       FvdLines, MappedPcs
<1> DEFINE Does(s, del, ok) == pc = s /\ up' = up \ del /\ pc' = ok
<1>1. /\ LifeType /\ AtMost /\ BaseUp /\ IoUp /\ LineUp /\ CtlInv /\ LeakInv
      /\ pc \in DOMAIN Releases
      /\ up' = up \ Releases[pc].del /\ pc' = Releases[pc].ok
      /\ Quiet(Releases[pc].del)
      /\ plat' = plat /\ ctl' = ctl /\ isr' = isr /\ failed' = failed /\ binds' = binds
      /\ leaked' => leaked \/ ("bdev" \in Releases[pc].del /\ ctl = "live")
  BY DEF LifeInv, Release
<1>2. \/ Does("unmap", {"io"}, "release")
      \/ Does("release", {"regions"}, "disable")
      \/ Does("disable", {"pcidev"}, Probed)
      \/ Does("detach", {"msis"}, "unmap")
      \/ Does("pdev_unregister", FvdThings, FvdErr)
      \/ Does("unmap_cs", {"io"}, "flush")
      \/ Does("flush", {"wq"}, "mempool_destroy")
      \/ Does("mempool_destroy", {"pool"}, "kfree")
      \/ Does("kfree", {"bdev"}, "return")
      \/ Does("rm_fvd", IF plat = "fvd" THEN FvdThings ELSE {}, "rm_sysfs")
      \/ Does("rm_sysfs", {"sysfs"}, "rm_detach")
      \/ Does("rm_detach", {"msis"}, "rm_msi")
      \/ Does("rm_msi", {"msi"}, "rm_unmap")
      \/ Does("rm_unmap", {"io"}, "rm_release")
      \/ Does("rm_release", {"regions"}, "rm_disable")
      \/ Does("rm_disable", {"pcidev", "bound"}, Removed)
      \/ Does("exit_unmap", {"io"}, "exit_fvd")
      \/ Does("exit_fvd", FvdThings, "exit_flush")
      \/ Does("unregister", {"drv"}, IF "bound" \in up THEN "rm_fvd" ELSE "exit_flush")
      \/ Does("cdev_exit", {"cdev"}, IF plat = "membus" THEN "exit_unmap" ELSE "exit_dma")
      \/ Does("exit_flush", {"wq"}, "exit_pool")
      \/ Does("exit_pool", {"pool"}, "exit_kfree")
      \/ Does("exit_kfree", {"bdev"}, "absent")
  BY <1>1, ReleaseRows DEF Removes, Rel
<1>3. Left' = Left /\ (FvdFailed' <=> FvdFailed)
  BY <1>1, LeftStays DEF FvdFailed
<1>4. LifeType'
  <2>1. pc' \in Pcs /\ up' \subseteq Things
    BY <1>1, <1>2 DEF LifeType, Pcs, Probed, FvdErr, Removed
  <2>2. StepsOfPlatform'
    BY <1>1, <1>2, <1>3, LifecycleAssumption
       DEF LifeType, StepsOfPlatform, Probed, FvdErr, Removed
  <2> QED BY <1>1, <2>1, <2>2 DEF LifeType
<1>5. AtMost'
  <2>1. pc # "oops" /\ ~Empty /\ ~Empty'
    BY <1>1, <1>2 DEF Empty, BaseUp, Probed, FvdErr, Removed
  <2>2. ASSUME NEW t \in up', t \notin Left
        PROVE  Expected(t)'
    <3>1. Expected(t)
      BY <1>1, <2>1, <2>2 DEF AtMost
    <3> QED BY <1>1, <1>2, <2>2, <3>1, LifecycleAssumption DEF LifeType, StepsOfPlatform,
        Expected,
            Bound, Resting, Probed, FvdErr, Removed
  <2> QED BY <1>3, <2>1, <2>2 DEF AtMost
<1>6. BaseUp'
  BY <1>1, <1>2 DEF BaseUp, Probed, FvdErr, Removed
<1>7. IoUp'
  BY <1>1, <1>2, <1>3, LeftFacts DEF IoUp, IoPcs, AtMost, Expected, Bound, Resting, Probed,
      FvdErr,
      Removed,
     LifeType, StepsOfPlatform
<1>8. LineUp'
  BY <1>1 DEF LineUp, Quiet
<1>9. CtlInv'
  BY <1>1, <1>2, <1>3 DEF CtlInv, AfterExitDma, LifeType, StepsOfPlatform, Probed, FvdErr,
      Removed
<1>10. LeakInv'
  <2>1. "bdev" \in Releases[pc].del => pc \in {"kfree", "exit_kfree"}
    BY <1>1, ReleaseRows DEF Removes, Rel
  <2>2. leaked' => Orphaned /\ Rebound
    BY <1>1, <2>1 DEF LeakInv, CtlInv, AfterExitDma, Orphaned, Rebound
  <2>3. (Orphaned' <=> Orphaned) /\ (Rebound' <=> Rebound)
    BY <1>1 DEF Orphaned, Rebound
  <2>4. /\ (pc \in RemovePcs /\ "drv" \in up => Orphaned)'
        /\ (ctl = "live" /\ Unbound => Orphaned)'
    BY <1>1, <1>2, <2>3 DEF LeakInv, CtlInv, AfterExitDma, Unbound, EarlyPcs, Orphaned,
        Resting, Probed,
       FvdErr, Removed, LifeType, StepsOfPlatform
  <2>5. (ctl = "live" /\ pc \in EarlyPcs => Rebound)'
    BY <1>1, <1>2, <2>3 DEF LeakInv, EarlyPcs, Probed, FvdErr, Removed
  <2> QED BY <2>2, <2>3, <2>4, <2>5 DEF LeakInv
<1> QED BY <1>4, <1>5, <1>6, <1>7, <1>8, <1>9, <1>10 DEF LifeInv

-------------------------------------------------------------------------------
(* The other steps *)

LEMMA OthersKeep ==
  ASSUME LifeInv,
         \/ Insmod \/ DmaInit \/ DmaCleanup \/ InitReturns
         \/ Rmmod \/ Rebind \/ RebindGone
  PROVE  LifeInv'
<1> USE DEF InitPcs, InitErrorPcs, FvdPcs, ProbePcs, ProbeErrorPcs, RemovePcs, ExitPcs, FvdThings,
       FvdLines, MappedPcs
<1> DEFINE Freed == ctl' = IF ctl = "null" THEN "null" ELSE IF ctl = "live" THEN "freed" ELSE "twice"
<1>1. /\ LifeType /\ AtMost /\ BaseUp /\ IoUp /\ LineUp /\ CtlInv /\ LeakInv
      /\ plat' = plat /\ up' = up /\ isr' = isr /\ failed \subseteq failed'
      /\ pc # "oops"
  BY DEF LifeInv, Insmod, DmaInit, DmaCleanup, InitReturns, Rmmod, Rebind, RebindGone, history
<1>2. \/ pc = "absent" /\ pc' = "kzalloc" /\ ctl' = "null"
      \/ /\ pc = "dma_init" /\ ctl' = "live" /\ failed' = failed
         /\ pc' = IF plat = "fvd" THEN "pdev_alloc" ELSE "sysfs"
      \/ /\ pc = "dma_init" /\ ctl' = "null" /\ failed' = failed \union {pc} /\ pc' = "detach"
      \/ pc = "dma_cleanup" /\ pc' = "detach" /\ Freed
      \/ pc = "exit_dma" /\ pc' = "unregister" /\ Freed
      \/ /\ pc = "return" /\ pc' \in {"absent", "loaded"} /\ ctl' = ctl
      \/ /\ pc = "loaded" /\ pc' = (IF "bdev" \in up THEN "cdev_exit" ELSE "oops") /\ ctl' = ctl
      \/ /\ pc = "loaded" /\ {"drv", "bdev"} \subseteq up /\ ctl' = ctl
         /\ pc' = IF "bound" \in up THEN "rm_fvd" ELSE "enable"
      \/ pc' = "oops" /\ ctl' = ctl
  <2>1. CASE DmaCleanup
    <3>1. ctl \in {"null", "live", "freed", "twice"}
      BY <1>1 DEF LifeType
    <3>2. Freed
      BY <2>1, <3>1 DEF DmaCleanup
    <3> QED BY <2>1, <3>2 DEF DmaCleanup
  <2>2. CASE ~DmaCleanup
    BY <1>1, <2>2 DEF Insmod, DmaInit, InitReturns, Rmmod, Rebind, RebindGone, history
  <2> QED BY <2>1, <2>2
<1>3. Left \subseteq Left' /\ (pc = "dma_init" /\ pc' = "detach" => "msi" \in Left')
  <2>1. CASE failed' = failed /\ ~(pc = "dma_init" /\ pc' = "detach")
    BY <2>1, LeftStays
  <2>2. CASE pc = "dma_init" /\ failed' = failed \union {pc}
    <3>1. pc \in DOMAIN Residue /\ "msi" \in Residue[pc]
      BY <2>2 DEF Residue
    <3> QED BY <2>2, <3>1, LeftGrows
  <2>3. \/ failed' = failed /\ ~(pc = "dma_init" /\ pc' = "detach")
        \/ pc = "dma_init" /\ failed' = failed \union {pc}
    BY DEF Insmod, DmaInit, DmaCleanup, InitReturns, Rmmod, Rebind, RebindGone, history
  <2> QED BY <2>1, <2>2, <2>3
<1>4. LifeType'
  <2>1. pc' \in Pcs /\ ctl' \in {"null", "live", "freed", "twice"}
    BY <1>1, <1>2 DEF LifeType, Pcs
  <2>2. StepsOfPlatform'
    BY <1>1, <1>2, LifecycleAssumption DEF LifeType, StepsOfPlatform, FvdFailed
  <2> QED BY <1>1, <2>1, <2>2 DEF LifeType
<1>5. AtMost'
  <2>1. pc' # "oops" => ~Empty
    BY <1>1, <1>2 DEF Empty
  <2>2. ASSUME NEW t \in up, t \notin Left', pc' # "oops"
        PROVE  Expected(t)' /\ ~Empty'
    <3>1. Expected(t)
      BY <1>1, <1>3, <2>2 DEF AtMost
    <3>2. ~Empty'
      BY <1>1, <1>2, <1>3, <2>2, <3>1 DEF Empty, Expected, Bound, Resting
    <3>3. CASE pc = "loaded"
      BY <1>1, <1>2, <2>2, <3>1, <3>2, <3>3 DEF LifeType, StepsOfPlatform, Expected, Bound,
          Resting
    <3>4. CASE pc = "dma_init"
      BY <1>1, <1>2, <1>3, <2>2, <3>1, <3>2, <3>4 DEF LifeType, StepsOfPlatform, Expected,
          Bound, Resting
    <3>5. CASE pc \in {"dma_cleanup", "exit_dma"}
      BY <1>1, <1>2, <2>2, <3>1, <3>2, <3>5 DEF LifeType, StepsOfPlatform, Expected, Bound,
          Resting
    <3>6. CASE pc \in {"absent", "return"}
      BY <1>1, <1>2, <2>2, <3>1, <3>2, <3>6 DEF Expected, Bound, Resting
    <3> QED BY <1>1, <1>2, <2>2, <3>2, <3>3, <3>4, <3>5, <3>6 DEF LifeType, Pcs
  <2> QED BY <1>1, <2>2 DEF AtMost
<1>6. BaseUp'
  BY <1>1, <1>2, LeftFacts DEF BaseUp, AtMost, Expected, Bound, Resting
<1>7. IoUp'
  BY <1>1, <1>2, LeftFacts DEF IoUp, IoPcs, AtMost, Expected, Bound, Resting, LifeType,
      StepsOfPlatform
<1>8. LineUp'
  BY <1>1 DEF LineUp
<1>9. CtlInv'
  <2>1. FvdFailed => FvdFailed'
    BY <1>1 DEF FvdFailed
  <2> QED BY <1>1, <1>2, <2>1 DEF CtlInv, AfterExitDma, LifeType, StepsOfPlatform
<1>10. LeakInv'
  <2>0. leaked' => leaked \/ (pc = "dma_init" /\ ctl = "live")
    BY Zenon DEF Insmod, DmaInit, DmaCleanup, InitReturns, Rmmod, Rebind, RebindGone, history
  <2>1. /\ binds \subseteq binds'
        /\ pc = "loaded" /\ pc' = "enable" => "bind" \in binds'
        /\ pc = "loaded" /\ pc' = "rm_fvd" => "unbind" \in binds'
    BY DEF Insmod, DmaInit, DmaCleanup, InitReturns, Rmmod, Rebind, RebindGone, history
  <2>2. (Orphaned => Orphaned') /\ (Rebound => Rebound')
    BY <1>1, <2>1 DEF Orphaned, Rebound
  <2>3. (leaked => Orphaned /\ Rebound)'
    BY <1>1, <2>0, <2>2 DEF LeakInv, Unbound, EarlyPcs
  <2>4. (pc \in RemovePcs /\ "drv" \in up => Orphaned)'
    BY <1>1, <1>2, <2>1 DEF Orphaned
  <2>5. (ctl = "live" /\ Unbound => Orphaned)'
    BY <1>1, <1>2, <2>1, <2>2 DEF LeakInv, CtlInv, AfterExitDma, Unbound, EarlyPcs, Orphaned,
        Resting,
       LifeType, StepsOfPlatform
  <2>6. (ctl = "live" /\ pc \in EarlyPcs => Rebound)'
    BY <1>1, <1>2, <2>1, <2>2 DEF LeakInv, EarlyPcs, Rebound
  <2> QED BY <2>3, <2>4, <2>5, <2>6 DEF LeakInv
<1> QED BY <1>4, <1>5, <1>6, <1>7, <1>8, <1>9, <1>10 DEF LifeInv

\* Interrupt handlers and the worker leave the loading thread where it is, unless one of
\* them faults.
LEMMA HandlersKeep ==
  ASSUME LifeInv,
         \/ \E h \in Sources[plat] : Interrupt(h)
         \/ MsiReturns \/ FvdReturns \/ HandlerFaults \/ Work
  PROVE  LifeInv'
<1>1. /\ LifeType /\ AtMost /\ BaseUp /\ IoUp /\ LineUp /\ CtlInv /\ LeakInv
      /\ plat' = plat /\ up' = up /\ ctl' = ctl /\ failed' = failed
      /\ binds' = binds /\ leaked' = leaked
      /\ \/ pc' = pc
         \/ pc' = "oops" /\ isr' = "none"
      /\ isr' # isr /\ isr' # "none" =>
           isr' \in Sources[plat] /\ Line(isr') \in up
  BY DEF LifeInv, Interrupt, MsiReturns, FvdReturns, HandlerFaults, Work, history
<1>2. Left' = Left /\ (FvdFailed' <=> FvdFailed)
  BY <1>1, LeftStays DEF FvdFailed
<1>3. LifeType'
  <2>1. isr' \in {"none", "dma", "other"} \union FvdLines
    <3>1. plat \in {"pci", "fvd", "membus"}
      BY <1>1, LifecycleAssumption DEF LifeType
    <3>2. Sources[plat] \subseteq {"dma", "other"} \union FvdLines
      BY <3>1 DEF Sources, FvdLines
    <3> QED BY <1>1, <3>2 DEF LifeType
  <2>2. StepsOfPlatform'
    BY <1>1, <1>2 DEF LifeType, StepsOfPlatform, FvdPcs, ProbePcs, ProbeErrorPcs, RemovePcs
  <2> QED BY <1>1, <2>1, <2>2 DEF LifeType, Pcs
<1>4. AtMost'
  <2>1. CASE pc' = pc
    BY <1>1, <1>2, <2>1 DEF AtMost, Expected, Bound, Resting, Empty
  <2> QED BY <1>1, <2>1 DEF AtMost
<1>5. BaseUp'
  BY <1>1 DEF BaseUp
<1>6. IoUp'
  <2>1. "oops" \notin IoPcs
    BY DEF IoPcs, MappedPcs, FvdPcs
  <2> QED BY <1>1, <2>1 DEF IoUp, Bound, Resting
<1>7. LineUp'
  BY <1>1 DEF LineUp, Line
<1>8. CtlInv'
  <2>1. "oops" \notin InitPcs \union InitErrorPcs
    BY DEF InitPcs, InitErrorPcs
  <2> QED BY <1>1, <1>2, <2>1 DEF CtlInv, AfterExitDma, InitPcs, InitErrorPcs, RemovePcs
<1>9. LeakInv'
  <2>1. (Orphaned' <=> Orphaned) /\ (Rebound' <=> Rebound)
    BY <1>1 DEF Orphaned, Rebound
  <2>2. CASE pc' = pc
    <3>1. (Unbound' <=> Unbound) /\ RemovePcs' = RemovePcs /\ EarlyPcs' = EarlyPcs
      BY <1>1, <2>2 DEF Unbound, EarlyPcs, RemovePcs, ProbeErrorPcs, Resting
    <3> QED BY <1>1, <2>1, <2>2, <3>1 DEF LeakInv
  <2>3. CASE pc' = "oops"
    <3>1. ~Unbound' /\ pc' \notin RemovePcs' /\ pc' \notin EarlyPcs'
      BY <2>3 DEF Unbound, EarlyPcs, RemovePcs, ProbeErrorPcs, Resting
    <3> QED BY <1>1, <2>1, <3>1 DEF LeakInv
  <2> QED BY <1>1, <2>2, <2>3
<1> QED BY <1>3, <1>4, <1>5, <1>6, <1>7, <1>8, <1>9 DEF LifeInv

LEMMA RebootKeeps ==
  ASSUME LifeInv, Reboot
  PROVE  LifeInv'
BY DEF LifeInv, Reboot, LifeType, StepsOfPlatform, AtMost, BaseUp, IoUp, LineUp, CtlInv,
    LeakInv,
   Bound, Resting, Pcs, FvdPcs, ProbePcs, ProbeErrorPcs, RemovePcs, IoPcs, MappedPcs, InitPcs,
   InitErrorPcs

LEMMA StutterKeeps ==
  ASSUME LifeInv, UNCHANGED vars
  PROVE  LifeInv'
<1>1. Left' = Left
  BY LeftStays DEF vars
<1> QED BY <1>1 DEF vars, LifeInv, LifeType, StepsOfPlatform, AtMost, BaseUp, IoUp, LineUp,
    Line,
       CtlInv, AfterExitDma, Bound, Resting, Empty, Expected, FvdFailed, LeakInv, Unbound,
       Orphaned, Rebound

\* The inductive invariant.
LEMMA LifeInvariant == Spec => []LifeInv
<1>1. Init => LifeInv
  <2> SUFFICES ASSUME Init PROVE LifeInv
    OBVIOUS
  <2>1. LifeType
    BY LifecycleAssumption DEF Init, LifeType, StepsOfPlatform, Pcs, FvdPcs, ProbePcs,
       ProbeErrorPcs, RemovePcs
  <2>2. AtMost /\ BaseUp /\ LineUp
    BY DEF Init, AtMost, BaseUp, LineUp
  <2>3. IoUp /\ CtlInv /\ LeakInv
    BY DEF Init, IoUp, CtlInv, LeakInv, IoPcs, MappedPcs, FvdPcs, Bound, Resting, RemovePcs
  <2> QED BY <2>1, <2>2, <2>3 DEF LifeInv
<1>2. LifeInv /\ [Next]_vars => LifeInv'
  BY AcquireKeeps, AcquireFailsKeeps, ReleaseKeeps, OthersKeep, HandlersKeep, RebootKeeps,
     StutterKeeps DEF Next
<1> QED BY <1>1, <1>2, PTL DEF Spec

-------------------------------------------------------------------------------
(* The theorems *)

\* Whatever fails in bifrost_init, in a probe or at exit, and however often the device is
\* bound again: when the module is gone nothing is left but what the failed steps account
\* for, and a DMA controller is lost only by binding again after a removal or a failed
\* sysfs_create_group, or by a failed bifrost_cdev_init.
THEOREM NothingIsLeft == Spec => []NothingLeftBehind
<1>1. LifeInv => NothingLeftBehind
  <2> SUFFICES ASSUME LifeInv
               PROVE  /\ pc = "absent" => up \subseteq Left
                      /\ leaked => \/ "bind" \in binds /\ ("unbind" \in binds \/ "sysfs" \in failed)
                                   \/ "chrdev" \in failed
    BY DEF NothingLeftBehind, Left
  <2>1. ASSUME pc = "absent"
        PROVE  up \subseteq Left
    <3>1. \A t \in Things : ~Expected(t)
      BY <2>1 DEF Expected, Bound, Resting, MappedPcs, FvdPcs, ProbePcs, ProbeErrorPcs,
          RemovePcs
    <3> QED BY <2>1, <3>1 DEF LifeInv, LifeType, AtMost
  <2>2. leaked => Orphaned /\ Rebound
    BY DEF LifeInv, LeakInv
  <2> QED BY <2>1, <2>2 DEF Orphaned, Rebound
<1> QED BY <1>1, LifeInvariant, PTL

\* Interrupts are freed before what their handlers use, at exit and on every error path
\* but those of sysfs_create_group and bifrost_cdev_init.
THEOREM HandlersSafe == Spec => []HandlersFindWhatTheyUse
<1>1. ASSUME LifeInv
      PROVE  HandlersFindWhatTheyUse
  <2> SUFFICES ASSUME isr # "none", failed \cap {"sysfs", "chrdev"} = {}, pc # "oops"
               PROVE  Needs(isr) \ (IF plat = "membus" THEN {"io"} ELSE {}) \subseteq up
    BY DEF HandlersFindWhatTheyUse
  <2>1. /\ LifeType /\ AtMost /\ BaseUp /\ IoUp
        /\ Line(isr) \in up /\ Line(isr) \in {"msis"} \union FvdLines
    BY <1>1 DEF LifeInv, LineUp, Line
  <2>2. Expected(Line(isr)) /\ ~Empty
    BY <2>1, LeftFacts DEF AtMost
  <2>3. {"bdev", "pool", "wq"} \subseteq up
    BY <2>1, <2>2 DEF BaseUp, Empty, Expected, Bound, Resting, FvdThings, FvdLines, MappedPcs,
       FvdPcs
  <2>4. ASSUME plat # "membus"
        PROVE  "io" \in up
    <3>1. Bound \/ pc \in IoPcs
      BY <2>1, <2>2, <2>4 DEF Expected, FvdThings, FvdLines, IoPcs, MappedPcs, FvdPcs
    <3> QED BY <2>1, <2>4, <3>1 DEF IoUp
  <2> QED BY <2>3, <2>4 DEF Needs, Posts
<1> QED BY <1>1, LifeInvariant, PTL

\* Of the two calls of bifrost_dma_cleanup only one finds a controller, unless
\* bifrost_fvd_init failed in a probe: then it is freed twice.
THEOREM FreedOnce == Spec => []ControllerFreedOnce
<1>1. LifeInv => ControllerFreedOnce
  BY DEF LifeInv, CtlInv, ControllerFreedOnce, FvdFailed
<1> QED BY <1>1, LifeInvariant, PTL
================================================================================
