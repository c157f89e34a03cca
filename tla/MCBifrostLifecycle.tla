------------------------- MODULE MCBifrostLifecycle -------------------------
(* All platforms, and every step of the set-up may fail.                   *)
EXTENDS BifrostLifecycle

MCPlatforms == {"pci", "fvd", "membus"}

MCMayFail ==
    {"kzalloc", "mempool", "workqueue", "register", "enable", "config", "enable_msi",
     "request_regions", "iomap", "attach", "dma_init", "pdev_alloc", "irq0", "irq1",
     "irq2", "map_cs", "sysfs", "chrdev"}
=============================================================================
