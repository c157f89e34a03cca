# TLA+ models of the FLIR bifrost, cmemk and animal-i2c kernel modules

The repository holds three Linux kernel modules:

* **bifrost** (`src/bifrost/`): the driver of the FPGA on FLIR cameras. User
  programs read and write FPGA registers, start DMA transfers and wait for
  events (interrupts, ends of transfers).
* **cmemk** (`src/cmemk/`): physically contiguous memory, from pools of buffers
  and from a heap, shared between processes.
* **animal-i2c** (`src/animal-i2c/`): I2C transfers with a GPIO pin as chip
  select, and a simulated I2C adapter whose slave is a user process.

What is hard in them is concurrency: user threads on several CPUs, interrupt
handlers, a work queue, processes that are interrupted or die. The models keep
the control of the code (where locks are taken and dropped, what is decided
before and used after) and abstract the data.

Run a check with `tlc -config <cfg> <module>`, a proof with `tlapm <module>`.
`PROJECT.json` maps every definition to the lines it models.

## 1. Inventory

| Component | State | Operations | What is hard | What makes it correct |
|---|---|---|---|---|
| DMA engine, `bifrost_dma.c` | queue of requests, idle bitmap, request in progress per channel, tickets | `alloc_dma_req`, `start_dma_xfer`, `dma_done`, MSI handler | the FPGA is programmed after the lock is dropped; handlers of different channels and submitting threads interleave; request memory is reused | one owner per request; no channel lost or given out twice; every transfer announced once; FIFO |
| START_DMA ioctls, `bifrost_cdev.c` | one static bounce buffer, a completion on the caller's stack | `do_dma_start_xfer`, `prepare_dma_buffer`, `finish_dma_buffer` | the buffer has no lock; the wait times out while the request points to the stack | a call moves its own data, returns when its own transfer ended |
| Events, `bifrost_cdev.c`, `bifrost_main.c` | list of handles, event list per handle, work queue, memory pool | open, release, ENABLE_EVENT, IRQ_FORWARDING, DEQUEUE_EVENT, poll, the worker, `bifrost_create_event_in_atomic` | close during delivery; poll against wake-up; exhausted pool; recycled handle addresses | bounded ordered lists, no lost wake-up, nothing delivered to a freed handle |
| Registers, `bifrost_cdev.c`, `bifrost_pci.c`, `bifrost_membus.c` | FPGA registers, a spin lock per bank | READ, WRITE, MODIFY, `bifrost_dma_chan_start` | the DMA registers are programmed in interrupt context too | atomic updates; sequences do not mix; no handler waits for the task it interrupted |
| Memory bus, `bifrost_membus.c`, `bifrost_cdev.c` | SDRAM window registers, data port, `iolock`, a kernel buffer per call | `bifrost_do_xfer`, WriteSDRAM, ReadSDRAM, FVD interrupt handlers | the window takes three register writes, and users can write the same registers; user copies fail | a transfer moves its own bytes from and to the SDRAM it names |
| Driver life cycle, `bifrost_main.c`, `bifrost_pci.c`, `bifrost_membus.c` | what has been set up | init, exit, probe, remove | error paths, interrupts while the driver is half set up | everything set up is torn down, once and in order |
| CMEM heap, `cmemk.c` | free list threaded through free memory | `HeapMem_alloc` (with dry run), `HeapMem_free` | splitting with alignment, coalescing, long call sequences | free and live blocks partition the heap; allocation fails only without room |
| CMEM pools, `cmemk.c` | blocks and what is left of them, free and busy list per pool, registered users per buffer, reference count | `cmem_init`, `cmem_exit`, ALLOC, ALLOCHEAP, FREE, REGUSER, GETPOOL, mmap, open, release | the device is live before the pools; `release` decides before it locks and locks per pool, and can be interrupted; entries are read without the lock | buffers do not overlap; a buffer is busy exactly while someone is registered |
| I2C device, `i2c_main.c` | what the module acquired, adapter and pin per handle, lock per adapter | init, exit, open, release, SET_ADAPTER, SET_GPIO, all transfer commands | handles share adapters and pins; GPIO calls and init steps fail | one chip selected per adapter, under the lock; nothing left behind |
| Simulated adapter, `i2c_usim.c` | queue of reference-counted events, the adapter's users | init, exit, senders, poll, GET_EVENT, PUT_EVENT, open, release | sender interrupted and simulator killed at any point; poll against post | no use after free; every sender returns |

Interactions: a START_DMA ioctl calls the engine; the engine's interrupt handler
restarts the channel, completes the waiting ioctl and hands an event to the work
queue; the worker puts it on the lists of the handles. The engine and the
register ioctls meet at the spin lock of a register bank; SDRAM transfers and the
register ioctls meet at the window registers, which no common lock protects. The CMEM pools use
the heap. The I2C device sends through the simulated adapter as through any other.

### Not modelled

With the reasons (also in `PROJECT.json`): sysfs statistics and /proc output
(display only), PCIe configuration (register I/O without driver state), cache
maintenance and the page tables of mmap in cmemk, packaging, and the git
submodule `flir_chardev_mod`, which is not part of the repository.

## 2. Modules

Component modules have their state as VARIABLES, one action per critical
section or unlocked step, and their properties at the end. `MC*` modules only
give bounds. An operator that ends in a description of a mistake
(`FreeChanForgotten`, `RoomOffByOne`) stands before the one it varies; it is
not used by the specification and serves to see that a property can fail.

* **DmaService** — what the engine promises: transfers start in the order of
  submission, at most `Capacity` at a time, each finishes once.
* **BifrostDma** — the engine. `queue`, `idle`, `inProgress` are the fields of the
  controller; a thread goes `user -> ready -> kick -> started` through
  `do_dma_start_xfer`: `AllocReq`, `StartXfer` (the locked part of
  `start_dma_xfer`), `KickOff` (programs the FPGA without the lock), `Return`. A
  handler goes `off -> refill -> kick -> event` through `dma_done` and
  `dma_msi_handler`: `TakeDone` (before the lock: takes the request off the
  channel, frees it), `RefillNext`/`RefillNone` (under the lock), `KickNext`,
  `CreateEvent`. `HwComplete` is the FPGA. `BusyAtProbe` are channels whose STATUS
  bit was set at probe. Request memory is a finite set of addresses that kzalloc
  may hand out again at once. `leaked` are requests that nobody frees because
  `prepare_dma_buffer` failed (`bifrost_cdev.c:420`).
* **BifrostXfer** — EXTENDS BifrostDma by the ioctls: `saved_dma_buf`,
  which no lock protects, so that every access of `prepare_dma_buffer` to it is a step
  of its own: `CheckSize`, `GrowFree`, `GrowResize`, `GrowAlloc`, `GrowAssign`,
  `GrowFails`, `Point`, `CopyIn`, `MapBuf`, with `UseFails` for the other error
  returns. The completion on the stack is `work` and `pwork`; the wait ends well
  (`Finish`) or with a timeout (`Timeout`). Data is the ticket of the call whose
  data a buffer holds. Four history variables say which calls the properties except:
  `disturbed` has the transfers that overlapped another one (from the ioctl to its return,
  or to the end of the transfer when the ioctl timed out), `raced` is set when two calls
  replace the buffer at once, `left` has the tickets whose call is gone, `late` the
  threads whose call may be woken by such a ticket. `disturbed` is emptied with
  `raced`, after which nothing depends on it.
* **BifrostEvents** — handles, lists, poll, interrupt handlers, the worker. A handle is
  the address kzalloc returned, which is also the cookie of the transfers it starts. The
  handlers of different vectors run at the same time, on several CPUs; `isr` is where
  each is: it has its event (`DmaDone`, `Irq`), then allocates the work
  (`AllocWork`, which may drop the event), then queues it (`QueueWork`). An event
  records which handlers were running when it was raised (`beside`).
* **BifrostRegs** — user register calls and `bifrost_dma_chan_start` on CPUs with one
  task and one interrupt context each; `UserAccess` is the access table of
  `check_bar_access` per platform (`plat`), `DmaBar` the bank that holds the DMA registers.
* **BifrostMembus** — EXTENDS BifrostRegs by SDRAM transfers over the memory bus:
  `DoXfer` (allocate, copy from the user), `IoLock`, the three writes of the window
  `Toggle`, `SetLo`, `SetHi`, `Burst`, `IoUnlock`, `XferReturn`. `win` and `port` are the
  FPGA's side, as the comments of the code describe it: a change of the direction bit
  starts an access at the address the registers hold. User calls reach the same
  registers (`UserWindow`) and the port (`UserPort`). A byte is the pair of who gave
  it and the SDRAM byte it is meant for.
* **BifrostLifecycle** — the loading thread walks through tables, one per
  function (`InitSteps`, `ProbeSteps`, `FvdInitSteps`, `RemoveSteps`, `ExitSteps` ...),
  whose rows say what a step acquires or releases, where it goes on and where it
  goes when it fails; `up` is what is set up. `Acquire`, `AcquireFails` and `Release`
  take a row; `DmaInit` and `DmaCleanup` handle `bdev->dma_ctl`. Handlers run
  between any two steps (`Interrupt`, then `MsiReturns`, `FvdReturns` or
  `HandlerFaults`); `free_irq` waits for its handler, `flush_workqueue` for `works`.
  A variable that was never set (`ret` of `bifrost_init`, `rc` of `bifrost_fvd_init`)
  may have either value. `failed` records the steps that failed, so that the
  properties can say which failures they except; `binds` what the driver core did to the
  device, `leaked` that a DMA controller was lost: `DmaInit` overwrites the pointer to one
  that is still there, or `bdev` is freed with it. `Needs` is what a handler uses: the
  pool, the queue and `bdev`, and but for `default_msi_handler` the registers, which
  `dma_done` writes when a request is queued. Two simplifications: the
  constants FPGA_IRQ_x are valid GPIO numbers, and after a failure that leaves
  handlers or the driver registered the module is not loaded again before a reboot.
  The module defines `@@`, with which the tables are put together, itself: the
  provers know nothing of the one in TLC.
* **HeapService**, **HeapMem** — the abstract heap and the allocator, with the
  headers in the memory and the loop over the free list step by step.
* **CmemPool** — from loading to unloading: `RegisterChrdev`, `SetUpBlock`, `AllocPool`
  (with `Carve`, which cuts buffers from the top of a block), `AllocHeap`, `FailInit`,
  `Exit`; then the lists and registrations. A buffer is its physical address; a pool is
  <<block, index>>, `Slot` its element of `p_objs`. A step is a section under
  `cmem_mutex`; `release` visits the pools one by one. `late` is a heap entry
  that REGUSER or mmap still reads after it dropped the mutex. The device can be
  opened while `cmem_init` runs; `wild` records a walk over lists that are not
  set up, after which nothing is said. `SetUpBlock` fails for memory that overlaps the
  other block, because `request_mem_region` does (`cmemk.c:2201`). The heap is the abstract one, in blocks of a
  page; GETPOOL changes nothing and is an operator.
* **AnimalI2c** — loading by the tables `Acquires`, `Following`, `ErrLabel` and the error
  labels `Releases`, `FallsTo`; handles, pins, per adapter locks. The fields of a
  handle are read where the code reads them.
* **I2cUsim** — loading and unloading, senders with transfers of several messages,
  simulator threads that poll, GET and PUT, events with reference counts.
* **BifrostDma_proofs**, **BifrostXfer_proofs**, **BifrostEvents_proofs**,
  **BifrostMembus_proofs** (also of BifrostRegs), **BifrostLifecycle_proofs**,
  **CmemPool_proofs**, **AnimalI2c_proofs**, **I2cUsim_proofs** — theorems.

## 3. Runs

| Run | Instance | Shows |
|---|---|---|
| `dma_safety` | 2 channels, 3 threads, 4 requests, 4 tickets, symmetry | requests have one owner, channels are conserved, nobody waits while a channel is idle, a channel is programmed by its owner, a completion belongs to the transfer that ran |
| `dma_live` | 1 of 2 channels usable, 2 threads, 3 requests | every submitted transfer is announced, once; the engine implements DmaService with its liveness |
| `xfer_calls` | 1 channel, 2 threads, 2 requests, 2 buffers, sizes 1 and 2, symmetry | with failures, timeouts and overlapping calls: a completion wakes the call that waits for it and success means done, but for calls a late completion may hit; a transfer that none overlapped moves its own data; `saved_dma_buf` describes the one buffer there is, unless two calls replaced it at once |
| `events_queue` | 1 handle, lists of 2, reserve of 1, 3 events of 2 vectors | bounded lists, events in order unless their handlers overlapped, no poller that misses its wake-up |
| `events_handles` | 2 files, 2 addresses, 2 DMA events, symmetry | nothing reaches a freed handle; DMA_DONE goes astray only after its owner closed |
| `membus_banks` | 2 CPUs; a platform whose DMA bank is closed to users with 2 interrupts, and the memory bus with 8 bytes of SDRAM, 3 transfers and 1 register call; symmetry | atomic updates, unmixed DMA programming, no handler waits for the task under it; an undisturbed transfer moves its bytes |
| `regs_rocky` (violation) | 2 CPUs, 2 interrupts, DMA bank open to users | a handler waits for the task it interrupted |
| `loads` | 3 platforms, any number of loads and unbinds, every step may fail, 2 failures, 2 events | which failures leave something behind and what, which of them or which bindings lose a DMA controller, which let a handler run without what it uses, which free the controller twice; all others do not |
| `heap_blocks` | 4 pages of 2 bytes, misaligned base, sizes 1..3, alignments 1 and 4 | allocation fails only without room (so free blocks are joined); HeapMem implements HeapService; calls return |
| `cmem_pools` | 2 files, 5 sets of parameters (two pools and a heap; two blocks; no memory; pools without memory), up to 2 registrations, `cmem_init` may fail, symmetry | buffers never overlap and are busy exactly while registered; what open and closed files keep; best fit; entries read without the lock |
| `usim_events` | 2 senders, transfers of up to 2 messages, 2 simulator threads, 2 events, 1 kill, 2 loads | no use after free, honest status, every sender returns |
| `i2c_chips` | 2 files, any of 3 adapters installed, 2 valid pins and an invalid one | lock, chip select, progress; init and exit leave nothing behind |

Why the bounds suffice. In `dma_safety` there are two requests more than
channels, so that a queue of two meets two handlers and a third submitter; with
`MaxTicket` equal to the number of requests, memory is reused because requests
are freed. `dma_live` leaves one channel so that a queue of two forms with few
requests, and has a channel that was busy at probe. `xfer_calls` has two threads that
may be anywhere in `prepare_dma_buffer` and a third ticket, which follows a call that
failed, timed out or left the buffer replaced; two sizes make the buffer grow twice
and two buffers let one be allocated while the other is freed. In `events_queue` list and
reserve are both smaller than the number of events, so both overflow, and the handlers of
the two vectors overtake each other, before and after a third event. The heap
has just enough pages for a block to be split in front, behind and on both sides
and to be joined with both neighbours. `membus_banks` needs one user register and
one bit per bank: a lost update of a bit is a lost update. Its SDRAM has both halves of
an address (4 bytes per value of register 1), transfers to different halves and in
both directions; one register call is enough to disturb any step of a transfer, and
two transfers follow each other any number of times. In `cmem_pools` a
page is two units and sizes and ends are odd too, so that rounding matters. In `usim_events`
the I2C core's bus lock (`BusLock`) keeps transfers on the adapter apart; the run
also passes without it, with `BusLock = FALSE`, `MaxMsgs = 1` and `MaxLoads = 1`. In `loads` a second failure can
follow the first in the same load, after a new bind or in the next load, where
what the first one left is met again; more failures only repeat that. CHECK_DEADLOCK is FALSE where
`MaxTicket` or `MaxEvents`, or closing every file, ends the run; the register,
heap, life cycle and I2C device runs check deadlock.

A few invariants are stated and hold but are in no run, because others say
more: `TypeOK` of the modules other than BifrostDma, `Partition` (follows
from ImplementsHeap), `NoLostWakeup` (the reason for PollerWakes, proved),
`UnlockedIsDeselected` (the reason for OnlyAddressedChip, proved), `TicketsUnique` (the reason for DoneOnce, proved),
`OrphansCompleted` (part of SenderReturns, proved), `StateMachine` (for a simulator that behaves, proved). They can be added to the run of their
module at no cost.

Symmetry is used only in runs that check no liveness and whose properties treat
the symmetric values alike.

### Fairness

* BifrostDma: `KickOff`, and the steps of a channel (the FPGA ends what it started,
  the handler runs). Both are code that cannot be preempted for ever. Nobody is
  obliged to submit.
* BifrostEvents: the worker of the work queue and a poller that was woken.
* HeapMem: a call under the mutex continues.
* AnimalI2c: code that holds the lock continues and the bus transfer ends; `Lock` is
  strongly fair because a kernel mutex queues its waiters and hands over to the
  first.
* I2cUsim: kernel code runs; the simulator process is restarted after a kill, its
  threads poll, GET when poll told them of an event, and PUT what they got before they
  poll again (`Behaved`). The last is an assumption on the user's program, not on
  the driver: `SenderReturns` says what the driver adds, that a sender neither
  waits for an event the dead simulator had taken nor for one that poll slept through.

## 4. Proofs

TLAPS proves every invariant that a passing run checks, DoneOnce,
SuccessMeansDone and PendingEntryStays, and the safety part of the refinement of
DmaService, for every value of the constants that satisfies the named
assumption of the module (`DmaAssumption`, `PoolAssumption` ...): numbers are
natural, NULL is none of the addresses, and what is said below. A theorem
`Hyp /\ Spec => ...` needs one condition more.

**DMA engine and ioctls** (`BifrostDma_proofs`, `BifrostXfer_proofs`). `EngineSafe`
has OneOwner, ChannelsConserved, WaitsOnlyWhenBusy, KickIsOwned,
RunsWhatIsInProgress and TicketsUnique; `EventOnce` has DoneOnce. The inductive
invariant `DmaInv` is their conjunction with the types and `Hands` (a thread or
handler about to use its request or channel has one). None
of the parts is inductive alone. OneOwner needs that a channel taken from the
bitmap carries no request (ChannelsConserved); KickIsOwned, although the lock
is dropped, holds because a completion needs a running channel
(RunsWhatIsInProgress), and a second owner of the channel would need its idle
bit; RunsWhatIsInProgress needs KickIsOwned for what the FPGA is programmed
with and OneOwner for what is freed; DoneOnce needs TicketsUnique, as memory of
a request is reused while its completion is still to be announced. TicketsUnique
needs that tickets do not wrap, which `MaxTicket <= TicketMask` states: beyond
2^31 transfers a ticket may be used twice, and 0 becomes one.

`EngineServes`: `Spec => ServiceSafety`, the engine implements DmaService without
its fairness. `Pend`, `Run` and `Fin` name what the service's variables stand for;
there is a lemma per step that the service sees (`StartNowServed`,
`StartLaterServed`, `TakeDoneServed`, `RefillNextServed`) and one per kind it does
not. That a transfer never starts past a waiting one is WaitsOnlyWhenBusy; that
`Capacity` is kept is a count of the channels in use (`ChannelLeft`); that a new
ticket is new to the service is TicketsUnique (`TicketIsNew`).

Every step of the ioctls is a step of the engine or leaves it alone (the lemma
`XferUsesEngine`, true by how the module is written), so `XferKeepsEngineSafe` and
`XferServes` carry all this over to calls that fail or time out. On top,
`WakesTheRightCall` and `SuccessIsDone` rest on `XferInv`: a call's ticket is that of its
request (`CallHasTicket`), the frame that a request's `pwork` names belongs to the call
that waits for this request unless the ticket is in `left` (`CompletesItsCall`), every
call that waits is completed by its own request (`CallIsCompleted`), and only calls in
`late` by another one (`OthersAreLate`). `SavedBufIsRight` and `UndisturbedIsSafe` rest on `QuietInv`, which
holds until two calls replace the buffer at once: `SavedBuf` says what `saved_dma_buf`
and the allocated buffers are at each step of the one call that replaces it, `Alone`
that a transfer outside `disturbed` is the only one under way, and `CallHasBuf`,
`XferHasBuf` and `MovedRight` follow its data from the caller to the FPGA and back. Without
`SavedBuf`, which holds for overlapping calls too, nothing would be known of the buffer
that the first undisturbed transfer after them finds.

**Events** (`BifrostEvents_proofs`). `EventsInv`: open files have different
handles and the list has exactly theirs; memory that is nobody's handle is empty;
events are ordered along the whole way from handler to list (`OrderInv`): what is queued or
listed is in order up to overlapping handlers (`EventsOrdered`), and whatever is younger
than the event a handler still holds knows of that handler
(`HandlersBehind`, the reason why HandledInOrder survives a handler that is slow to queue its
work); a DMA event carries the handle of its starter wherever it is
(`CookiesMatch`). `ListsSafe`, `ListsBounded`, `DeliveredInOrder`, `CookieFindsStarter`
and `WakeUpNotLost` follow; the last is the safety half of PollerWakes.

**Registers and memory bus** (`BifrostMembus_proofs`). `BanksSafe`: who is between
lock and unlock holds the lock, and what MODIFY read is still there (`ReadIsCurrent`).
`SpinLockEnoughWhereClosed`: on the platforms that close the DMA bank to users
(`DmaBankClosed`) no handler waits for the task it interrupted; where it is open, the
run `regs_rocky` shows the opposite. `MembusUsesBanks` shows that the memory bus leaves
the banks' specification intact, `MembusMovesData` that a transfer nobody disturbs moves
its bytes: `WindowFollows` says what the window and the port are at each step.

**Life cycle** (`BifrostLifecycle_proofs`). `LifeInv` says at each row of the tables what
is up at least and at most, given which steps failed, and what `dma_ctl` points to
where (`IoUp`: the registers are mapped while vectors are attached; `LeakInv`: a controller
without a bound device was orphaned by a removal or a failed sysfs group, and is
overwritten only after a bind); it was model-checked as an invariant of `loads` first. `NothingIsLeft`,
`HandlersSafe` and `FreedOnce` read the three properties off it.

**CMEM pools** (`CmemPool_proofs`). `BuffersApart`, `BusyWhileRegistered`,
`FilesKeepBuffers` and `EntryStays` from `PoolInv`: blocks do not overlap, what is carved
lies above what is left of its block, buffers are apart and in one pool (`Carved`), lists
and registrations agree (`RegInv`), and what open, closing and closed files have
(`FilesInv`). They assume `NotFull`, that no block has `MAX_POOLS` pools: with as many the
heap of one block shares its lists with the first pool of the next, and the
properties fail (section 5). `PoolAssumption` also says that the addresses of
the model include every page of the memory the parameters name, and that the buffers of a
pool have at least one byte: `cmem_init` does not check that (`cmemk.c:2258`), and a module
parameter of 0 bytes would put all the buffers of the pool at one address. `BestPool` (GetPoolBestFit) needs no hypothesis: the scan is
a function on the number of pools looked at, and the proof takes the least number for
which it would be wrong.

**I2C** (`AnimalI2c_proofs`, `I2cUsim_proofs`). `ModuleSafe` holds for all users.
`LockHeld`, `NoAddressingCollision` and `ChipsReleased` assume `OwnFiles`, a file per
thread, and the last two `NoneNegative`, no negative pin numbers; without them TLC finds
the properties violated (section 5). `OwnsPin` is why they hold: a handle's valid pin was
granted to it, also after requests that failed. For the simulated adapter `SuccessIsServed`
needs nothing; `EventsSafe` (NoUseAfterFree) and `EventStates` assume a simulator that
`Behaved`, since PUT of an event nobody got completes it and drops a reference the
simulator does not have. `RefInv` counts the references: one per sender that waits, one
per event that was got, and an event is freed with the last.

Only model-checked:

* liveness under fairness, which is out of the prover's reach: SubmittedIsAnnounced,
  PollerWakes, CallReturns, SenderReturns, TransferEnds, and the fairness part of
  ImplementsService;
* ImplementsHeap and AllocAnswers of HeapMem. Their proof is still to come.

## 5. Where code and documentation disagree

Kept as a run:

* `regs_rocky`: "never from ISRs etc. so a spin_lock/unlock should be enough"
  (`bifrost_cdev.c:531`), but on Rocky the DMA registers are in BAR 3
  (`bifrost_pci.c:306`), which users may access, and `dma_done` programs them in the
  interrupt handler.

Stated in the modules, and seen by changing a run as described:

| Property | Change to the run | What happens |
|---|---|---|
| `MovesCallersData` | `xfer_calls`, this invariant | `saved_dma_buf` is shared by all callers and nothing keeps a second one out while the first transfers (`bifrost_cdev.c:353-378`, while `bifrost_api.h:214` offers the ioctl for any user buffer): a transfer moves another caller's data |
| `FreesLiveBuffer` | `xfer_calls`, this invariant | two callers that find the buffer too small both free it (`bifrost_cdev.c:353-357`): `dma_free_coherent` of a buffer that is not allocated |
| `UndisturbedMovesItsData` | `xfer_calls`, this invariant, without `~raced` in it and in `Begin`, and `disturbed` not emptied in `CheckSize` | after two callers that replaced the buffer at once, `saved_dma_buf.size` may be the larger size and `virt` the smaller buffer, or one that was freed: later calls, alone, use it |
| `InOrder` | `events_queue`, this invariant | two handlers on different CPUs overlap in `bifrost_create_event_in_atomic` (`bifrost_main.c:82-91`) and queue their events in the other order |
| `ReadyWhenLive` | `loads`, this invariant, `MayFail = {}` | "Do not call this function before the driver is ready" (`bifrost_cdev.c:33`), but `pci_register_driver` succeeds without a device and when the probe fails, and `bifrost_init` goes on to `bifrost_cdev_init`; unbinding has the same effect |
| `DmaHandlerFindsController` | `loads`, this invariant, `MayFail = {}` | vectors are attached before `bifrost_dma_init` and detached after `bifrost_dma_cleanup` (`bifrost_pci.c:375,604`); an interrupt of a transfer nobody waits for finds no controller (`bifrost_dma.c:106`) |
| `FvdHandlersFindRegisters` | `loads`, this invariant | `bifrost_membus_exit` unmaps the registers before it frees the lines (`bifrost_membus.c:288`); it holds with `Platforms = {"fvd"}` |
| `NeverFreedTwice` | `loads`, this invariant, `MayFail = {"irq1"}` | a failing `bifrost_fvd_init` frees the controller and keeps `bdev->dma_ctl` (`bifrost_pci.c:347,623`), and `bifrost_pci_exit` frees it again |
| `ControllerKept` | `loads`, this invariant | `bifrost_pci_remove` frees no DMA controller (`bifrost_pci.c:744`); after unbind and bind `bifrost_dma_init` overwrites the only pointer to it (`bifrost_pci.c:322`) |
| `NothingLeftEver` | `loads`, this invariant | the table `Residue` of the module says what each failure leaves: MSI enabled after most failing probes, the device enabled after the first three, a mapped BAR, the interrupts after a failing sysfs group, everything after a failing `bifrost_cdev_init` |
| `DoneReachesStarter` | `events_handles`, this invariant, `Addrs <- MCAddrs1` | a handle is closed with a transfer under way; the next open gets its address and its DMA_DONE (`bifrost_cdev.c:244`, comment at 611) |
| `InsideBank` | `regs_rocky`, this invariant, `Platforms <- MCMembus` | `check_bar_access` compares the offset with bytes, the accessor counts 16 bit words (`bifrost_cdev.c:506`, `bifrost_membus.c:70`) |
| `MembusMovesAll` | `membus_banks`, this invariant | a register call of a user between two writes of the window, or during the data, sends a transfer elsewhere: WriteSDRAM and ReadSDRAM hold `iolock`, `do_write_regb` the spin lock (`bifrost_membus.c:307`) |
| `MembusMovesAll` | `membus_banks`, this invariant, `MaxCalls = 0`, `Xfers <- MCOddXfers` | an odd size loses its last byte, an odd address is rounded down (`bifrost_membus.c:42,57`) |
| `MembusSuccessHasData` | `membus_banks`, this invariant | `copy_from_user` never returns a negative number: a bad user buffer writes zeros and the call succeeds (`bifrost_cdev.c:626`) |
| `CallReturns` | `heap_blocks`, `ReqSizes <- MCSizesZero`, `ReqAligns <- MCAlign1` | buffers of no bytes are handed out of free memory; freed twice, a block is linked to itself and the next walk of the list does not end |
| `KeepsRegistered` | `cmem_pools`, this invariant | a file opened while the last close runs loses its buffers (`cmemk.c:1880`, `cmemk.h:136`) |
| `ClosedIsUnregistered` | `cmem_pools`, this invariant | `release` interrupted by a signal leaves registrations (`cmemk.c:1897`, `cmemk.h:133`) |
| `CarvedApart`, `BusyIffRegistered` | `cmem_pools`, `Params <- MCParamsFull`, `MaxPools = 2` | with MAX_POOLS pools in block 0, its heap has element `p_objs[0][MAX_POOLS]`, which is the first pool of block 1 (`cmemk.c:250`; MAX_POOLS is 4 in `cmemk/Makefile`) |
| `NoWildWalk` | `cmem_pools`, this invariant | the device is registered before the pools are set up (`cmemk.c:2058`); pools of a block that has no memory never are, and `release` and `cmem_exit` walk their lists |
| `FailedInitKeepsNothing` | `cmem_pools`, this invariant | a failing `cmem_init` does not free the entries of the pools it had set up (`cmemk.c:2316`, comment at 1047) |
| `NoLateRead` | `cmem_pools`, this invariant | mmap and REGUSER read an entry that another file's FREE has freed (`cmemk.c:1799,1832`) |
| `StateMachine`, `NoUseAfterFree` | `usim_events`, the first as PROPERTY, `Behaved = FALSE` | PUT of an event nobody got completes it and drops a reference (`i2c_usim.c:324`, comment at 76) |
| `TransferMovesAll` | `usim_events`, this invariant | `i2c_usim_xfer` returns the number of messages that went well, never an error, and `i2c_main.c:430` takes it for success |
| `PostsOnQueue` | `usim_events`, this invariant, `EarlyUse = TRUE` | the adapter is added before the event queue is initialised (`i2c_usim.c:403,422`) |
| `LockHeldInTransfer` | `i2c_chips`, `HandleOf <- MCSameHandle` | SET_ADAPTER by another thread with the same file during a transfer: the bus is not locked, another lock is released (`i2c_main.c:176`) |
| `OwnsItsPin`, `OnlyAddressedChip` | `i2c_chips`, this invariant, `Asked <- MCPinsAndNone` | SET_GPIO with -1 frees the pin, and the handle goes on using it (`i2c_main.c:222`) |
| `CloseCleansUp` | `i2c_chips`, this invariant | a pin whose direction could not be set is never freed (`i2c_main.c:149`) |
| `OpenLeaksNothing` | `i2c_chips`, this invariant | without an adapter `animal_open` fails and keeps the new handle (`i2c_main.c:498`) |

## 6. Plan

Done: all components of the inventory that are not listed as not modelled, and
proofs of every invariant that a run checks. To come:

1. The refinement of HeapService by HeapMem (`ImplementsHeap`, its safety part) and
   what an allocation answers (`AllocAnswers`), step by step of the loop over the
   free list: the inductive invariant is that the list is sorted, its blocks and
   the live ones partition the heap, and the loop's cursor is on the list.
