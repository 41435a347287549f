# Verification of the Cosmos+ OpenSSD firmware

TLA+ models, TLC runs and TLAPS proofs for the firmware in `src/Toshiba-8c8w`
(short names below; `nvme/` is the directory of that name inside it). The
firmware is the GreedyFTL of Cosmos+ with a scheduler for eight channels of
eight ways. It is one thread without an operating system: a main loop takes
NVMe commands, turns them into low-level requests and polls the hardware that
carries these out. The host DMA engine and the flash dies work beside it, and an
interrupt handler tells it of changes of the controller registers.

## 1. Inventory

| component | code | state | operations |
|---|---|---|---|
| Request pool and request queues | `request_allocation.[ch]`, `request_queue.h`, `request_format.h` | `reqPool`, the free, slice, blocked, DMA and NAND queues as links between slots, `blockedReqCnt`, `notCompletedNandReqCnt` | `PutTo...`, `GetFrom...`, `SelectiveGetFrom...` of each queue |
| Request transformation and dependency checks | `request_transform.[ch]` | the row address dependency table (`permittedProgPage`, `blockedReadReqCnt`, `blockedEraseReqFlag`), the chain of requests on each buffer | `ReqTransNvmeToSlice`, `ReqTransSliceToLowLevel`, `SelectLowLevelReqQ`, `CheckBufDep`, `CheckRowAddrDep`, `ReleaseBlockedBy...`, `IssueNvmeDmaReq`, `CheckDoneNvmeDmaReq` |
| NAND scheduler | `request_schedule.[ch]` | seven linked lists of ways per channel, `dieStateTable`, `retryLimitTable`, the status words and completion flags | `SchedulingNandReqPerCh`, `ExecuteNandReq`, `CheckReqStatus`, `SyncAllLowLevelReqDone`, `SyncAvailFreeReq`, `SyncReleaseEraseReq` |
| NAND storage controller driver | `nsc_driver.[ch]` | none | `V2F...Async` |
| Address translation | `address_translation.[ch]` | `logicalSliceMap`, `virtualSliceMap`, `virtualBlockMap`, `virtualDieMap` | `AddrTransRead`, `AddrTransWrite`, `FindFreeVirtualSlice(ForGc)`, `InvalidateOldVsa`, `EraseBlock`, the free block lists |
| Garbage collection | `garbage_collection.[ch]` | `gcVictimMap` | `GarbageCollection`, `PutToGcVictimList`, `GetFromGcVictimList` |
| Bad block management | `address_translation.[ch]`, rows in `request_schedule.c` | `phyBlockMap`, `bbtInfoMap`, the bad block table in a block of each die | `RecoverBadBlockTable`, `FindBadBlock`, `SaveBadBlockTable`, `RemapBadBlock`, `UpdatePhyBlockMapForGrownBadBlock`, `UpdateBadBlockTableForGrownBadBlock` |
| Host DMA driver | `nvme/host_lld.[ch]` | `g_hostDmaStatus`, `g_hostDmaAssistStatus` (8-bit counts and their overflows) | `set_auto_tx_dma`, `set_auto_rx_dma`, `set_direct_tx_dma`, the partial-done and done checks |
| Data buffer management | `data_buffer.[ch]` | `dataBufMap`, the LRU list, the hash table, `tempDataBufMap` | `CheckDataBufHit`, `AllocateDataBuf`, `PutToDataBufHashList`, `SelectiveGetFromDataBufHashList` |
| NVMe I/O commands | `nvme/nvme_io_cmd.c` | none | read, write, flush |
| NVMe admin commands | `nvme/nvme_admin_cmd.c`, `nvme/nvme_identify.c` | queue registers, `g_nvmeTask.cacheEn` | identify, features, creation and deletion of queues |
| NVMe main loop and controller state | `nvme/nvme_main.c`, `nvme/host_lld.c` | `g_nvmeTask.status`, the NVMe registers | `nvme_main`, `dev_irq_handler` |
| Initialisation and configuration | `main.c`, `ftl_config.[ch]`, `memory_map.h` | constants and initial states | `InitFTL`, `CheckConfigRestriction` |

How they meet: a command becomes slice requests (`ReqTransNvmeToSlice`). Each
takes a data buffer and makes low-level requests for it: a WRITE of the dirty
slice it throws out, a READ of the slice it needs, a transfer to or from the
host. A WRITE asks the address translation for a flash page, which may run a
garbage collection that makes READ, WRITE and ERASE requests of its own first.
Every low-level request passes two checks (`SelectLowLevelReqQ`): that nobody
older uses its buffer, and that the flash block is in the state it needs. It
waits in a blocked queue or goes to the DMA engine or to the queue of its die.
The polling functions `CheckDoneNvmeDmaReq` and `SchedulingNandReq` complete
requests and release blocked ones. They are called by the main loop and, nested
inside the making of a request, by the three `Sync...` loops.

What is hard here, and hard to test:

* the dependency checks decide on counts, page numbers and a flag instead of on
  the requests that wait, while the layer above sees requests in program order;
* results are polled in an order that depends on the hardware, and one done
  transfer completes older ones without their being asked;
* the `Sync...` loops poll in the middle of the handling of a request, so that
  state read before them is stale after them, and they end only if the
  queues empty themselves;
* ways move between linked lists that are being walked, with a controller that
  is full at times and reads that are two commands and may be retried;
* counts of 8 bits wrap; garbage collection runs with a reserve of one block;
* the two linked structures of the data buffers must change in a fixed order;
* the only copy of the bad block table is erased before it is written again,
  while requests may fail and the power may go;
* the main loop and the interrupt handler store the same status word, each
  after decisions the other does not know of.

The list of hazards, each with its line, is in `PROJECT.json`. Nothing but the
bad block table outlives the power: the maps live in RAM and `InitSliceMap` maps
nothing at boot, so the table is the only state whose recovery there is to model.

What makes each part correct:

* request layer: conflicting requests execute in the order they were made, a
  buffer has one user, counters are exact, nobody waits in a circle;
* scheduler: each way is on the one list that fits it, a command finds its die
  at rest and a transfer the page of its own read, an answer is what happened,
  every request is answered;
* translation and collection: the two maps agree, a free block is unused, counts
  and victim lists are exact, a slice reads as it was last written, a write ends;
* DMA driver: a request counts as done exactly when its last transfer is;
* data buffers: the links are whole, the buffer given away is the least recently
  used, the newest content of a block is where a read looks for it;
* bad blocks: no two virtual blocks in use share a block, requests and the
  records of their failures reach that block, every failure is in a table or
  booked for one, the advertised capacity exists;
* controller: it has the queues its host was answered in this session and none
  of a former one, and what a host waits for comes.

## 2. Modules

```
InOrderExec <--- ReqOrder ---> ReqSched          SliceStore <--- FtlData ---> FtlMap
  MCReqOrder, MCReqLive                            MCFtl, MCFtlMap
  ReqOrder_proofs                                  FtlMap_proofs

LruCache <--- DataBuf (MCDataBuf, DataBuf_proofs)
BadBlocks (MCBadBlocks, BadBlocks_proofs) ---> NandAddr
HostDma (MCHostDma, HostDma_proofs)
WaySched (MCWaySched, WaySched_proofs)
NvmeCtrl (NvmeCtrl_proofs)
CommonLemmas: lemmas on sequences, linked lists, minima, quotients and remainders, for the proofs
```
`A <--- B`: B is shown to implement the abstract specification A. `B ---> A`: B extends A.

### Request layer: `ReqSched`, `ReqOrder`, `InOrderExec`

`ReqSched` follows a low-level request from the pool through the checks to
completion. The loops of the firmware that change state request by request are
sequences of steps. What a loop has left is kept in `dmaWalk`
(`CheckDoneNvmeDmaReq`), `rowAddrWalk` (`ReleaseBlockedByRowAddrDepReq`),
`syncReq` (`SyncReleaseEraseReq`) and `syncAll` (`SyncAllLowLevelReqDone`), and
the rest of the firmware is disabled while a walk is on.

| action | code |
|---|---|
| `SliceRequest` | the choice of a buffer by `ReqTransSliceToLowLevel`: which low-level requests follow (`plan`) |
| `GarbageCollection` | the requests `GarbageCollection` puts in front of the WRITE in hand |
| `IssueSubReq` | the next of `plan`: a slot (`GetFromFreeReqQ`), its place in the chain of its buffer, its flash page, `SelectLowLevelReqQ` |
| `SyncReleaseEraseReqDone` | the rest of `SelectLowLevelReqQ` after that wait, with the buffer looked at again |
| `SyncAllLowLevelReqDone`, `SyncAllReturns` | begin and end of that loop |
| `CheckDoneNvmeDmaReq`, `VisitNvmeDmaReq` | the walk over the DMA queue from its tail |
| `GetFromNandReqQ` | a die has executed the head of its queue |
| `VisitRowAddrDepReq` | one request of `ReleaseBlockedByRowAddrDepReq` |
| `HostDmaDone` | the engine finishes a transfer |

Abstractions. Slots are interchangeable, so the free list is a set and the
content of a free slot is `NoRequest`. The links of a chain on a buffer are a
sequence. A hit on an idle clean buffer makes the requests of a miss without a
fill. The slot of a WRITE whose page is still to be found is taken after the
collection, not before. `SyncAvailFreeReq` is `IssueSubReq` being disabled
until there is a slot, with the polling going on. The walk of
`CheckDoneNvmeDmaReq` starts only if some transfer is done (otherwise it changes
nothing). The rescan of blocked requests for idle ways is left out, because the
invariant `NoLostWakeup` says that it would find nothing.

`ReqOrder` adds the age of the requests and what the flash has programmed.
`InOrderExec` is the promise to the layers above: a request may complete before
an older one only if the two do not conflict. That promise is why `FtlData` and
`DataBuf` may let requests take effect when they are made.

### NAND scheduler: `WaySched`

One channel; channels meet only through the arrival of requests. Lists are head
and tail with `prevWay` and `nextWay` of each way as in the code; the copies of
the put and get functions for the seven lists are one `PutTo` and one
`GetFrom`. One pass of `SchedulingNandReqPerCh` is a sequence of steps: `pc`
says in which walk it is. The ready lines are read once per walk
(`readyBusy`). The walks of the last part end after the way they move, as in
the code, where the link read next is that of the way just put to the tail of
its new list; the walk of the status checks goes on over ways that are not
ready.

The controller is external: it keeps commands per way in order, may serve the
ways in any order, accepts `QueueDepth` commands (32 in `nsc_driver.h:101`), and
its dies pass or fail. The V2F functions that wait for room are disabled while
it is full; status words and completion flags are cleared where the code clears
them. The result of error correction is merged with the completion flag. A
request may enter a queue between two passes, in the walk of the idle ways and
at a completion: more places than the code has, none fewer. Left out: RESET and
SET_FEATURE, sent only at boot, the mark tested by bad block detection,
addresses, and the record of grown bad blocks, of which only the answers "bad"
and "warning" are kept.

`last`, `failures`, `answer` and `register` are history: what the die did, how
often the request at the head failed, and how it was answered.

### Address translation and garbage collection: `FtlMap`, `FtlData`, `SliceStore`

`FtlMap` has the two slice maps, the block states, the free and victim lists (as
sequences) and the open block of each die. `AddrTransWrite` runs to its end
before anything else changes the maps; `phase` splits it at its calls:
`AddrTransWrite` with `InvalidateOldVsa`, `OpenBlock`, `GarbageCollection`,
`CopyPage`, `EraseBlock`, `GiveSlice`. `AssertFails` is the assertion of
`GetFromGcVictimList`.

`FtlData` adds the content of each page and shows that the whole is a
`SliceStore`: a slice holds what was last written to it, and a collection
changes nothing.

Blocks that are bad at boot are not in the free lists and never used
(`InitBlockMap`, see `BadBlocks`); the model starts with what is left.

Two constants describe the host. With `Skewed = FALSE` it never fills a die with
valid slices; with `OpenVictim = FALSE` it never leaves the full open block of a
die without a valid slice when a collection is due. The code asks for neither
and fails without them; the two `violation` runs show how.

### Host DMA driver: `HostDma`

Counts of `W` values (256 in the code) for two automatic channels and the
direct channel of identify. The engine finishes transfers in order per channel.
`issued`, `done` and the field `last` of a request are history without bound, to
which the wrapped counts are compared. A request is issued transfer by transfer
(`SetAutoDma`), between the steps of a walk too, which is more than the code
does. `overFlowCnt` has no bound; its own wrap after 2^40 transfers is left out.

### Data buffers: `DataBuf`, `LruCache`

The LRU list and hash chains at link level, the split of a command into slice
requests, hit, eviction, fill and the dirty flag. Of the contents only what
matters is kept: which blocks of a slice have their newest content in a buffer
or on the flash. The requests take effect when they are made (see
`InOrderExec`), and a command is handled whole before the next one. Commands stay
within the drive: the code checks only where they start, which is listed as a
hazard. `LruCache` is the abstract cache: which buffer holds which slice, and
that the one given away is the least recently used.

### Bad blocks: `NandAddr`, `BadBlocks`

`NandAddr` has the arithmetic of `address_translation.h` and of the scheduler: a
virtual slice address is a die, a virtual block and a page; a virtual block is a
number of a LUN; a request reaches the flash as a row, in which the LUN is that
of the block before it is replaced and the block that of its substitute; and
`ExecuteNandReq` computes the block back from the row when a request fails.

`BadBlocks` adds the tables, the boot and the shutdown. `pc` says what runs:

| `pc` | actions | code |
|---|---|---|
| `off` | `PowerOn` | `InitAddressMap`, and the key `X` of `InitBlockDieMap` that asks for a new table |
| `erase_total` | `EraseTotalBlockSpace` | all blocks erased, bad or not |
| `read` | `ReadBadBlockTable` | `RecoverBadBlockTable` until it knows which dies have a table |
| `scan` | `FindBadBlock` | the marks of one block number of the dies without one |
| `save`, `flush` | `SaveErase`, `SaveWrite` | the two requests per die of `SaveBadBlockTable` |
| `save`, `mark` | `MarkTableBlocks` | the end of `RecoverBadBlockTable`, the start of `RemapBadBlock` |
| `remap` | `RemapBadBlock`, `InitBlockMap` | a round of the loop over the user blocks, and what follows it |
| `erase_user` | `EraseUserBlockSpace` | the good virtual blocks erased |
| `run`, `flush` | `UseBlock` | any request on a block in use, which may fail (`ExecuteNandReq`) |
| `run` | `Shutdown`, `ShutdownDone`, `Resume` | `UpdateBadBlockTableForGrownBadBlock`, called at a shutdown, and the reset that follows |

`PowerCut` may come between any two steps; it leaves a table that was being
erased or written half done.

Assumed of the flash: an erased page reads as 0xFF, a block with the maker's
mark cannot be erased and keeps its mark, and memory into which a page could not
be read holds one of `Garbage`. A table of more than one page, and the loop that
would save it (`address_translation.c:620`), do not exist in this configuration.

What the code does not promise, and the properties leave out: the blocks in a
table of which the only copy was erased when the power went, as the warning of
`address_translation.c:659` says, or when its write failed; failures during the
erase that precedes a remade table; whatever a boot believes that read a torn page
(`stale` in the module); and failures after the start of the last completed
shutdown. The host may take the power away once it sees `SHST = 2`, which the
code stores before the flush (`nvme_main.c:161-165`), so that promise is made for
flushes that were completed.

### Controller: `NvmeCtrl`

A round of `nvme_main` is a step per access that the host or the handler can
tell apart; `dev_irq_handler` is four steps, during which the main loop stands
still, as it does on one processor. A step may come between any two steps of
the other side, so that a branch chosen by a status that has changed since is
part of the model.

| action | code |
|---|---|
| `WaitCcEn`, `SetReady`, `SetRunning` | `NVME_TASK_WAIT_CC_EN` |
| `GetNvmeCmd`, `HandleNvmeCmd` | `NVME_TASK_RUNNING` and `handle_nvme_admin_cmd` with the handlers that change state |
| `Shutdown`, `SetShst`, `SetWaitReset`, `Flush` | `NVME_TASK_SHUTDOWN` |
| `WaitReset`, `ClearRdy`, `SetIdle` | `NVME_TASK_WAIT_RESET` |
| `Reset`, `ClearRdy`, `SetIdle` | `NVME_TASK_RESET` with `pcie_async_reset` |
| `IrqEnter`, `IrqLink`, `IrqCcEn`, `IrqCcShn` | `dev_irq_handler` |

The host and the link are external: a host that enables, uses, shuts down and
disables the controller as NVMe tells it to, and that starts again after a loss
of the link. `HostRecovers` assumes that the milliseconds a link takes to train
are longer than a branch of the main loop, but not than a command or a flush.
The commands that create queues also carry a size, an interrupt vector and an address
(`fits`); their limits are capabilities of the controller that the firmware does not
set, so `Legal` takes them as kept. Of `NeverAborts`, the part the firmware answers for
is that no queue is granted that its arrays and assertions do not have.

The status register is read, changed and written by the firmware; the host
writes other bits. `pcie_async_reset` writes it from a variable that was never
set, so `RDY` may be anything then. Left out: the memory flags of the queues,
which nobody reads (`delete_io_cq` leaves `irqEn` as it was); an abrupt shutdown,
which the handler does not take up; commands that get a completion and keep
their slot, which the controller does not offer; and what a reset does not touch,
the low-level requests and transfers of the former session.

`lost` is history: a store at the end of a branch has overwritten what the
handler stored meanwhile. It is the only way a wait of the host may not end. The
store of `NVME_TASK_WAIT_RESET` does no harm of this kind, because that state
looks at `CC.EN` itself.

## 3. What the runs check

Every run ends in less than three minutes; every property has a mutant, a
plausible mistake in the code, that the same run finds.

| run | bounds | states | what it shows |
|---|---|---|---|
| `req_order` | 1 die, 2 blocks of 2 pages, 2 + 1 buffers, 6 slots, collections of at most one page | 246 k | order of conflicting requests, what the flash accepts, exact counters and erase flag, no lost wakeup, no circular wait, `InOrderExec` implemented |
| `req_live` | 6 slots, transfers both ways by a script of 5, with evictions, fills and collections | 200 k | one user per buffer, only finished transfers complete, the three `Sync...` loops end |
| `req_fast_reuse` | 1 die, 2 blocks of one page, 6 slots | violation | an address used again while the same operation of its former generation is blocked lets a younger request pass |
| `way_sched` | 3 ways, controller queue of 2, one retry, reads and writes, 2 requests at once without end | 151 k | lists, commands, answers, and every request is answered |
| `ftl_data` | 2 dies of 3 blocks of 2 pages, 4 slices, two contents | 580 k | the maps agree, counts and victim lists are exact, only full blocks are erased, free blocks are unused, no abort, no page given twice, `SliceStore` implemented |
| `ftl_live` | 1 die, 3 blocks of 2 pages, 3 slices | 4 k | a write ends |
| `ftl_open_victim` | the same with `OpenVictim` | violation | the erased victim stays the open block while it is on the free list |
| `ftl_skewed` | 2 dies of 3 blocks, 6 slices of the 8 they hold | violation | one die fills up and the program aborts |
| `host_dma` | `W = 3`, requests of up to 2 transfers, 8 + 1 + 3 transfers | 457 k | partial-done exact over more than two wraps, only done requests are released, all are |
| `data_buf` | 3 buffers, 5 slices of which 3 meet in one bucket, slices of 2 blocks, commands of up to 3 slices | 581 k | links whole, newest content kept, commands covered, `LruCache` implemented |
| `bad_blocks` | 2 dies of 4 blocks, 2 of them for the user, 2 pages each, one maker's mark, one failure | 1.17 M | virtual blocks lie apart and are found again, every failure is in a table or booked, the capacity is there, no boot uses a block known to be bad |
| `nvme_ctrl` | 2 queues of each kind, a link reset after 1 idle reset, one loss of the link | 550 k | the settings are those of the session, no assertion of the queue commands fails, the host's waits end |

Why the bounds are enough. Two blocks of two pages on a die are the least with
which one block is collected while the other is written and erased and written
again; six slots allow an eviction, a copy, its erase and a fill to wait at
once. Dies meet in the request layer only through buffers and the pool. Three
ways are the least with which a way leaves a list from its middle. A way has at most
two commands in the controller queue, its own and a status check, so that the way of
one request can fill a queue of two while the other waits, again and again: `Answered`
says that it is served nevertheless. With a queue of one it is not, as the same run then
shows; nor with three requests and a queue of three, while a queue of four serves all
(checked for reads without retries). The code has room for 32 commands of 8 ways, so its
queue is never full; what the run shows of a full queue is a margin. ERASE differs
from WRITE in the scheduler only by its list. Three blocks on a die are an open
one, the reserve and one that is full, and four slices fill a die to the last
page that `Skewed = FALSE` leaves it. `W = 3` is the least width with all six orders
of head, tail and index; the proof covers the others. Three buffers have a head, a
middle and a tail in a list, and three slices that share a bucket do the same for a
hash chain. Two user blocks and two blocks of reserve let both blocks of a die be
replaced, or one of them lack a substitute when a block of the reserve is bad; one
failure is enough to tear a table, to miss a shutdown, or to lose the first block
of a die (its number of blocks is `LUNS_PER_DIE = 1` LUN, as in the
configuration; a LUN more, and two failures with fewer blocks, were checked as
well, and the proofs cover all). With two queues of each kind a submission queue may name either
completion queue and the limit of a grant lies within the host's choice; the
same run passes with two resets and two losses and one queue.

Symmetry is over host buffers (`req_order`, `req_fast_reuse`), logical slices (`ftl_data`,
`ftl_skewed`) and contents (`ftl_data`); the runs with liveness properties
use none. Views name slots by their age (`MCReqOrder`), and hide the stale entries
of `virtualSliceMap` and of the flash that only differ in a slice no longer there
(`MCFtl`, `MCFtlMap`) and the values of a way that are written before they are read
again (`MCWaySched`).

Deadlock is checked in all runs but `host_dma` (which ends when its transfers are
used up), `ftl_data` and `ftl_skewed` (where the host may have no write
left that `OpenVictim = FALSE` allows) and `nvme_ctrl` (where the controller may
stop for a host whose request was overwritten, see `lost`, or whose command it
cannot fetch any more).

`FastReuse = FALSE`, in `req_order` and `req_live`, assumes that no flash address is
used again while the same operation on its former content is still blocked. In
the code the size of the drive makes that unlikely; nothing enforces it, as
`req_fast_reuse` shows.

### Fairness

* `LiveSpec` (`MCReqLive`), `FairSpec` of `FtlMap`: the one thread goes on. The
  main loop polls whenever it finds no command (`nvme_main.c:215-224`), and with
  commands without end the pool runs empty, so that `SyncAvailFreeReq` polls.
  Dies and DMA engine finish what they were given. The host's wishes have no
  fairness.
* `FairSpec` of `HostDma`: the same, and the engine per channel.
* `FairSpec` of `WaySched`: the pass goes on, and the controller begins and the
  die finishes what each way was given. Requests arrive without fairness and
  without end; only how many there are at a time is bounded.

* `FairSpec` of `NvmeCtrl`: the main loop runs on, a pending interrupt is taken and its
  handler returns, and a host that waits looks at the register. The host's other steps
  have no fairness, and neither has the link.

One wait is without an upper bound under endless load: requests in
`blockedByRowAddrDepReqQ` are looked at only when the queue of their die is empty
(`request_schedule.c:310`). `req_live` has a bounded number of transfers for
that reason.

## 4. What is proved

Every theorem holds for every value of the constants that satisfies the named
assumptions of the modules: `ReqAssumption`, `BufAssumption`, `BlockAssumption`,
`PageAssumption`, `ReuseAssumption` of `ReqSched`; `SizeAssumption`,
`ReserveAssumption`, `NoneAssumption`, `WorkloadAssumption` of `FtlMap`;
`SizeAssumption`, `ChannelAssumption` of `HostDma`; `SizeAssumption`,
`LsaAssumption`, `CommandAssumption` of `DataBuf`; `SizeAssumption`,
`RowAssumption` of `NandAddr`, `DieAssumption`, `FailAssumption` of `BadBlocks`;
`QueueAssumption`, `ResetAssumption` of `NvmeCtrl`; `WaysAssumption`,
`RetryAssumption`, `CodeAssumption`, `DepthAssumption` of `WaySched`. Each says what
sort of thing a constant is, or how the configuration relates two of them. The type
invariants of `ReqSched`, `HostDma`, `DataBuf`, `BadBlocks`, `NvmeCtrl` and `WaySched`
are proved instead of run.

Three constants choose what the layers above do, and a theorem that depends on one
says so as a hypothesis: `~FastReuse`, `~OpenVictim` and `~Skewed`. The code
enforces none of them, and each has a run that shows what happens without it
(section 5). The instances of the passing runs satisfy them.

**Request layer** (`ReqOrder_proofs`, for `ReqSched` and `ReqOrder`).

* `TypeOK` and `BufferExclusive`. Neither is inductive. `IInv` adds that each queue
  has no slot twice and holds exactly the slots whose `reqQueueType` names it and
  whose block is on its die, that a request on a buffer is in the chain of that
  buffer, what is in hand, and that a walk has left only requests still in the queue
  it walks. The last is what makes the nested release of a blocked request during a
  walk harmless. The types need it: `permittedProgPage` stays below the last page
  only if every WRITE in a queue is well formed.
* `CountersExact` (with `CountsOK`), and two facts that no run checks:
  `BlockedReadsCounted`, an erase is held up by exactly the reads that wait, and
  `DrainedMeansEmpty`, `SyncAllLowLevelReqDone` returns only when no request is
  outstanding.
* `Moved(l, t)` is what the other proofs rest on: every step of `ReqSched` completes
  at most one request `l` and moves at most one request `t`, from the pool or between
  queues, and leaves every other where it is. `StepMoves` shows it once, action by
  action; the invariants below then need not look at the actions any more.
* `NoLostWakeup`: a request that could run is left blocked on its die only while the
  walk that will release it is on (`Wakeup`).
* `OnlyFinishedDmaCompletes`: by `DmaOK` the engine finishes the transfers of a
  direction in the order of the queue, the walk has still to visit a prefix of it, and
  once it has seen a finished transfer of a direction all it has left of that direction
  is finished.
* `EraseFlagExact`, without fast reuse: `WaitsOK` has the fields of waiting requests,
  that no two wait for one page, and that the flag is up while an erase waits.
* `FlashAccepts`: `ReplayOK` says that the queue of a die, executed from its head, takes
  the flash from the page it has to the page the dependency table permits next. It
  holds with fast reuse too.
* `NoOvertaking` and `SomeoneRuns`, without fast reuse. `Windows`: the pages of a block
  that wait are the ones between `permittedProgPage` and `currentPage`, in a circle with
  the erase as its last. `PendingOrder`: they were made in that order. `ReadsOK`: the
  page a waiting read needs is there, or its write waits before it, and an erase that
  waits is younger. `NandOrder`: conflicting requests in the queue of a die are in the
  order they were made. `SomeoneRuns` follows, because what a blocked request waits for
  is older, and the oldest request waits for nothing.
* `ImplementsInOrder`, without fast reuse: the refinement of `InOrderExec`, step by step.

**NAND scheduler** (`WaySched_proofs`), for one to 15 ways, any limit of retries, any of
the three codes, any depth of the controller and any number of requests. The controller
may hand on commands, and a die may fail, at every moment.

* `CommandsFit` and `AnsweredAsHappened`. Neither is inductive: both speak of the moment
  at which a value is used. `Stage(w)` is what is missing: by the option of the status
  check and the request at the head, it says which commands of the way the controller may
  still hold, whether its die works, and what its status word or completion flag stands
  for (`Resting`, `Checked`, `Reported`, `Transferred`). That a report is cleared before
  its check is issued is why it never stands for the operation before. `Balance`: the
  failures of a request and the tries it has left add up to the limit. `Behind`: only the
  first request of a queue can be in its second half, so the register holds its page.
* `WaysListed`. `ListsInv` gives each list the set of its ways; these are disjoint, they
  are all ways, and each way fits its list. A move is an unlinking and a push in a table
  of linked lists (`MoveListed`), and what a walk meets is the list (`WalkIs`).
* `TypeOK`, and `SkipsNothing`, which no run checks: a pass that leaves out its last part
  because `waitWayCnt` is `USER_WAYS` leaves no way unserved. Both need that a way is
  counted at most once although the walks move ways while they go: `CountedAs` has the
  ways counted, and the ways still ahead of the walk, a set that the next links do not
  leave and whose first way no other of it precedes. The link read before a way was moved
  is what keeps this so (`AheadMoved`).

**Translation and collection** (`FtlMap_proofs`), with `~OpenVictim`: `TypeOK`,
`MapsAgree`, `FreeBlocksUnused`, `VictimListsExact`, `VictimIsFull`, `PageGivenOnce`
and the refinement `ImplementsSliceStore`. All but the last two are parts of `IInv`,
which adds what a write or collection at hand has done so far: only the open block has
pages left (`OtherBlocksFull`), the victim is full and what was copied from it is no
longer valid (`VictimKept`), the reserve is whole but for one block while pages are
copied (`ReserveKept`). `NeverAborts` also needs `~Skewed`: `FullDie` counts that a die
with no victim and no free block beyond the reserve has every page valid, which is more
slices than such a host puts on it.

**Data buffers** (`DataBuf_proofs`): `TypeOK`, `ListsWhole`, `NewestKept`,
`CommandsCovered` and the refinement `ImplementsLruCache`. `Linked(l, s)` relates the
links of a list to a sequence: the code's unlinking and pushing are removal and
appending (`UnlinkLinked`, `PushTailLinked`, `PushHeadLinked`), and a walk over the links
gives back the sequence (`WalkLinked`). `CommonLemmas` has these facts for any linked
list, and for a table of lists with one array of links, which the buckets are here and
the lists of ways in `WaySched`. `BufInv` has a sequence for the recency list and
one for each bucket, each buffer in the bucket of its slice and no slice in two
buffers (`OneBuffer`). A hit or a miss is then `MovedToFront` of a sequence, which is
what `LruCache` asks for.

**Host DMA driver** (`HostDma_proofs`): `TypeOK`, `PartialDoneExact`,
`OnlyDoneReleased` and `IdentifySent` for every width. `IInv` relates the wrapped
counts to the unbounded ones (`Counts`, `AutoCounts`: never a whole turn in a FIFO),
bounds how old the copy of the direct count is (`DirectCounts`), and says that the queue
is in the order of issue (`QueueInv`), which is why a request may be released because a
younger one of its channel is done.

**Bad blocks** (`BadBlocks_proofs`), for any number of dies and blocks, one or two LUNs,
any bad blocks and any number of failures.

* `VsaRoundTrip`, `RowRoundTrip`: an address gives back the die, virtual block and page
  it was made of, and a row the block, as long as the rows of LUN 0 end before those of
  LUN 1 (`RowAssumption`; the code has 756736 rows and 0x100000).
* `TypeOK`, with the bounds of the boot's loops (`TInv`).
* `SavedOrBooked`: `SaveInv` follows a failure from the scan over the image of the table
  to the table or the booking.
* `BlocksApart` and `CapacityBacked`: `MapInv` says what holds in the middle of
  `RemapBadBlock` (`Substitutes`). What was mapped away lies on a good block of the
  reserve of its own LUN, behind the user blocks and before the place where the search
  goes on, so no two lie on the same; what found none is counted. That the LUN is kept
  is why a request and the record of its failure reach the block that was mapped.
* `BootAvoidsBadBlocks`: `AvoidInv` says, phase by phase, where what the next boot has
  to avoid is kept: in the table (`TableKnows`), in memory (`MemoryKnows`), in the image
  that is about to be written (`NewImageKnows`, `FlushKnows`), or found so far by the
  scan (`ScanKnows`). It rests on no erase ever removing a maker's mark.

**Controller** (`NvmeCtrl_proofs`): `TypeOK`, `NeverAborts` and `SettingsOfSession`. Of
the parts of `IInv`, `CmdInv` says that every command on its way is well formed,
`HostInv` what `CC` is in each state of the host, `ClearedInv` that a controller
without `RDY`, or in the branches that clear the queues, has no settings, and
`SessionInv`, the heart of it, that no branch of a former session is on between the
moments the host sees `RDY` cleared and set.

Only model-checked: the liveness properties (`SyncReleaseEraseReqReturns`,
`SyncAllLowLevelReqDoneReturns`, `OperationCompletes`, `Answered`, `WriteCompletes`,
`RequestsReleased`, `HostWaitEnds`), since liveness under fairness and ENABLED are beyond
the proof system used. Neither can it use the induction theorems of its library, which take an
operator as a parameter. Where a proof needs induction over data, the walk over links of
`WalkLinkedIn` or the smallest of a set, it takes a least counterexample instead
(`MinOf`, `MaxOf` in `CommonLemmas`), for which the sets of natural numbers suffice.

## 5. Disagreements found

* `request_transform.c:500`: the row address check cannot tell generations of a
  block apart (`req_fast_reuse`), against the intent stated in
  `request_transform.h:70-72`.
* `garbage_collection.c:77`: an open block without valid slices may be collected;
  it is then free and open at once (`ftl_open_victim`), against
  `address_translation.h:236`.
* `address_translation.c:1051`: the die of a write is chosen by rotation alone, and
  a die may fill up and stop the firmware while the drive has room
  (`ftl_skewed`), reaching the assertion of `garbage_collection.c:187`.

## 6. Not modelled, and what could follow

Hazards without a property, and why:

* `request_schedule.c:310`: requests blocked on a row address are looked at only when the
  queue of their die is empty. Under endless load the code gives no bound, so there is
  nothing to promise; `req_live` bounds the load.
* `nvme/nvme_io_cmd.c:86`: a command that starts within the drive and ends beyond
  it. The code checks only the start, and the number of blocks not at all (the assertion in line 89 is
  a comment); every module takes commands that stay within the drive.

Not modelled:

* the queue of slice requests as a consumer of slots
  (`request_transform.c:150`): the longest command the controller allows
  (`nvme_identify.c:85`) makes 65 slice requests of the pool's 8192 slots;
* the addresses of buffers in memory, the fixed memory layout, the registers the
  boot sets, RESET and SET_FEATURE of the dies, the firmware of the storage
  controllers: constants and registers without state of the program;
* the pages of identify and the answers of the admin commands that are
  constants;
* the direct receive channel and the all-done checks of the DMA driver, which
  nothing calls;
* what the layers do to each other over a reset of the controller: `RESET` leaves
  the low-level requests of the former session alone, and no module joins
  `NvmeCtrl` to `ReqSched`.

What could follow: `FtlLists`, the block links shared by the free and victim lists,
implementing the sequences of `FtlMap`; the composition of `NvmeCtrl` with the
request layer. Theorems worth having: that `FtlLists` implements `FtlMap`, for which
`CommonLemmas` has the facts on tables of linked lists.
