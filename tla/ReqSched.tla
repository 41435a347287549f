------------------------------ MODULE ReqSched ------------------------------
(***************************************************************************)
(* The life of a low-level request: from the request pool, through the two *)
(* dependency checks (data buffer, row address), to the host DMA queue or  *)
(* the NAND queue of its die, and back to the pool.                        *)
(*                                                                         *)
(* request_allocation.c keeps the queues, request_transform.c decides      *)
(* which queue a request enters, request_schedule.c takes NAND requests    *)
(* off their queue when the flash has executed them.  The firmware is one  *)
(* thread; the host DMA engine and the flash dies run beside it and are    *)
(* seen only where the firmware polls them.  A loop of the firmware that   *)
(* changes state request by request (CheckDoneNvmeDmaReq,                  *)
(* ReleaseBlockedByRowAddrDepReq, the Sync... loops) is a sequence of      *)
(* steps; what is left of the loop is kept in dmaWalk, rowAddrWalk and     *)
(* syncReq, and no other step of the firmware is enabled meanwhile.        *)
(***************************************************************************)
EXTENDS Integers, Sequences, FiniteSets, SequencesExt

CONSTANTS
  Req,            \* the slots of reqPool
  NoReq,          \* REQ_SLOT_TAG_NONE
  HostBuf,        \* the entries of dataBufMap
  TempBuf,        \* the entries of tempDataBufMap, used by garbage collection
  NoBuf,          \* REQ_OPT_DATA_BUF_NONE
  Die,            \* the (channel, way) pairs
  Block,          \* the (die, virtual block) pairs
  NoBlock,        \* a DMA request addresses no block
  DieOf,          \* the die of a block
  PagesPerBlock,  \* USER_PAGES_PER_BLOCK
  ReservedFreeBlocks, \* RESERVED_FREE_BLOCK_COUNT
  MaxGcCopies,    \* bound: valid pages one garbage collection moves
  HostCode,       \* bound: the kinds of transfer the host asks for
  FastReuse       \* may a flash address be used again while the same operation
                  \* on its previous generation still waits for a queue?

Buf == HostBuf \cup TempBuf

ASSUME ReqAssumption   == NoReq \notin Req /\ IsFiniteSet(Req)
ASSUME BufAssumption   == NoBuf \notin Buf /\ HostBuf \cap TempBuf = {}
ASSUME BlockAssumption == DieOf \in [Block -> Die] /\ NoBlock \notin Block
ASSUME PageAssumption  == PagesPerBlock \in Nat \ {0}
ASSUME ReuseAssumption == /\ ReservedFreeBlocks \in Nat /\ MaxGcCopies \in Nat
                          /\ FastReuse \in BOOLEAN /\ HostCode \subseteq {"RxDMA", "TxDMA"}

VARIABLES
  reqPool,            \* code, data buffer and flash address of each slot
  reqQueueType,       \* the queue that holds each slot
  nvmeDmaReqQ,        \* requests handed to the host DMA engine, oldest first
  nandReqQ,           \* per die: requests handed to the flash, oldest first
  rowAddrDepReqQ,     \* per die: blockedByRowAddrDepReqQ
  blockingReq,        \* per buffer: the blocking request queue, oldest first
  permittedProgPage,  \* per block: the only page a write may program next
  blockedReadReqCnt,  \* per block: reads that still wait
  blockedEraseReqFlag,\* per block: an erase waits
  blockedReqCnt,      \* length of the two kinds of blocked queues together
  notCompletedNandReqCnt, \* length of all nandReqQ together
  dirty,              \* host buffers that hold data the flash does not have
  currentPage,        \* per block: pages the FTL has allocated
  plan,               \* low-level requests the current operation still makes
  sliceReq,           \* the slot of the slice request in hand
  syncReq,            \* the request SyncReleaseEraseReq holds up
  syncAll,            \* SyncAllLowLevelReqDone runs
  dmaWalk,            \* what CheckDoneNvmeDmaReq has still to visit
  rowAddrWalk,        \* what ReleaseBlockedByRowAddrDepReq has still to visit
  dmaDone             \* requests the host DMA engine has finished

poolVars  == <<reqPool, reqQueueType, blockingReq>>
queueVars == <<nvmeDmaReqQ, nandReqQ, rowAddrDepReqQ, blockedReqCnt, notCompletedNandReqCnt>>
depVars   == <<permittedProgPage, blockedReadReqCnt, blockedEraseReqFlag>>
ftlVars   == <<dirty, currentPage, plan, sliceReq, syncAll>>
loopVars  == <<syncReq, dmaWalk, rowAddrWalk>>
vars == <<poolVars, queueVars, depVars, ftlVars, loopVars, dmaDone>>

-----------------------------------------------------------------------------
(* Requests.                                                               *)

DmaCode  == {"RxDMA", "TxDMA"}
NandCode == {"READ", "WRITE", "ERASE"}

\* The page of an ERASE is its programmedPageCnt; a DMA request has page 0.
Request == [reqCode : DmaCode \cup NandCode,
            buf     : Buf \cup {NoBuf},
            block   : Block \cup {NoBlock},
            page    : 0..PagesPerBlock]

\* What a slot in the pool or in hand of the slice layer is taken to hold.
NoRequest == [reqCode |-> "RxDMA", buf |-> NoBuf, block |-> NoBlock, page |-> 0]

QueueType == {"FREE", "SLICE", "BLOCKED_BY_BUF_DEP", "BLOCKED_BY_ROW_ADDR_DEP",
              "NVME_DMA", "NAND", "NONE"}

\* An entry of plan: the sub-request to make and its data buffer.
SubReq == {s \in [reqCode : DmaCode \cup NandCode, buf : Buf \cup {NoBuf}] :
             s.reqCode = "ERASE" <=> s.buf = NoBuf}

\* The slot holds a low-level request that is not completed.
Outstanding(r) == reqQueueType[r] \notin {"FREE", "SLICE"}

\* A dependency holds the request up.
Blocked(r) == reqQueueType[r] \in {"BLOCKED_BY_BUF_DEP", "BLOCKED_BY_ROW_ADDR_DEP"}

FreeReq     == {r \in Req : reqQueueType[r] = "FREE"}
DieOfReq(q) == DieOf[q.block]

\* The place of an element in a queue, and the queue without the element.
IndexOf(s, e) == CHOOSE i \in 1..Len(s) : s[i] = e
Without(s, e) == RemoveAt(s, IndexOf(s, e))

-----------------------------------------------------------------------------
(* The row address dependency table, CheckRowAddrDep.  A read passes once  *)
(* its page is programmed, a write when its page is the next one, an erase *)
(* when the pages it expects are programmed and no read waits.             *)

\* Mutants: an erase that does not wait for reads; a read one page early.
PassRowAddrDepEagerErase(q) ==
  IF q.reqCode = "READ" THEN q.page < permittedProgPage[q.block]
  ELSE q.page = permittedProgPage[q.block]
PassRowAddrDepEarlyRead(q) ==
  IF q.reqCode = "READ" THEN q.page <= permittedProgPage[q.block]
  ELSE /\ q.page = permittedProgPage[q.block]
       /\ q.reqCode = "ERASE" => blockedReadReqCnt[q.block] = 0

PassRowAddrDep(q) ==
  CASE q.reqCode = "READ"  -> q.page < permittedProgPage[q.block]
    [] q.reqCode = "WRITE" -> q.page = permittedProgPage[q.block]
    [] q.reqCode = "ERASE" -> /\ q.page = permittedProgPage[q.block]
                              /\ blockedReadReqCnt[q.block] = 0

\* Mutant: the flag of a passed erase stays up.
UpdateTablePassedKeepFlag(q, released) ==
  /\ permittedProgPage' = [permittedProgPage EXCEPT ![q.block] =
       CASE q.reqCode = "WRITE" -> @ + 1 [] q.reqCode = "ERASE" -> 0 [] OTHER -> @]
  /\ blockedReadReqCnt' = [blockedReadReqCnt EXCEPT ![q.block] =
       IF q.reqCode = "READ" /\ released THEN @ - 1 ELSE @]
  /\ UNCHANGED blockedEraseReqFlag

\* The table after q passed; a RELEASEd read had been counted as blocked.
UpdateTablePassed(q, released) ==
  /\ permittedProgPage' = [permittedProgPage EXCEPT ![q.block] =
       CASE q.reqCode = "WRITE" -> @ + 1 [] q.reqCode = "ERASE" -> 0 [] OTHER -> @]
  /\ blockedReadReqCnt' = [blockedReadReqCnt EXCEPT ![q.block] =
       IF q.reqCode = "READ" /\ released THEN @ - 1 ELSE @]
  /\ blockedEraseReqFlag' = [blockedEraseReqFlag EXCEPT ![q.block] =
       @ /\ q.reqCode # "ERASE"]

\* The table after a SELECT check found q blocked.
UpdateTableBlocked(q) ==
  /\ blockedReadReqCnt' = [blockedReadReqCnt EXCEPT ![q.block] =
       IF q.reqCode = "READ" THEN @ + 1 ELSE @]
  /\ blockedEraseReqFlag' = [blockedEraseReqFlag EXCEPT ![q.block] =
       @ \/ q.reqCode = "ERASE"]
  /\ UNCHANGED permittedProgPage

-----------------------------------------------------------------------------
(* Entering a queue.                                                       *)

PutToNvmeDmaReqQ(r) ==
  /\ nvmeDmaReqQ' = Append(nvmeDmaReqQ, r)
  /\ reqQueueType' = [reqQueueType EXCEPT ![r] = "NVME_DMA"]
  /\ UNCHANGED <<nandReqQ, rowAddrDepReqQ, blockedReqCnt, notCompletedNandReqCnt>>

PutToNandReqQ(r, d) ==
  /\ nandReqQ' = [nandReqQ EXCEPT ![d] = Append(@, r)]
  /\ reqQueueType' = [reqQueueType EXCEPT ![r] = "NAND"]
  /\ notCompletedNandReqCnt' = notCompletedNandReqCnt + 1
  /\ UNCHANGED <<nvmeDmaReqQ, rowAddrDepReqQ, blockedReqCnt>>

\* Mutant: only the release counts.
PutToBlockedByRowAddrDepReqQUncounted(r, d) ==
  /\ rowAddrDepReqQ' = [rowAddrDepReqQ EXCEPT ![d] = Append(@, r)]
  /\ reqQueueType' = [reqQueueType EXCEPT ![r] = "BLOCKED_BY_ROW_ADDR_DEP"]
  /\ UNCHANGED <<nvmeDmaReqQ, nandReqQ, blockedReqCnt, notCompletedNandReqCnt>>

PutToBlockedByRowAddrDepReqQ(r, d) ==
  /\ rowAddrDepReqQ' = [rowAddrDepReqQ EXCEPT ![d] = Append(@, r)]
  /\ reqQueueType' = [reqQueueType EXCEPT ![r] = "BLOCKED_BY_ROW_ADDR_DEP"]
  /\ blockedReqCnt' = blockedReqCnt + 1
  /\ UNCHANGED <<nvmeDmaReqQ, nandReqQ, notCompletedNandReqCnt>>

PutToBlockedByBufDepReqQ(r) ==
  /\ reqQueueType' = [reqQueueType EXCEPT ![r] = "BLOCKED_BY_BUF_DEP"]
  /\ blockedReqCnt' = blockedReqCnt + 1
  /\ UNCHANGED <<nvmeDmaReqQ, nandReqQ, rowAddrDepReqQ, notCompletedNandReqCnt>>

-----------------------------------------------------------------------------
(* SelectLowLevelReqQ(r) for a request q whose data buffer is (hasPrev) or *)
(* is not in use by an older request.                                      *)

DispatchUnblocked(r, q) ==
  \/ /\ q.reqCode \in DmaCode
     /\ PutToNvmeDmaReqQ(r)
     /\ UNCHANGED depVars
  \/ /\ q.reqCode \in NandCode
     /\ PassRowAddrDep(q)
     /\ UpdateTablePassed(q, FALSE)
     /\ PutToNandReqQ(r, DieOfReq(q))
  \/ /\ q.reqCode \in NandCode
     /\ ~PassRowAddrDep(q)
     /\ UpdateTableBlocked(q)
     /\ PutToBlockedByRowAddrDepReqQ(r, DieOfReq(q))

\* UpdateRowAddrDepTableForBufBlockedReq: a read is counted already here.
DispatchBufBlocked(r, q) ==
  /\ PutToBlockedByBufDepReqQ(r)
  /\ \/ /\ q.reqCode \in NandCode
        /\ UpdateTableBlocked(q)
     \/ /\ q.reqCode \in DmaCode
        /\ UNCHANGED depVars

\* Mutant: the flag is not looked at.
MustSyncNever(q) == q.reqCode = "READ" /\ FALSE

\* A read of a block that waits to be erased: SyncReleaseEraseReq first.
MustSync(q) == q.reqCode = "READ" /\ blockedEraseReqFlag[q.block]

\* Mutant: no buffer dependency check.
SelectLowLevelReqQNoBufDep(r, q, hasPrev) ==
  \/ /\ MustSync(q)
     /\ syncReq' = r
     /\ reqQueueType' = [reqQueueType EXCEPT ![r] = "NONE"]
     /\ UNCHANGED <<queueVars, depVars>>
  \/ /\ ~MustSync(q)
     /\ DispatchUnblocked(r, q)
     /\ UNCHANGED syncReq

SelectLowLevelReqQ(r, q, hasPrev) ==
  \/ /\ MustSync(q)
     /\ syncReq' = r
     /\ reqQueueType' = [reqQueueType EXCEPT ![r] = "NONE"]
     /\ UNCHANGED <<queueVars, depVars>>
  \/ /\ ~MustSync(q)
     /\ \/ hasPrev /\ DispatchBufBlocked(r, q)
        \/ ~hasPrev /\ DispatchUnblocked(r, q)
     /\ UNCHANGED syncReq

-----------------------------------------------------------------------------
(* Release after request r left its queue: r goes to the pool and the      *)
(* request behind it in the blocking queue of its buffer is dispatched.    *)
(* dmaQ, nandQ and nandCnt are the queues without r.                       *)

\* Mutant: the last waiting request is overlooked.
NextBlockingReqOffByOne(r) ==
  LET b == reqPool[r].buf IN
  IF b # NoBuf /\ Len(blockingReq[b]) > 2 THEN blockingReq[b][2] ELSE NoReq

NextBlockingReq(r) ==
  LET b == reqPool[r].buf IN
  IF b # NoBuf /\ Len(blockingReq[b]) > 1 THEN blockingReq[b][2] ELSE NoReq

ReleaseBlockedByBufDepReq(r, dmaQ, nandQ, nandCnt) ==
  LET b      == reqPool[r].buf
      target == NextBlockingReq(r)
      q      == reqPool[target]
      wakes  == target # NoReq /\ reqQueueType[target] = "BLOCKED_BY_BUF_DEP"
      Moved(to) == [reqQueueType EXCEPT ![r] = "FREE", ![target] = to]
  IN
  /\ reqPool' = [reqPool EXCEPT ![r] = NoRequest]
  /\ blockingReq' = IF b = NoBuf THEN blockingReq
                    ELSE [blockingReq EXCEPT ![b] = Tail(@)]
  /\ \/ /\ ~wakes
        /\ reqQueueType' = [reqQueueType EXCEPT ![r] = "FREE"]
        /\ nvmeDmaReqQ' = dmaQ
        /\ nandReqQ' = nandQ
        /\ notCompletedNandReqCnt' = nandCnt
        /\ UNCHANGED <<rowAddrDepReqQ, blockedReqCnt, depVars>>
     \/ /\ wakes
        /\ q.reqCode \in DmaCode
        /\ reqQueueType' = Moved("NVME_DMA")
        /\ nvmeDmaReqQ' = Append(dmaQ, target)
        /\ nandReqQ' = nandQ
        /\ notCompletedNandReqCnt' = nandCnt
        /\ blockedReqCnt' = blockedReqCnt - 1
        /\ UNCHANGED <<rowAddrDepReqQ, depVars>>
     \/ /\ wakes
        /\ q.reqCode \in NandCode
        /\ PassRowAddrDep(q)
        /\ UpdateTablePassed(q, TRUE)
        /\ reqQueueType' = Moved("NAND")
        /\ nandReqQ' = [nandQ EXCEPT ![DieOfReq(q)] = Append(@, target)]
        /\ notCompletedNandReqCnt' = nandCnt + 1
        /\ blockedReqCnt' = blockedReqCnt - 1
        /\ nvmeDmaReqQ' = dmaQ
        /\ UNCHANGED rowAddrDepReqQ
     \/ /\ wakes
        /\ q.reqCode \in NandCode
        /\ ~PassRowAddrDep(q)
        /\ reqQueueType' = Moved("BLOCKED_BY_ROW_ADDR_DEP")
        /\ rowAddrDepReqQ' =
             [rowAddrDepReqQ EXCEPT ![DieOfReq(q)] = Append(@, target)]
        /\ nvmeDmaReqQ' = dmaQ
        /\ nandReqQ' = nandQ
        /\ notCompletedNandReqCnt' = nandCnt
        /\ UNCHANGED <<blockedReqCnt, depVars>>

-----------------------------------------------------------------------------
(* The main loop: slice requests, garbage collection, synchronisation.     *)

\* Between two iterations of every loop over requests.
NotWalking == dmaWalk.todo = <<>> /\ rowAddrWalk = <<>>

\* The firmware may start something new.
Ready == NotWalking /\ syncReq = NoReq /\ ~syncAll

\* ReqTransSliceToLowLevel for one slice request: a data buffer hit only
\* transfers, a miss evicts a dirty entry, reads the slice if it is mapped
\* and not overwritten whole, then transfers.
SliceRequest(r, b, code, hit, fill) ==
  /\ Ready /\ plan = <<>> /\ sliceReq = NoReq
  /\ r \in FreeReq
  /\ hit => blockingReq[b] # <<>> \/ b \in dirty
  /\ fill => ~hit /\ \E k \in Block : currentPage[k] > 0
  /\ sliceReq' = r
  /\ reqQueueType' = [reqQueueType EXCEPT ![r] = "SLICE"]
  /\ LET SubReqs(c, on) == IF on THEN <<[reqCode |-> c, buf |-> b]>> ELSE <<>>
     IN plan' = SubReqs("WRITE", ~hit /\ b \in dirty)
                \o SubReqs("READ", fill) \o SubReqs(code, TRUE)
  /\ dirty' = IF code = "RxDMA" THEN dirty \cup {b}
              ELSE IF hit THEN dirty ELSE dirty \ {b}
  /\ UNCHANGED <<reqPool, blockingReq, queueVars, depVars, currentPage,
                 syncAll, loopVars, dmaDone>>

\* The free blocks of a die, and the reserve host writes may not open.
FreeBlock(d) == {k \in Block : DieOf[k] = d /\ currentPage[k] = 0}
FullBlock(d) == {k \in Block : DieOf[k] = d /\ currentPage[k] = PagesPerBlock}
Exhausted(d) == /\ Cardinality(FreeBlock(d)) <= ReservedFreeBlocks
                /\ \A k \in Block : DieOf[k] = d => k \in FreeBlock(d) \cup FullBlock(d)

\* GarbageCollection(d), entered from AddrTransWrite when the die has no page
\* left for the host write at hand: it moves copies valid pages through the
\* temporary buffer, then EraseBlock.
GarbageCollection(d, t, copies) ==
  /\ Ready /\ plan # <<>>
  /\ Head(plan).reqCode = "WRITE" /\ Head(plan).buf \in HostBuf
  /\ Exhausted(d) /\ FullBlock(d) # {}
  /\ copies < PagesPerBlock
  /\ plan' = [i \in 1..(2 * copies) |->
                [reqCode |-> IF i % 2 = 1 THEN "READ" ELSE "WRITE", buf |-> t]]
             \o <<[reqCode |-> "ERASE", buf |-> NoBuf]>> \o plan
  /\ UNCHANGED <<poolVars, queueVars, depVars, dirty, currentPage, sliceReq,
                 syncAll, loopVars, dmaDone>>

\* The flash addresses the FTL can give a sub-request.  A write gets the next
\* page of the open block of a die, opening a free one if there is none; a
\* read any page allocated before, an erase a block with all pages allocated.
Writable(k, buf) ==
  \/ currentPage[k] \in 1..(PagesPerBlock - 1)
  \/ /\ k \in FreeBlock(DieOf[k])
     /\ \A j \in Block : DieOf[j] = DieOf[k] => currentPage[j] \in {0, PagesPerBlock}
     /\ buf \in TempBuf \/ ~Exhausted(DieOf[k])

Address(s) ==
  CASE s.reqCode = "READ"  -> {a \in Block \X (0..PagesPerBlock) : a[2] < currentPage[a[1]]}
    [] s.reqCode = "WRITE" -> {a \in Block \X (0..PagesPerBlock) :
                                 a[2] = currentPage[a[1]] /\ Writable(a[1], s.buf)}
    [] s.reqCode = "ERASE" -> {a \in Block \X {PagesPerBlock} : a[1] \in FullBlock(DieOf[a[1]])}
    [] OTHER               -> {<<NoBlock, 0>>}

\* Another request with the same operation on the same address has not got
\* past the dependency checks yet: its block was erased and allocated again
\* meanwhile.
Lagging(q) ==
  \E r \in Req : /\ Blocked(r)
                 /\ reqPool[r].reqCode \in {"WRITE", "ERASE"}
                 /\ reqPool[r].reqCode = q.reqCode
                 /\ reqPool[r].block = q.block
                 /\ reqPool[r].page = q.page

\* The next sub-request of the plan: GetFromFreeReqQ (the transfer reuses
\* the slot of the slice request), fill in the entry, append it to the
\* blocking queue of its buffer and dispatch it.
IssueSubReq(r, a) ==
  LET s == Head(plan)
      q == [reqCode |-> s.reqCode, buf |-> s.buf, block |-> a[1], page |-> a[2]]
      hasPrev == s.buf # NoBuf /\ blockingReq[s.buf] # <<>>
  IN
  /\ Ready /\ plan # <<>>
  /\ IF s.reqCode \in DmaCode THEN r = sliceReq ELSE r \in FreeReq
  /\ a \in Address(s)
  /\ FastReuse \/ ~Lagging(q)
  /\ plan' = Tail(plan)
  /\ sliceReq' = IF r = sliceReq THEN NoReq ELSE sliceReq
  /\ reqPool' = [reqPool EXCEPT ![r] = q]
  /\ blockingReq' = IF s.buf = NoBuf THEN blockingReq
                    ELSE [blockingReq EXCEPT ![s.buf] = Append(@, r)]
  /\ currentPage' = CASE s.reqCode = "WRITE" -> [currentPage EXCEPT ![a[1]] = @ + 1]
                      [] s.reqCode = "ERASE" -> [currentPage EXCEPT ![a[1]] = 0]
                      [] OTHER -> currentPage
  /\ SelectLowLevelReqQ(r, q, hasPrev)
  /\ UNCHANGED <<dirty, syncAll, dmaWalk, rowAddrWalk, dmaDone>>

\* SyncReleaseEraseReq returns; the buffer dependency is looked at again.
SyncReleaseEraseReqDone ==
  LET q == reqPool[syncReq] IN
  /\ NotWalking /\ syncReq # NoReq
  /\ ~blockedEraseReqFlag[q.block]
  /\ \/ Head(blockingReq[q.buf]) = syncReq /\ DispatchUnblocked(syncReq, q)
     \/ Head(blockingReq[q.buf]) # syncReq /\ DispatchBufBlocked(syncReq, q)
  /\ syncReq' = NoReq
  /\ UNCHANGED <<reqPool, blockingReq, ftlVars, dmaWalk, rowAddrWalk, dmaDone>>

\* SyncAllLowLevelReqDone: nothing new until every queue is empty.
SyncAllLowLevelReqDone ==
  /\ Ready /\ plan = <<>> /\ sliceReq = NoReq
  /\ syncAll' = TRUE
  /\ UNCHANGED <<poolVars, queueVars, depVars, dirty, currentPage, plan,
                 sliceReq, loopVars, dmaDone>>

SyncAllReturns ==
  /\ syncAll /\ NotWalking
  /\ nvmeDmaReqQ = <<>> /\ notCompletedNandReqCnt = 0 /\ blockedReqCnt = 0
  /\ syncAll' = FALSE
  /\ UNCHANGED <<poolVars, queueVars, depVars, dirty, currentPage, plan,
                 sliceReq, loopVars, dmaDone>>

-----------------------------------------------------------------------------
(* Host DMA.                                                               *)

\* The engine finishes the oldest transfer of one direction.
HostDmaDone(r) ==
  /\ r \in ToSet(nvmeDmaReqQ) \ dmaDone
  /\ \A i \in 1..IndexOf(nvmeDmaReqQ, r) :
       \/ reqPool[nvmeDmaReqQ[i]].reqCode # reqPool[r].reqCode
       \/ nvmeDmaReqQ[i] \in dmaDone \cup {r}
  /\ dmaDone' = dmaDone \cup {r}
  /\ UNCHANGED <<poolVars, queueVars, depVars, ftlVars, loopVars>>

\* CheckDoneNvmeDmaReq visits the queue from its tail; a visit that finds
\* nothing done changes nothing, so the walk is started when one is done.
CheckDoneNvmeDmaReq ==
  /\ NotWalking
  /\ ToSet(nvmeDmaReqQ) \cap dmaDone # {}
  /\ dmaWalk' = [todo |-> nvmeDmaReqQ, rxDone |-> FALSE, txDone |-> FALSE]
  /\ UNCHANGED <<poolVars, queueVars, depVars, ftlVars, syncReq, rowAddrWalk, dmaDone>>

\* Mutant: one flag for both directions.
VisitNvmeDmaReqOneFlag ==
  LET n    == Len(dmaWalk.todo)
      r    == dmaWalk.todo[n]
      done == dmaWalk.rxDone \/ r \in dmaDone
  IN
  /\ dmaWalk.todo # <<>>
  /\ dmaWalk' = [todo   |-> SubSeq(dmaWalk.todo, 1, n - 1),
                 rxDone |-> dmaWalk.rxDone \/ done,
                 txDone |-> dmaWalk.txDone]
  /\ \/ /\ done
        /\ dmaDone' = dmaDone \ {r}
        /\ ReleaseBlockedByBufDepReq(r, Without(nvmeDmaReqQ, r), nandReqQ,
                                     notCompletedNandReqCnt)
     \/ /\ ~done
        /\ UNCHANGED <<poolVars, queueVars, depVars, dmaDone>>
  /\ UNCHANGED <<ftlVars, syncReq, rowAddrWalk>>

\* One iteration of the walk.  Once a transfer is found done, the older ones
\* of its direction are taken to be done without asking.
VisitNvmeDmaReq ==
  LET n    == Len(dmaWalk.todo)
      r    == dmaWalk.todo[n]
      isRx == reqPool[r].reqCode = "RxDMA"
      done == (IF isRx THEN dmaWalk.rxDone ELSE dmaWalk.txDone) \/ r \in dmaDone
  IN
  /\ dmaWalk.todo # <<>>
  /\ dmaWalk' = [todo   |-> SubSeq(dmaWalk.todo, 1, n - 1),
                 rxDone |-> dmaWalk.rxDone \/ (isRx /\ done),
                 txDone |-> dmaWalk.txDone \/ (~isRx /\ done)]
  /\ \/ /\ done
        /\ dmaDone' = dmaDone \ {r}
        /\ ReleaseBlockedByBufDepReq(r, Without(nvmeDmaReqQ, r), nandReqQ,
                                     notCompletedNandReqCnt)
     \/ /\ ~done
        /\ UNCHANGED <<poolVars, queueVars, depVars, dmaDone>>
  /\ UNCHANGED <<ftlVars, syncReq, rowAddrWalk>>

-----------------------------------------------------------------------------
(* Flash.                                                                  *)

\* Mutant: no recheck.
GetFromNandReqQNoRecheck(d) ==
  LET r == Head(nandReqQ[d]) IN
  /\ NotWalking
  /\ nandReqQ[d] # <<>>
  /\ ReleaseBlockedByBufDepReq(r, nvmeDmaReqQ, [nandReqQ EXCEPT ![d] = Tail(@)],
                               notCompletedNandReqCnt - 1)
  /\ UNCHANGED <<rowAddrWalk, ftlVars, syncReq, dmaWalk, dmaDone>>

\* The scheduler finds the request at the head of a die finished
\* (GetFromNandReqQ) and, when nothing is left for the die, rechecks the
\* requests blocked on it.  The scheduler makes the same recheck for every die
\* of the idle list; it is left out because it finds nothing (NoLostWakeup).
GetFromNandReqQ(d) ==
  LET r == Head(nandReqQ[d]) IN
  /\ NotWalking
  /\ nandReqQ[d] # <<>>
  /\ ReleaseBlockedByBufDepReq(r, nvmeDmaReqQ, [nandReqQ EXCEPT ![d] = Tail(@)],
                               notCompletedNandReqCnt - 1)
  /\ rowAddrWalk' = IF nandReqQ'[d] = <<>> THEN rowAddrDepReqQ'[d] ELSE <<>>
  /\ UNCHANGED <<ftlVars, syncReq, dmaWalk, dmaDone>>

\* One iteration of ReleaseBlockedByRowAddrDepReq.
VisitRowAddrDepReq ==
  LET r == Head(rowAddrWalk)
      q == reqPool[r]
      d == DieOfReq(q)
  IN
  /\ rowAddrWalk # <<>>
  /\ rowAddrWalk' = Tail(rowAddrWalk)
  /\ \/ /\ PassRowAddrDep(q)
        /\ UpdateTablePassed(q, TRUE)
        /\ rowAddrDepReqQ' = [rowAddrDepReqQ EXCEPT ![d] = Without(@, r)]
        /\ nandReqQ' = [nandReqQ EXCEPT ![d] = Append(@, r)]
        /\ reqQueueType' = [reqQueueType EXCEPT ![r] = "NAND"]
        /\ notCompletedNandReqCnt' = notCompletedNandReqCnt + 1
        /\ blockedReqCnt' = blockedReqCnt - 1
        /\ UNCHANGED nvmeDmaReqQ
     \/ /\ ~PassRowAddrDep(q)
        /\ UNCHANGED <<reqQueueType, queueVars, depVars>>
  /\ UNCHANGED <<reqPool, blockingReq, ftlVars, syncReq, dmaWalk, dmaDone>>

-----------------------------------------------------------------------------
\* InitReqPool and InitDependencyTable; every block is erased.
Init ==
  /\ reqPool = [r \in Req |-> NoRequest]
  /\ reqQueueType = [r \in Req |-> "FREE"]
  /\ nvmeDmaReqQ = <<>>
  /\ nandReqQ = [d \in Die |-> <<>>]
  /\ rowAddrDepReqQ = [d \in Die |-> <<>>]
  /\ blockingReq = [b \in Buf |-> <<>>]
  /\ permittedProgPage = [k \in Block |-> 0]
  /\ blockedReadReqCnt = [k \in Block |-> 0]
  /\ blockedEraseReqFlag = [k \in Block |-> FALSE]
  /\ blockedReqCnt = 0
  /\ notCompletedNandReqCnt = 0
  /\ dirty = {}
  /\ currentPage = [k \in Block |-> 0]
  /\ plan = <<>>
  /\ sliceReq = NoReq
  /\ syncReq = NoReq
  /\ syncAll = FALSE
  /\ dmaWalk = [todo |-> <<>>, rxDone |-> FALSE, txDone |-> FALSE]
  /\ rowAddrWalk = <<>>
  /\ dmaDone = {}

\* What the polling loops do, whoever runs them.
Poll == \/ CheckDoneNvmeDmaReq
        \/ VisitNvmeDmaReq
        \/ \E d \in Die : GetFromNandReqQ(d)
        \/ VisitRowAddrDepReq

Hardware == \E r \in Req : HostDmaDone(r)

Frontend ==
  \/ \E r \in Req, b \in HostBuf, code \in HostCode, hit, fill \in BOOLEAN :
       SliceRequest(r, b, code, hit, fill)
  \/ \E d \in Die, t \in TempBuf, copies \in 0..MaxGcCopies : GarbageCollection(d, t, copies)
  \/ SyncAllLowLevelReqDone

Next ==
  \/ Frontend
  \/ \E r \in Req, a \in (Block \cup {NoBlock}) \X (0..PagesPerBlock) : IssueSubReq(r, a)
  \/ SyncReleaseEraseReqDone
  \/ SyncAllReturns
  \/ Hardware
  \/ Poll

Spec == Init /\ [][Next]_vars

-----------------------------------------------------------------------------
\* The state functions keep to their sets.
TypeOK ==
  /\ reqPool \in [Req -> Request]
  /\ reqQueueType \in [Req -> QueueType]
  /\ nvmeDmaReqQ \in Seq(Req)
  /\ nandReqQ \in [Die -> Seq(Req)]
  /\ rowAddrDepReqQ \in [Die -> Seq(Req)]
  /\ blockingReq \in [Buf -> Seq(Req)]
  /\ permittedProgPage \in [Block -> 0..PagesPerBlock]
  /\ blockedReadReqCnt \in [Block -> Int]
  /\ blockedEraseReqFlag \in [Block -> BOOLEAN]
  /\ blockedReqCnt \in Int
  /\ notCompletedNandReqCnt \in Int
  /\ dirty \subseteq HostBuf
  /\ currentPage \in [Block -> 0..PagesPerBlock]
  /\ plan \in Seq(SubReq)
  /\ sliceReq \in Req \cup {NoReq}
  /\ syncReq \in Req \cup {NoReq}
  /\ syncAll \in BOOLEAN
  /\ dmaWalk \in [todo : Seq(Req), rxDone : BOOLEAN, txDone : BOOLEAN]
  /\ rowAddrWalk \in Seq(Req)
  /\ dmaDone \subseteq Req

InQueue(r) == reqQueueType[r] \in {"NVME_DMA", "NAND", "BLOCKED_BY_ROW_ADDR_DEP"}

\* A data buffer is used by one request at a time: of the requests that
\* share a buffer only the oldest is past the buffer dependency check, so a
\* transfer never meets another transfer or a flash operation on the same
\* memory (request_transform.c, CheckBufDep).
BufferExclusive ==
  \A r \in Req : InQueue(r) /\ reqPool[r].buf # NoBuf =>
     /\ blockingReq[reqPool[r].buf] # <<>>
     /\ Head(blockingReq[reqPool[r].buf]) = r

\* The two counters the synchronisation loops poll are exact, so they never
\* go below zero.
CountersExact ==
  /\ blockedReqCnt = Cardinality({r \in Req : Blocked(r)})
  /\ notCompletedNandReqCnt = Cardinality({r \in Req : reqQueueType[r] = "NAND"})

\* blockedReadReqCnt counts the reads of the block that wait in either
\* blocked queue; an erase passes when it is 0.
BlockedReadsCounted ==
  \A k \in Block : blockedReadReqCnt[k] =
    Cardinality({r \in Req : /\ Blocked(r)
                             /\ reqPool[r].reqCode = "READ"
                             /\ reqPool[r].block = k})

\* The flag SyncReleaseEraseReq waits on is up exactly while an erase of the
\* block waits, so the loop has something to wait for and no read slips in
\* front of a waiting erase.
EraseFlagExact ==
  \A k \in Block : blockedEraseReqFlag[k] <=>
    \E r \in Req : /\ reqQueueType[r] = "BLOCKED_BY_ROW_ADDR_DEP"
                   /\ reqPool[r].reqCode = "ERASE"
                   /\ reqPool[r].block = k

\* SyncAllLowLevelReqDone trusts nvmeDmaReqQ and two counters: when they say
\* that nothing is left, no request is outstanding.
DrainedMeansEmpty ==
  nvmeDmaReqQ = <<>> /\ notCompletedNandReqCnt = 0 /\ blockedReqCnt = 0 /\ syncReq = NoReq
    => \A r \in Req : ~Outstanding(r)

\* No wakeup is lost: the requests left blocked on a die with nothing to do
\* really cannot pass, so the one recheck when the die runs out of work is
\* enough and the scan of the idle list finds nothing
\* (request_schedule.c, SchedulingNandReqPerCh).
NoLostWakeup ==
  NotWalking => \A d \in Die : nandReqQ[d] = <<>> =>
    \A i \in 1..Len(rowAddrDepReqQ[d]) : ~PassRowAddrDep(reqPool[rowAddrDepReqQ[d][i]])

\* Blocked requests never only wait for each other: while one is blocked, the
\* host DMA engine or a die has work, or a request may pass its check, or the
\* request SyncReleaseEraseReq holds up may go on.  The polling loops of
\* SyncAvailFreeReq, SyncReleaseEraseReq and SyncAllLowLevelReqDone rest on it.
SomeoneRuns ==
  \/ \A r \in Req : ~Blocked(r)
  \/ nvmeDmaReqQ # <<>>
  \/ \E d \in Die : \/ nandReqQ[d] # <<>>
                    \/ \E r \in ToSet(rowAddrDepReqQ[d]) : PassRowAddrDep(reqPool[r])
  \/ syncReq # NoReq /\ ~blockedEraseReqFlag[reqPool[syncReq].block]

\* A host transfer is completed only when the DMA engine has finished it,
\* although CheckDoneNvmeDmaReq infers most completions from a later one.
OnlyFinishedDmaCompletes ==
  [][\A r \in Req : reqQueueType[r] = "NVME_DMA" /\ reqQueueType'[r] # "NVME_DMA"
       => r \in dmaDone]_vars
=============================================================================
