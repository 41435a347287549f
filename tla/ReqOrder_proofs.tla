--------------------------- MODULE ReqOrder_proofs ---------------------------
(***************************************************************************)
(* ReqSched and ReqOrder: requests reach the flash in the order the FTL    *)
(* made them wherever that order matters, blocked requests are woken, and  *)
(* something can always go on, for any number of slots, buffers, dies,     *)
(* blocks and pages.                                                       *)
(***************************************************************************)
EXTENDS ReqOrder, CommonLemmas, SequenceTheorems, FiniteSetTheorems, TLAPS

\* A queue without one of its elements.
LEMMA WithoutQueue ==
  ASSUME NEW S, NEW s \in Seq(S), NEW e \in ToSet(s), NoDup(s)
  PROVE  /\ Without(s, e) \in Seq(S)
         /\ NoDup(Without(s, e))
         /\ ToSet(Without(s, e)) = ToSet(s) \ {e}
<1> DEFINE k == IndexOf(s, e)
<1>1. k \in 1..Len(s) /\ s[k] = e
  BY DEF IndexOf, ToSet
<1>2. Without(s, e) = RemoveAt(s, k)
  BY DEF Without
<1> HIDE DEF k
<1> QED BY <1>1, <1>2, RemoveAtQueue

-----------------------------------------------------------------------------
(* The inductive invariant.                                                *)

\* TypeOK by groups of variables.
QueueTypes ==
  /\ reqQueueType \in [Req -> QueueType]
  /\ nvmeDmaReqQ \in Seq(Req)
  /\ nandReqQ \in [Die -> Seq(Req)]
  /\ rowAddrDepReqQ \in [Die -> Seq(Req)]
  /\ blockedReqCnt \in Int
  /\ notCompletedNandReqCnt \in Int
DepTypes ==
  /\ permittedProgPage \in [Block -> 0..PagesPerBlock]
  /\ blockedReadReqCnt \in [Block -> Int]
  /\ blockedEraseReqFlag \in [Block -> BOOLEAN]

\* The fields of an outstanding request fit its operation.
WellFormed(q) ==
  /\ q \in Request
  /\ q.reqCode \in NandCode => q.block \in Block
  /\ q.reqCode = "WRITE" => q.page < PagesPerBlock
  /\ q.reqCode # "ERASE" => q.buf \in Buf

RequestsOK == \A r \in Req : Outstanding(r) => WellFormed(reqPool[r])

\* A request is in the queue its reqQueueType names, once, and in no other;
\* a queue of a die holds requests of that die.
DmaQueueOK ==
  /\ NoDup(nvmeDmaReqQ)
  /\ \A r \in Req : r \in ToSet(nvmeDmaReqQ) <=> reqQueueType[r] = "NVME_DMA"
NandQueuesOK ==
  \A d \in Die :
    /\ NoDup(nandReqQ[d])
    /\ \A r \in Req : r \in ToSet(nandReqQ[d]) <=>
                        reqQueueType[r] = "NAND" /\ DieOfReq(reqPool[r]) = d
RowAddrQueuesOK ==
  \A d \in Die :
    /\ NoDup(rowAddrDepReqQ[d])
    /\ \A r \in Req : r \in ToSet(rowAddrDepReqQ[d]) <=>
                        reqQueueType[r] = "BLOCKED_BY_ROW_ADDR_DEP" /\ DieOfReq(reqPool[r]) = d
NandCodesOK ==
  \A r \in Req : reqQueueType[r] \in {"NAND", "BLOCKED_BY_ROW_ADDR_DEP"}
                   => reqPool[r].reqCode \in NandCode
\* The conjuncts about queues.
QueuesOK == DmaQueueOK /\ NandQueuesOK /\ RowAddrQueuesOK /\ NandCodesOK

\* What a loop has still to visit is in the queue it walks along.
WalksOK ==
  /\ NoDup(dmaWalk.todo)
  /\ \A r \in ToSet(dmaWalk.todo) : reqQueueType[r] = "NVME_DMA"
  /\ NoDup(rowAddrWalk)
  /\ \A r \in ToSet(rowAddrWalk) : reqQueueType[r] = "BLOCKED_BY_ROW_ADDR_DEP"

\* The blocking queue of a buffer holds outstanding requests for that buffer.
ChainsOK ==
  \A b \in Buf : /\ NoDup(blockingReq[b])
                 /\ \A r \in ToSet(blockingReq[b]) : Outstanding(r) /\ reqPool[r].buf = b

\* The slots in hand are in no queue; the one SyncReleaseEraseReq holds up has
\* its place in the blocking queue of its buffer.
InHandOK ==
  /\ sliceReq # NoReq => reqQueueType[sliceReq] = "SLICE"
  /\ syncReq # NoReq =>
       /\ reqQueueType[syncReq] = "NONE"
       /\ reqPool[syncReq].reqCode = "READ"
       /\ syncReq \in ToSet(blockingReq[reqPool[syncReq].buf])
  /\ \A r \in Req : /\ reqQueueType[r] = "SLICE" => r = sliceReq
                    /\ reqQueueType[r] = "NONE" => r = syncReq

\* The inductive invariant.
IInv == /\ TypeOK /\ RequestsOK /\ QueuesOK /\ WalksOK /\ ChainsOK
        /\ BufferExclusive /\ InHandOK

-----------------------------------------------------------------------------
(* The dependency table keeps to its types.                                *)

\* The dependency table keeps its type when a request passes.
LEMMA TablePassedTypes ==
  ASSUME DepTypes, NEW q, WellFormed(q), q.reqCode \in NandCode, PassRowAddrDep(q),
         NEW released \in BOOLEAN, UpdateTablePassed(q, released)
  PROVE  DepTypes'
<1>1. q.block \in Block /\ q.page \in 0..PagesPerBlock /\ permittedProgPage[q.block] \in 0..PagesPerBlock
  BY DEF WellFormed, Request, DepTypes
<1>2. CASE q.reqCode = "READ"
  BY <1>1, <1>2 DEF DepTypes, UpdateTablePassed
<1>3. CASE q.reqCode = "WRITE"
  <2>1. permittedProgPage[q.block] + 1 \in 0..PagesPerBlock
    BY <1>1, <1>3, PageAssumption DEF WellFormed, PassRowAddrDep
  <2> QED BY <1>1, <1>3, <2>1 DEF DepTypes, UpdateTablePassed
<1>4. CASE q.reqCode = "ERASE"
  BY <1>1, <1>4, PageAssumption DEF DepTypes, UpdateTablePassed
<1> QED BY <1>2, <1>3, <1>4 DEF NandCode

\* The dependency table keeps its type when a request is counted as blocked.
LEMMA TableBlockedTypes ==
  ASSUME DepTypes, NEW q, WellFormed(q), q.reqCode \in NandCode, UpdateTableBlocked(q)
  PROVE  DepTypes'
<1>1. q.block \in Block
  BY DEF WellFormed
<1> QED BY <1>1 DEF DepTypes, UpdateTableBlocked

-----------------------------------------------------------------------------
(* Entering a queue.                                                       *)

\* A request that was in no queue enters the one its operation calls for.
LEMMA UnblockedStep ==
  ASSUME QueueTypes, DepTypes, QueuesOK,
         NEW r \in Req, NEW q, WellFormed(q), ~InQueue(r),
         reqPool'[r] = q, \A s \in Req \ {r} : reqPool'[s] = reqPool[s],
         DispatchUnblocked(r, q)
  PROVE  /\ QueueTypes' /\ DepTypes' /\ QueuesOK'
         /\ InQueue(r)'
         /\ \A s \in Req \ {r} : reqQueueType'[s] = reqQueueType[s]
<1>0. /\ r \notin ToSet(nvmeDmaReqQ)
      /\ \A d \in Die : r \notin ToSet(nandReqQ[d]) /\ r \notin ToSet(rowAddrDepReqQ[d])
  BY DEF InQueue, QueuesOK, DmaQueueOK, NandQueuesOK, RowAddrQueuesOK
<1>1. CASE q.reqCode \in DmaCode /\ PutToNvmeDmaReqQ(r) /\ UNCHANGED depVars
  <2>1. /\ nvmeDmaReqQ' \in Seq(Req) /\ NoDup(nvmeDmaReqQ')
        /\ ToSet(nvmeDmaReqQ') = ToSet(nvmeDmaReqQ) \cup {r}
    BY <1>0, <1>1, AppendQueue DEF PutToNvmeDmaReqQ, QueueTypes, QueuesOK, DmaQueueOK
  <2>2. reqQueueType' = [reqQueueType EXCEPT ![r] = "NVME_DMA"]
    BY <1>1 DEF PutToNvmeDmaReqQ
  <2>3. QueueTypes' /\ DepTypes'
    BY <1>1, <2>1, <2>2 DEF PutToNvmeDmaReqQ, QueueTypes, DepTypes, depVars, QueueType
  <2>4. DmaQueueOK'
    BY <2>1, <2>2 DEF DmaQueueOK, QueuesOK, QueueTypes
  <2>5. NandQueuesOK' /\ RowAddrQueuesOK'
    BY <1>0, <1>1, <2>2 DEF NandQueuesOK, RowAddrQueuesOK, QueuesOK, QueueTypes, PutToNvmeDmaReqQ
  <2>6. NandCodesOK'
    BY <2>2 DEF NandCodesOK, QueuesOK, QueueTypes
  <2> QED BY <2>2, <2>3, <2>4, <2>5, <2>6 DEF QueuesOK, QueueTypes, InQueue
<1>2. CASE /\ q.reqCode \in NandCode /\ PassRowAddrDep(q)
           /\ UpdateTablePassed(q, FALSE) /\ PutToNandReqQ(r, DieOfReq(q))
  <2> DEFINE d == DieOfReq(q)
  <2>0. d \in Die
    BY <1>2, BlockAssumption DEF WellFormed, DieOfReq
  <2>1. /\ nandReqQ'[d] \in Seq(Req) /\ NoDup(nandReqQ'[d])
        /\ ToSet(nandReqQ'[d]) = ToSet(nandReqQ[d]) \cup {r}
    <3> DEFINE s == nandReqQ[d]
    <3>1. s \in Seq(Req) /\ nandReqQ'[d] = Append(s, r)
      BY <1>2, <2>0 DEF PutToNandReqQ, QueueTypes
    <3>2. NoDup(s) /\ r \notin ToSet(s)
      BY <1>0, <2>0 DEF QueuesOK, NandQueuesOK
    <3> HIDE DEF s
    <3>3. /\ Append(s, r) \in Seq(Req) /\ NoDup(Append(s, r))
          /\ ToSet(Append(s, r)) = ToSet(s) \cup {r}
      BY <3>1, <3>2, AppendQueue
    <3> QED BY <3>1, <3>3 DEF s
  <2>2. /\ reqQueueType' = [reqQueueType EXCEPT ![r] = "NAND"]
        /\ \A e \in Die \ {d} : nandReqQ'[e] = nandReqQ[e]
    BY <1>2 DEF PutToNandReqQ, QueueTypes
  <2>3. QueueTypes' /\ DepTypes'
    <3>1. DepTypes'
      BY <1>2, TablePassedTypes
    <3>2. QueueTypes'
      BY <1>2, <2>0, <2>1, <2>2 DEF PutToNandReqQ, QueueTypes, QueueType
    <3> QED BY <3>1, <3>2
  <2>4. DmaQueueOK' /\ RowAddrQueuesOK'
    BY <1>0, <1>2, <2>2 DEF DmaQueueOK, RowAddrQueuesOK, QueuesOK, QueueTypes, PutToNandReqQ
  <2>5. NandQueuesOK'
    <3> SUFFICES ASSUME NEW e \in Die
                 PROVE  /\ NoDup(nandReqQ'[e])
                        /\ \A s \in Req : s \in ToSet(nandReqQ'[e]) <=>
                             reqQueueType'[s] = "NAND" /\ DieOfReq(reqPool'[s]) = e
      BY DEF NandQueuesOK, DieOfReq
    <3>1. CASE e = d
      BY <1>0, <2>1, <2>2, <3>1 DEF NandQueuesOK, QueuesOK, QueueTypes
    <3>2. CASE e # d
      BY <1>0, <2>2, <3>2 DEF NandQueuesOK, QueuesOK, QueueTypes
    <3> QED BY <3>1, <3>2
  <2>6. NandCodesOK'
    BY <1>2, <2>2 DEF NandCodesOK, QueuesOK, QueueTypes
  <2> QED BY <2>2, <2>3, <2>4, <2>5, <2>6 DEF QueuesOK, QueueTypes, InQueue
<1>3. CASE /\ q.reqCode \in NandCode /\ ~PassRowAddrDep(q)
           /\ UpdateTableBlocked(q) /\ PutToBlockedByRowAddrDepReqQ(r, DieOfReq(q))
  <2> DEFINE d == DieOfReq(q)
  <2>0. d \in Die
    BY <1>3, BlockAssumption DEF WellFormed, DieOfReq
  <2>1. /\ rowAddrDepReqQ'[d] \in Seq(Req) /\ NoDup(rowAddrDepReqQ'[d])
        /\ ToSet(rowAddrDepReqQ'[d]) = ToSet(rowAddrDepReqQ[d]) \cup {r}
    <3> DEFINE s == rowAddrDepReqQ[d]
    <3>1. s \in Seq(Req) /\ rowAddrDepReqQ'[d] = Append(s, r)
      BY <1>3, <2>0 DEF PutToBlockedByRowAddrDepReqQ, QueueTypes
    <3>2. NoDup(s) /\ r \notin ToSet(s)
      BY <1>0, <2>0 DEF QueuesOK, RowAddrQueuesOK
    <3> HIDE DEF s
    <3>3. /\ Append(s, r) \in Seq(Req) /\ NoDup(Append(s, r))
          /\ ToSet(Append(s, r)) = ToSet(s) \cup {r}
      BY <3>1, <3>2, AppendQueue
    <3> QED BY <3>1, <3>3 DEF s
  <2>2. /\ reqQueueType' = [reqQueueType EXCEPT ![r] = "BLOCKED_BY_ROW_ADDR_DEP"]
        /\ \A e \in Die \ {d} : rowAddrDepReqQ'[e] = rowAddrDepReqQ[e]
    BY <1>3 DEF PutToBlockedByRowAddrDepReqQ, QueueTypes
  <2>3. QueueTypes' /\ DepTypes'
    <3>1. DepTypes'
      BY <1>3, TableBlockedTypes
    <3>2. QueueTypes'
      BY <1>3, <2>0, <2>1, <2>2 DEF PutToBlockedByRowAddrDepReqQ, QueueTypes, QueueType
    <3> QED BY <3>1, <3>2
  <2>4. DmaQueueOK' /\ NandQueuesOK'
    BY <1>0, <1>3, <2>2
    DEF DmaQueueOK, NandQueuesOK, QueuesOK, QueueTypes, PutToBlockedByRowAddrDepReqQ
  <2>5. RowAddrQueuesOK'
    <3> SUFFICES ASSUME NEW e \in Die
                 PROVE  /\ NoDup(rowAddrDepReqQ'[e])
                        /\ \A s \in Req : s \in ToSet(rowAddrDepReqQ'[e]) <=>
                             reqQueueType'[s] = "BLOCKED_BY_ROW_ADDR_DEP" /\ DieOfReq(reqPool'[s]) = e
      BY DEF RowAddrQueuesOK, DieOfReq
    <3>1. CASE e = d
      BY <1>0, <2>1, <2>2, <3>1 DEF RowAddrQueuesOK, QueuesOK, QueueTypes
    <3>2. CASE e # d
      BY <1>0, <2>2, <3>2 DEF RowAddrQueuesOK, QueuesOK, QueueTypes
    <3> QED BY <3>1, <3>2
  <2>6. NandCodesOK'
    BY <1>3, <2>2 DEF NandCodesOK, QueuesOK, QueueTypes
  <2> QED BY <2>2, <2>3, <2>4, <2>5, <2>6 DEF QueuesOK, QueueTypes, InQueue
<1> QED BY <1>1, <1>2, <1>3 DEF DispatchUnblocked

\* A request waits for its data buffer.
LEMMA BufBlockedStep ==
  ASSUME QueueTypes, DepTypes, QueuesOK,
         NEW r \in Req, NEW q, WellFormed(q), ~InQueue(r),
         reqPool'[r] = q, \A s \in Req \ {r} : reqPool'[s] = reqPool[s],
         DispatchBufBlocked(r, q)
  PROVE  /\ QueueTypes' /\ DepTypes' /\ QueuesOK'
         /\ reqQueueType'[r] = "BLOCKED_BY_BUF_DEP"
         /\ \A s \in Req \ {r} : reqQueueType'[s] = reqQueueType[s]
<1>1. /\ reqQueueType' = [reqQueueType EXCEPT ![r] = "BLOCKED_BY_BUF_DEP"]
      /\ blockedReqCnt' = blockedReqCnt + 1
      /\ UNCHANGED <<nvmeDmaReqQ, nandReqQ, rowAddrDepReqQ, notCompletedNandReqCnt>>
  BY DEF DispatchBufBlocked, PutToBlockedByBufDepReqQ
<1>2. QueueTypes'
  BY <1>1 DEF QueueTypes, QueueType
<1>3. DepTypes'
  BY TableBlockedTypes DEF DispatchBufBlocked, depVars, DepTypes
<1>4. QueuesOK'
  BY <1>1 DEF QueueTypes, QueuesOK, DmaQueueOK, NandQueuesOK, RowAddrQueuesOK, NandCodesOK, InQueue
<1> QED BY <1>1, <1>2, <1>3, <1>4 DEF QueueTypes

-----------------------------------------------------------------------------
(* Leaving a queue.                                                        *)

\* The queues of the dies stay as they are but for r, which left them: target
\* neither was nor is in one of them.
LEMMA NandQueuesKept ==
  ASSUME NEW r \in Req, NEW target \in Req \cup {NoReq}, NEW nandQ,
         \A d \in Die :
           /\ NoDup(nandQ[d])
           /\ \A s \in Req : s \in ToSet(nandQ[d]) <=>
                /\ reqQueueType[s] = "NAND" /\ DieOfReq(reqPool[s]) = d /\ s # r,
         \A s \in Req \ {r} : reqPool'[s] = reqPool[s],
         \A s \in Req \ {r, target} : reqQueueType'[s] = reqQueueType[s],
         reqQueueType'[r] = "FREE",
         target \in Req => reqQueueType[target] # "NAND" /\ reqQueueType'[target] # "NAND",
         nandReqQ' = nandQ
  PROVE  NandQueuesOK'
<1> SUFFICES ASSUME NEW d \in Die, NEW s \in Req
             PROVE  /\ NoDup(nandReqQ'[d])
                    /\ s \in ToSet(nandReqQ'[d]) <=>
                         reqQueueType'[s] = "NAND" /\ DieOfReq(reqPool'[s]) = d
  BY DEF NandQueuesOK, DieOfReq
<1>1. /\ NoDup(nandQ[d])
      /\ s \in ToSet(nandQ[d]) <=>
           reqQueueType[s] = "NAND" /\ DieOfReq(reqPool[s]) = d /\ s # r
  OBVIOUS
<1>2. CASE s = r \/ s = target
  BY <1>1, <1>2
<1>3. CASE ~(s = r \/ s = target)
  <2>1. reqPool'[s] = reqPool[s] /\ reqQueueType'[s] = reqQueueType[s]
    BY <1>3
  <2> QED BY <1>1, <1>3, <2>1
<1> QED BY <1>2, <1>3

\* Likewise, and target joins the queue of its die.
LEMMA NandQueuesGrown ==
  ASSUME NEW r \in Req, NEW target \in Req \ {r}, NEW d \in Die, NEW nandQ \in [Die -> Seq(Req)],
         \A e \in Die :
           /\ NoDup(nandQ[e])
           /\ \A s \in Req : s \in ToSet(nandQ[e]) <=>
                /\ reqQueueType[s] = "NAND" /\ DieOfReq(reqPool[s]) = e /\ s # r,
         \A s \in Req \ {r} : reqPool'[s] = reqPool[s],
         \A s \in Req \ {r, target} : reqQueueType'[s] = reqQueueType[s],
         reqQueueType'[r] = "FREE", reqQueueType'[target] = "NAND",
         reqQueueType[target] # "NAND", DieOfReq(reqPool[target]) = d,
         nandReqQ' = [nandQ EXCEPT ![d] = Append(@, target)],
         NoDup(nandReqQ'[d]), ToSet(nandReqQ'[d]) = ToSet(nandQ[d]) \cup {target}
  PROVE  NandQueuesOK'
<1> SUFFICES ASSUME NEW e \in Die, NEW s \in Req
             PROVE  /\ NoDup(nandReqQ'[e])
                    /\ s \in ToSet(nandReqQ'[e]) <=>
                         reqQueueType'[s] = "NAND" /\ DieOfReq(reqPool'[s]) = e
  BY DEF NandQueuesOK, DieOfReq
<1>1. /\ NoDup(nandQ[e])
      /\ s \in ToSet(nandQ[e]) <=>
           reqQueueType[s] = "NAND" /\ DieOfReq(reqPool[s]) = e /\ s # r
  OBVIOUS
<1>2. IF e = d THEN NoDup(nandReqQ'[e]) /\ ToSet(nandReqQ'[e]) = ToSet(nandQ[e]) \cup {target}
              ELSE nandReqQ'[e] = nandQ[e]
  OBVIOUS
<1>3. CASE s = r
  BY <1>1, <1>2, <1>3
<1>4. CASE s = target
  <2>1. reqPool'[s] = reqPool[s]
    BY <1>4
  <2>2. DieOfReq(reqPool'[s]) = d /\ reqQueueType'[s] = "NAND"
    BY <1>4, <2>1
  <2> QED BY <1>1, <1>2, <1>4, <2>2
<1>5. CASE ~(s = r \/ s = target)
  <2>1. reqPool'[s] = reqPool[s] /\ reqQueueType'[s] = reqQueueType[s]
    BY <1>5
  <2> QED BY <1>1, <1>2, <1>5, <2>1
<1> QED BY <1>3, <1>4, <1>5

\* The queues of requests that wait for a row address stay as they are: r and
\* target are in none of them.
LEMMA RowAddrQueuesKept ==
  ASSUME RowAddrQueuesOK, NEW r \in Req, NEW target \in Req \cup {NoReq},
         \A s \in Req \ {r} : reqPool'[s] = reqPool[s],
         \A s \in Req \ {r, target} : reqQueueType'[s] = reqQueueType[s],
         reqQueueType'[r] = "FREE",
         target \in Req => reqQueueType'[target] # "BLOCKED_BY_ROW_ADDR_DEP",
         \A d \in Die : r \notin ToSet(rowAddrDepReqQ[d]) /\ target \notin ToSet(rowAddrDepReqQ[d]),
         UNCHANGED rowAddrDepReqQ
  PROVE  RowAddrQueuesOK'
<1> SUFFICES ASSUME NEW d \in Die, NEW s \in Req
             PROVE  /\ NoDup(rowAddrDepReqQ[d])
                    /\ s \in ToSet(rowAddrDepReqQ[d]) <=>
                         /\ reqQueueType'[s] = "BLOCKED_BY_ROW_ADDR_DEP"
                         /\ DieOfReq(reqPool'[s]) = d
  BY DEF RowAddrQueuesOK, DieOfReq
<1>1. /\ NoDup(rowAddrDepReqQ[d])
      /\ s \in ToSet(rowAddrDepReqQ[d]) <=>
           reqQueueType[s] = "BLOCKED_BY_ROW_ADDR_DEP" /\ DieOfReq(reqPool[s]) = d
  BY DEF RowAddrQueuesOK
<1>2. CASE s = r \/ s = target
  BY <1>1, <1>2
<1>3. CASE ~(s = r \/ s = target)
  <2>1. reqPool'[s] = reqPool[s] /\ reqQueueType'[s] = reqQueueType[s]
    BY <1>3
  <2> QED BY <1>1, <2>1
<1> QED BY <1>2, <1>3

\* A request that has left its queue goes to the pool, and the next request
\* for its buffer, if it was waiting, enters a queue in its stead.
LEMMA ReleaseStep ==
  ASSUME TypeOK, RequestsOK, QueuesOK, ChainsOK, BufferExclusive,
         NEW r \in Req, reqQueueType[r] \in {"NVME_DMA", "NAND"},
         NEW dmaQ \in Seq(Req), NoDup(dmaQ),
         \A s \in Req : s \in ToSet(dmaQ) <=> reqQueueType[s] = "NVME_DMA" /\ s # r,
         NEW nandQ \in [Die -> Seq(Req)],
         \A d \in Die :
           /\ NoDup(nandQ[d])
           /\ \A s \in Req : s \in ToSet(nandQ[d]) <=>
                /\ reqQueueType[s] = "NAND" /\ DieOfReq(reqPool[s]) = d
                /\ s # r,
         NEW nandCnt \in Int,
         ReleaseBlockedByBufDepReq(r, dmaQ, nandQ, nandCnt)
  PROVE  /\ reqPool' \in [Req -> Request] /\ blockingReq' \in [Buf -> Seq(Req)]
         /\ QueueTypes' /\ DepTypes'
         /\ RequestsOK' /\ QueuesOK' /\ ChainsOK' /\ BufferExclusive'
         /\ reqQueueType'[r] = "FREE"
         /\ \A s \in Req \ {r} :
              /\ reqPool'[s] = reqPool[s]
              /\ \/ reqQueueType'[s] = reqQueueType[s]
                 \/ reqQueueType[s] = "BLOCKED_BY_BUF_DEP" /\ InQueue(s)'
         /\ \A s \in Req \ {r}, b \in Buf :
              s \in ToSet(blockingReq[b]) => s \in ToSet(blockingReq'[b])
<1> DEFINE b == reqPool[r].buf
           target == NextBlockingReq(r)
           q == reqPool[target]
           wakes == target # NoReq /\ reqQueueType[target] = "BLOCKED_BY_BUF_DEP"
<1>1. /\ b \in Buf \cup {NoBuf} /\ NoRequest \in Request
      /\ QueueTypes /\ DepTypes /\ InQueue(r) /\ Outstanding(r)
  <2>1. NoRequest \in Request
    BY PageAssumption DEF Request, NoRequest, DmaCode
  <2>2. b \in Buf \cup {NoBuf}
    BY DEF TypeOK, Request
  <2>3. QueueTypes /\ DepTypes
    BY DEF TypeOK, QueueTypes, DepTypes
  <2> QED BY <2>1, <2>2, <2>3 DEF InQueue, Outstanding
<1>2. b # NoBuf => /\ b \in Buf /\ blockingReq[b] \in Seq(Req) /\ blockingReq[b] # <<>>
                   /\ Head(blockingReq[b]) = r /\ NoDup(blockingReq[b])
  BY <1>1 DEF BufferExclusive, TypeOK, ChainsOK
<1>3. b # NoBuf => /\ Tail(blockingReq[b]) \in Seq(Req) /\ NoDup(Tail(blockingReq[b]))
                   /\ ToSet(Tail(blockingReq[b])) = ToSet(blockingReq[b]) \ {r}
  <2> DEFINE s == blockingReq[b]
  <2> HIDE DEF s
  <2>1. s \in Seq(Req) /\ s # <<>> /\ NoDup(s) =>
          /\ Tail(s) \in Seq(Req) /\ NoDup(Tail(s))
          /\ ToSet(Tail(s)) = ToSet(s) \ {Head(s)}
    BY TailQueue
  <2> QED BY <1>2, <2>1 DEF s
<1>4. target # NoReq =>
        /\ b # NoBuf /\ target \in Req /\ target # r
        /\ target \in ToSet(blockingReq[b])
        /\ Tail(blockingReq[b]) # <<>> /\ Head(Tail(blockingReq[b])) = target
        /\ Outstanding(target) /\ q.buf = b /\ WellFormed(q)
  <2> SUFFICES ASSUME target # NoReq
               PROVE  /\ b # NoBuf /\ target \in Req /\ target # r
                      /\ target \in ToSet(blockingReq[b])
                      /\ Tail(blockingReq[b]) # <<>> /\ Head(Tail(blockingReq[b])) = target
                      /\ Outstanding(target) /\ q.buf = b /\ WellFormed(q)
    OBVIOUS
  <2>1. b # NoBuf /\ Len(blockingReq[b]) > 1 /\ target = blockingReq[b][2]
    BY DEF NextBlockingReq
  <2>2. /\ target \in Req /\ target \in ToSet(blockingReq[b])
        /\ Tail(blockingReq[b]) # <<>> /\ Head(Tail(blockingReq[b])) = target
    <3> DEFINE s == blockingReq[b]
    <3>1. s \in Seq(Req) /\ Len(s) > 1 /\ target = s[2]
      BY <1>2, <2>1
    <3> HIDE DEF s, target
    <3>2. target \in Req /\ target \in ToSet(s)
      BY <3>1 DEF ToSet
    <3>3. Tail(s) # <<>> /\ Head(Tail(s)) = target
      <4> DEFINE t == Tail(s)
      <4>1. t \in Seq(Req) /\ Len(t) = Len(s) - 1 /\ t[1] = s[2]
        BY <3>1, HeadTailProperties
      <4> HIDE DEF t
      <4>2. t # <<>> /\ Head(t) = s[2]
        BY <3>1, <4>1
      <4> QED BY <3>1, <4>2 DEF t
    <3> QED BY <3>2, <3>3 DEF s
  <2>3. target # r
    BY <1>2, <2>1 DEF NoDup
  <2>4. Outstanding(target) /\ q.buf = b
    BY <1>2, <2>1, <2>2 DEF ChainsOK
  <2> QED BY <2>1, <2>2, <2>3, <2>4 DEF RequestsOK
<1>5. /\ reqPool' = [reqPool EXCEPT ![r] = NoRequest]
      /\ blockingReq' = IF b = NoBuf THEN blockingReq ELSE [blockingReq EXCEPT ![b] = Tail(@)]
      /\ \/ /\ ~wakes
            /\ reqQueueType' = [reqQueueType EXCEPT ![r] = "FREE"]
            /\ nvmeDmaReqQ' = dmaQ
            /\ nandReqQ' = nandQ
            /\ notCompletedNandReqCnt' = nandCnt
            /\ UNCHANGED <<rowAddrDepReqQ, blockedReqCnt, depVars>>
         \/ /\ wakes
            /\ q.reqCode \in DmaCode
            /\ reqQueueType' = [reqQueueType EXCEPT ![r] = "FREE", ![target] = "NVME_DMA"]
            /\ nvmeDmaReqQ' = Append(dmaQ, target)
            /\ nandReqQ' = nandQ
            /\ notCompletedNandReqCnt' = nandCnt
            /\ blockedReqCnt' = blockedReqCnt - 1
            /\ UNCHANGED <<rowAddrDepReqQ, depVars>>
         \/ /\ wakes
            /\ q.reqCode \in NandCode
            /\ PassRowAddrDep(q)
            /\ UpdateTablePassed(q, TRUE)
            /\ reqQueueType' = [reqQueueType EXCEPT ![r] = "FREE", ![target] = "NAND"]
            /\ nandReqQ' = [nandQ EXCEPT ![DieOfReq(q)] = Append(@, target)]
            /\ notCompletedNandReqCnt' = nandCnt + 1
            /\ blockedReqCnt' = blockedReqCnt - 1
            /\ nvmeDmaReqQ' = dmaQ
            /\ UNCHANGED rowAddrDepReqQ
         \/ /\ wakes
            /\ q.reqCode \in NandCode
            /\ ~PassRowAddrDep(q)
            /\ reqQueueType' =
                 [reqQueueType EXCEPT ![r] = "FREE", ![target] = "BLOCKED_BY_ROW_ADDR_DEP"]
            /\ rowAddrDepReqQ' =
                 [rowAddrDepReqQ EXCEPT ![DieOfReq(q)] = Append(@, target)]
            /\ nvmeDmaReqQ' = dmaQ
            /\ nandReqQ' = nandQ
            /\ notCompletedNandReqCnt' = nandCnt
            /\ UNCHANGED <<blockedReqCnt, depVars>>
  BY DEF ReleaseBlockedByBufDepReq
<1>6. /\ reqPool' \in [Req -> Request]
      /\ reqPool'[r] = NoRequest
      /\ \A s \in Req \ {r} : reqPool'[s] = reqPool[s]
  BY <1>1, <1>5 DEF TypeOK
<1> HIDE DEF target
<1>7. /\ reqQueueType' \in [Req -> QueueType]
      /\ reqQueueType'[r] = "FREE"
      /\ \A s \in Req \ {r} :
           IF s = target /\ wakes THEN InQueue(s)' ELSE reqQueueType'[s] = reqQueueType[s]
  <2>1. CASE ~wakes
    BY <1>1, <1>5, <2>1 DEF QueueTypes, QueueType
  <2>2. CASE wakes
    <3>1. PICK t \in {"NVME_DMA", "NAND", "BLOCKED_BY_ROW_ADDR_DEP"} :
            reqQueueType' = [reqQueueType EXCEPT ![r] = "FREE", ![target] = t]
      BY <1>5, <2>2
    <3> QED BY <1>1, <1>4, <2>2, <3>1 DEF QueueTypes, QueueType, InQueue
  <2> QED BY <2>1, <2>2
<1>8. /\ blockingReq' \in [Buf -> Seq(Req)]
      /\ \A c \in Buf : /\ NoDup(blockingReq'[c])
                        /\ ToSet(blockingReq'[c]) = ToSet(blockingReq[c]) \ {r}
                        /\ c # b => blockingReq'[c] = blockingReq[c]
      /\ b # NoBuf => blockingReq'[b] = Tail(blockingReq[b])
  <2>1. \A c \in Buf : c # b => r \notin ToSet(blockingReq[c])
    BY DEF ChainsOK
  <2>2. CASE b = NoBuf
    BY <1>5, <2>1, <2>2, BufAssumption DEF TypeOK, ChainsOK
  <2>3. CASE b # NoBuf
    <3>1. /\ blockingReq' \in [Buf -> Seq(Req)]
          /\ blockingReq'[b] = Tail(blockingReq[b])
          /\ \A c \in Buf : c # b => blockingReq'[c] = blockingReq[c]
      BY <1>2, <1>3, <1>5, <2>3 DEF TypeOK
    <3>2. ASSUME NEW c \in Buf
          PROVE  NoDup(blockingReq'[c]) /\ ToSet(blockingReq'[c]) = ToSet(blockingReq[c]) \ {r}
      <4>1. CASE c = b
        BY <1>3, <2>3, <3>1, <4>1
      <4>2. CASE c # b
        BY <2>1, <3>1, <4>2 DEF ChainsOK
      <4> QED BY <4>1, <4>2
    <3> QED BY <3>1, <3>2
  <2> QED BY <2>2, <2>3
<1>9. RequestsOK'
  <2>1. ASSUME NEW s \in Req, Outstanding(s)' PROVE WellFormed(reqPool[s]) /\ s # r
    <3>1. s # r
      BY <1>7, <2>1 DEF Outstanding
    <3>2. Outstanding(s)
      BY <1>7, <2>1, <3>1 DEF Outstanding
    <3> QED BY <3>1, <3>2 DEF RequestsOK
  <2> QED BY <1>6, <2>1 DEF RequestsOK, WellFormed
<1>10. ChainsOK'
  <2>1. \A s \in Req \ {r} : Outstanding(s) => Outstanding(s)'
    BY <1>7 DEF Outstanding, InQueue
  <2>2. \A c \in Buf : \A s \in ToSet(blockingReq[c]) : s \in Req
    BY DEF TypeOK, ToSet
  <2> SUFFICES ASSUME NEW c \in Buf
               PROVE  /\ NoDup(blockingReq'[c])
                      /\ \A s \in ToSet(blockingReq'[c]) : Outstanding(s)' /\ reqPool'[s].buf = c
    BY DEF ChainsOK, Outstanding
  <2>3. ASSUME NEW s \in ToSet(blockingReq'[c])
        PROVE  Outstanding(s)' /\ reqPool'[s].buf = c
    <3>1. s \in Req \ {r} /\ Outstanding(s) /\ reqPool[s].buf = c
      BY <1>8, <2>2 DEF ChainsOK
    <3> QED BY <1>6, <2>1, <3>1
  <2> QED BY <1>8, <2>3
<1>11. BufferExclusive'
  <2> SUFFICES ASSUME NEW s \in Req, InQueue(s)', reqPool'[s].buf # NoBuf
               PROVE  /\ blockingReq'[reqPool'[s].buf] # <<>>
                      /\ Head(blockingReq'[reqPool'[s].buf]) = s
    BY DEF BufferExclusive
  <2>1. s # r
    BY <1>7 DEF InQueue
  <2>2. CASE s = target /\ wakes
    <3>1. b # NoBuf /\ Tail(blockingReq[b]) # <<>> /\ Head(Tail(blockingReq[b])) = s
      BY <1>4, <2>2
    <3>2. reqPool'[s].buf = b
      BY <1>4, <1>6, <2>1, <2>2
    <3>3. blockingReq'[b] = Tail(blockingReq[b])
      BY <1>8, <3>1
    <3> QED BY <3>1, <3>2, <3>3
  <2>3. CASE ~(s = target /\ wakes)
    <3>1. InQueue(s) /\ reqPool'[s] = reqPool[s]
      BY <1>6, <1>7, <2>1, <2>3 DEF InQueue
    <3>2. blockingReq[reqPool[s].buf] # <<>> /\ Head(blockingReq[reqPool[s].buf]) = s
      BY <3>1 DEF BufferExclusive
    <3>3. reqPool[s].buf # b
      BY <1>2, <2>1, <3>1, <3>2
    <3>4. reqPool[s].buf \in Buf
      BY <3>1 DEF TypeOK, Request
    <3> QED BY <1>8, <3>1, <3>2, <3>3, <3>4
  <2> QED BY <2>2, <2>3
<1>12. \A d \in Die : r \notin ToSet(rowAddrDepReqQ[d])
  BY DEF QueuesOK, RowAddrQueuesOK
<1>13. wakes => \A d \in Die : target \notin ToSet(rowAddrDepReqQ[d])
  BY <1>4 DEF QueuesOK, RowAddrQueuesOK
<1>14. ASSUME ~wakes
       PROVE  QueueTypes' /\ DepTypes' /\ QueuesOK'
  <2>1. /\ \A s \in Req \ {r} : reqQueueType'[s] = reqQueueType[s]
        /\ nvmeDmaReqQ' = dmaQ /\ nandReqQ' = nandQ /\ notCompletedNandReqCnt' = nandCnt
        /\ UNCHANGED <<rowAddrDepReqQ, blockedReqCnt, depVars>>
    BY <1>5, <1>7, <1>14
  <2>2. QueueTypes' /\ DepTypes'
    BY <1>1, <1>7, <2>1 DEF QueueTypes, DepTypes, depVars
  <2>3. DmaQueueOK'
    BY <1>7, <2>1 DEF DmaQueueOK
  <2>4. NandQueuesOK'
    <3>1. NoReq \notin Req
      BY ReqAssumption
    <3> QED BY <1>6, <1>7, <2>1, <3>1, NandQueuesKept
  <2>5. RowAddrQueuesOK'
    BY <1>12, <1>6, <1>7, <2>1 DEF QueuesOK, RowAddrQueuesOK, DieOfReq
  <2>6. NandCodesOK'
    BY <1>6, <1>7, <2>1 DEF QueuesOK, NandCodesOK
  <2> QED BY <2>2, <2>3, <2>4, <2>5, <2>6 DEF QueuesOK
<1>15. ASSUME wakes /\ q.reqCode \in DmaCode
       PROVE  QueueTypes' /\ DepTypes' /\ QueuesOK'
  <2>0. target \in Req /\ target # r /\ target \notin ToSet(dmaQ)
    BY <1>4, <1>15
  <2>1. /\ reqQueueType' = [reqQueueType EXCEPT ![r] = "FREE", ![target] = "NVME_DMA"]
        /\ nvmeDmaReqQ' = Append(dmaQ, target)
        /\ nandReqQ' = nandQ /\ notCompletedNandReqCnt' = nandCnt
        /\ blockedReqCnt' = blockedReqCnt - 1
        /\ UNCHANGED <<rowAddrDepReqQ, depVars>>
    BY <1>5, <1>15 DEF DmaCode, NandCode
  <2>2. /\ nvmeDmaReqQ' \in Seq(Req) /\ NoDup(nvmeDmaReqQ')
        /\ ToSet(nvmeDmaReqQ') = ToSet(dmaQ) \cup {target}
    BY <2>0, <2>1, AppendQueue
  <2>3. QueueTypes' /\ DepTypes'
    <3>1. QueueTypes'
      <4>1. /\ nandReqQ' = nandQ /\ notCompletedNandReqCnt' = nandCnt
            /\ blockedReqCnt' = blockedReqCnt - 1 /\ rowAddrDepReqQ' = rowAddrDepReqQ
        BY <2>1
      <4> QED BY <1>1, <1>7, <2>2, <4>1 DEF QueueTypes
    <3>2. DepTypes'
      BY <1>1, <2>1 DEF DepTypes, depVars
    <3> QED BY <3>1, <3>2
  <2>4. DmaQueueOK'
    BY <1>1, <2>0, <2>1, <2>2 DEF DmaQueueOK, QueueTypes
  <2>5. NandQueuesOK'
    <3>1. reqQueueType'[target] = "NVME_DMA" /\ reqQueueType[target] = "BLOCKED_BY_BUF_DEP"
      BY <1>1, <1>15, <2>0, <2>1 DEF QueueTypes
    <3>2. \A s \in Req \ {r, target} : reqQueueType'[s] = reqQueueType[s]
      BY <1>7
    <3>3. nandReqQ' = nandQ
      BY <2>1
    <3> QED BY <1>6, <1>7, <2>0, <3>1, <3>2, <3>3, NandQueuesKept
  <2>6. RowAddrQueuesOK'
    <3>1. reqQueueType'[target] = "NVME_DMA" /\ rowAddrDepReqQ' = rowAddrDepReqQ
      BY <1>1, <2>0, <2>1 DEF QueueTypes, depVars
    <3>2. \A s \in Req \ {r, target} : reqQueueType'[s] = reqQueueType[s]
      BY <1>7
    <3>3. RowAddrQueuesOK
      BY DEF QueuesOK
    <3> QED BY <1>12, <1>13, <1>6, <1>7, <1>15, <2>0, <3>1, <3>2, <3>3, RowAddrQueuesKept
  <2>7. NandCodesOK'
    BY <1>1, <1>6, <1>15, <2>0, <2>1 DEF QueuesOK, NandCodesOK, QueueTypes
  <2> QED BY <2>3, <2>4, <2>5, <2>6, <2>7 DEF QueuesOK
<1>16. ASSUME wakes /\ q.reqCode \in NandCode /\ PassRowAddrDep(q)
       PROVE  QueueTypes' /\ DepTypes' /\ QueuesOK'
  <2> DEFINE d == DieOfReq(q)
  <2>0. /\ target \in Req /\ target # r /\ WellFormed(q) /\ d \in Die
        /\ target \notin ToSet(nandQ[d])
    BY <1>4, <1>16, BlockAssumption DEF WellFormed, DieOfReq
  <2>1. /\ reqQueueType' = [reqQueueType EXCEPT ![r] = "FREE", ![target] = "NAND"]
        /\ nandReqQ' = [nandQ EXCEPT ![d] = Append(@, target)]
        /\ notCompletedNandReqCnt' = nandCnt + 1
        /\ blockedReqCnt' = blockedReqCnt - 1
        /\ nvmeDmaReqQ' = dmaQ
        /\ UNCHANGED rowAddrDepReqQ
        /\ UpdateTablePassed(q, TRUE)
    BY <1>5, <1>16 DEF DmaCode, NandCode
  <2> HIDE DEF d, q
  <2>2. /\ nandReqQ'[d] \in Seq(Req) /\ NoDup(nandReqQ'[d])
        /\ ToSet(nandReqQ'[d]) = ToSet(nandQ[d]) \cup {target}
    <3> DEFINE s == nandQ[d]
    <3>1. s \in Seq(Req) /\ NoDup(s) /\ target \notin ToSet(s) /\ nandReqQ'[d] = Append(s, target)
      BY <2>0, <2>1
    <3> HIDE DEF s
    <3>2. /\ Append(s, target) \in Seq(Req) /\ NoDup(Append(s, target))
          /\ ToSet(Append(s, target)) = ToSet(s) \cup {target}
      BY <2>0, <3>1, AppendQueue
    <3> QED BY <3>1, <3>2 DEF s
  <2>3. QueueTypes' /\ DepTypes'
    <3>1. DepTypes'
      BY <1>1, <1>16, <2>0, <2>1, TablePassedTypes DEF q
    <3>2. nandReqQ' \in [Die -> Seq(Req)]
      BY <2>0, <2>1, <2>2
    <3>3. QueueTypes'
      <4>1. nvmeDmaReqQ' \in Seq(Req) /\ rowAddrDepReqQ' \in [Die -> Seq(Req)]
        BY <1>1, <2>1 DEF QueueTypes
      <4>2. blockedReqCnt' \in Int /\ notCompletedNandReqCnt' \in Int
        BY <1>1, <2>1 DEF QueueTypes
      <4>3. reqQueueType' \in [Req -> QueueType]
        BY <1>7
      <4> QED BY <3>2, <4>1, <4>2, <4>3 DEF QueueTypes
    <3> QED BY <3>1, <3>3
  <2>4. DmaQueueOK'
    BY <1>1, <1>16, <2>0, <2>1 DEF DmaQueueOK, QueueTypes
  <2>5. NandQueuesOK'
    <3>1. reqQueueType'[target] = "NAND" /\ reqQueueType[target] = "BLOCKED_BY_BUF_DEP"
      BY <1>1, <1>16, <2>0, <2>1 DEF QueueTypes
    <3>2. \A s \in Req \ {r, target} : reqQueueType'[s] = reqQueueType[s]
      BY <1>7
    <3>3. nandReqQ' = [nandQ EXCEPT ![d] = Append(@, target)]
      BY <2>1
    <3>4. DieOfReq(reqPool[target]) = d
      BY DEF d, q
    <3> QED BY <1>6, <1>7, <2>0, <2>2, <3>1, <3>2, <3>3, <3>4, NandQueuesGrown
  <2>6. RowAddrQueuesOK'
    <3>1. reqQueueType'[target] = "NAND" /\ rowAddrDepReqQ' = rowAddrDepReqQ
      BY <1>1, <2>0, <2>1 DEF QueueTypes
    <3>2. \A s \in Req \ {r, target} : reqQueueType'[s] = reqQueueType[s]
      BY <1>7
    <3>3. RowAddrQueuesOK
      BY DEF QueuesOK
    <3> QED BY <1>12, <1>13, <1>6, <1>7, <1>16, <2>0, <3>1, <3>2, <3>3, RowAddrQueuesKept
  <2>7. NandCodesOK'
    BY <1>1, <1>6, <1>16, <2>0, <2>1 DEF QueuesOK, NandCodesOK, QueueTypes, q
  <2> QED BY <2>3, <2>4, <2>5, <2>6, <2>7 DEF QueuesOK
<1>17. ASSUME wakes /\ q.reqCode \in NandCode /\ ~PassRowAddrDep(q)
       PROVE  QueueTypes' /\ DepTypes' /\ QueuesOK'
  <2> DEFINE d == DieOfReq(q)
  <2>0. /\ target \in Req /\ target # r /\ d \in Die
        /\ target \notin ToSet(rowAddrDepReqQ[d])
    BY <1>4, <1>17, BlockAssumption DEF WellFormed, DieOfReq, QueuesOK, RowAddrQueuesOK
  <2>1. /\ reqQueueType' =
             [reqQueueType EXCEPT ![r] = "FREE", ![target] = "BLOCKED_BY_ROW_ADDR_DEP"]
        /\ rowAddrDepReqQ' = [rowAddrDepReqQ EXCEPT ![d] = Append(@, target)]
        /\ nvmeDmaReqQ' = dmaQ /\ nandReqQ' = nandQ /\ notCompletedNandReqCnt' = nandCnt
        /\ UNCHANGED <<blockedReqCnt, depVars>>
    BY <1>5, <1>17 DEF DmaCode, NandCode
  <2> HIDE DEF d, q
  <2>2. /\ rowAddrDepReqQ'[d] \in Seq(Req) /\ NoDup(rowAddrDepReqQ'[d])
        /\ ToSet(rowAddrDepReqQ'[d]) = ToSet(rowAddrDepReqQ[d]) \cup {target}
    <3> DEFINE s == rowAddrDepReqQ[d]
    <3>1. /\ s \in Seq(Req) /\ NoDup(s) /\ target \notin ToSet(s)
          /\ rowAddrDepReqQ'[d] = Append(s, target)
      BY <1>1, <2>0, <2>1 DEF QueuesOK, RowAddrQueuesOK, QueueTypes
    <3> HIDE DEF s
    <3>2. /\ Append(s, target) \in Seq(Req) /\ NoDup(Append(s, target))
          /\ ToSet(Append(s, target)) = ToSet(s) \cup {target}
      BY <2>0, <3>1, AppendQueue
    <3> QED BY <3>1, <3>2 DEF s
  <2>3. QueueTypes' /\ DepTypes'
    BY <1>1, <1>7, <2>0, <2>1, <2>2 DEF QueueTypes, DepTypes, depVars
  <2>4. DmaQueueOK' /\ NandQueuesOK'
    <3>1. /\ reqQueueType'[target] = "BLOCKED_BY_ROW_ADDR_DEP"
          /\ reqQueueType[target] = "BLOCKED_BY_BUF_DEP"
      BY <1>1, <1>17, <2>0, <2>1 DEF QueueTypes
    <3>2. \A s \in Req \ {r, target} : reqQueueType'[s] = reqQueueType[s]
      BY <1>7
    <3>3. nandReqQ' = nandQ /\ nvmeDmaReqQ' = dmaQ
      BY <2>1
    <3>4. NandQueuesOK'
      <4>1. reqQueueType'[r] = "FREE" /\ target \in Req \cup {NoReq}
        BY <1>7, <2>0
      <4>2. \A t \in Req \ {r} : reqPool'[t] = reqPool[t]
        BY <1>6
      <4> QED BY <3>1, <3>2, <3>3, <4>1, <4>2, NandQueuesKept
    <3>5. DmaQueueOK'
      BY <1>7, <2>0, <3>1, <3>2, <3>3 DEF DmaQueueOK
    <3> QED BY <3>4, <3>5
  <2>5. RowAddrQueuesOK'
    <3> SUFFICES ASSUME NEW e \in Die
                 PROVE  /\ NoDup(rowAddrDepReqQ'[e])
                        /\ \A s \in Req : s \in ToSet(rowAddrDepReqQ'[e]) <=>
                             /\ reqQueueType'[s] = "BLOCKED_BY_ROW_ADDR_DEP"
                             /\ DieOfReq(reqPool'[s]) = e
      BY DEF RowAddrQueuesOK, DieOfReq
    <3>0. DieOfReq(reqPool'[target]) = d
      BY <1>6, <2>0 DEF d, q
    <3>1. CASE e = d
      <4>1. /\ reqQueueType'[target] = "BLOCKED_BY_ROW_ADDR_DEP" /\ reqQueueType'[r] = "FREE"
        BY <1>1, <2>0, <2>1 DEF QueueTypes
      <4>2. ASSUME NEW s \in Req, s # target, s # r
            PROVE  s \in ToSet(rowAddrDepReqQ'[d]) <=>
                     /\ reqQueueType'[s] = "BLOCKED_BY_ROW_ADDR_DEP"
                     /\ DieOfReq(reqPool'[s]) = d
        <5>1. s \in ToSet(rowAddrDepReqQ[d]) <=>
                /\ reqQueueType[s] = "BLOCKED_BY_ROW_ADDR_DEP"
                /\ DieOfReq(reqPool[s]) = d
          BY <2>0 DEF QueuesOK, RowAddrQueuesOK
        <5>2. reqPool'[s] = reqPool[s] /\ reqQueueType'[s] = reqQueueType[s]
          BY <1>6, <1>7, <4>2
        <5> QED BY <2>2, <4>2, <5>1, <5>2
      <4>3. r \notin ToSet(rowAddrDepReqQ'[d])
        BY <1>12, <2>0, <2>2
      <4> QED BY <2>2, <3>0, <3>1, <4>1, <4>2, <4>3
    <3>2. CASE e # d
      BY <1>1, <1>6, <2>0, <2>1, <3>0, <3>2 DEF QueuesOK, RowAddrQueuesOK, QueueTypes
    <3> QED BY <3>1, <3>2
  <2>6. NandCodesOK'
    BY <1>1, <1>6, <1>17, <2>0, <2>1 DEF QueuesOK, NandCodesOK, QueueTypes, q
  <2> QED BY <2>3, <2>4, <2>5, <2>6 DEF QueuesOK
<1>18. QueueTypes' /\ DepTypes' /\ QueuesOK'
  BY <1>5, <1>14, <1>15, <1>16, <1>17
<1>19. \A s \in Req \ {r} :
          \/ reqQueueType'[s] = reqQueueType[s]
          \/ reqQueueType[s] = "BLOCKED_BY_BUF_DEP" /\ InQueue(s)'
  BY <1>7
<1>20. \A s \in Req \ {r}, c \in Buf : s \in ToSet(blockingReq[c]) => s \in ToSet(blockingReq'[c])
  BY <1>8
<1> QED BY <1>6, <1>7, <1>8, <1>9, <1>10, <1>11, <1>18, <1>19, <1>20

-----------------------------------------------------------------------------
(* The initial states.                                                     *)

\* The empty queue.
LEMMA EmptyQueue == NoDup(<<>>) /\ ToSet(<<>>) = {}
  BY DEF NoDup, ToSet

\* The state InitReqPool and InitDependencyTable leave satisfies the invariant.
LEMMA InitIInv == Init => IInv
<1> SUFFICES ASSUME Init PROVE IInv
  OBVIOUS
<1>1. NoRequest \in Request
  BY PageAssumption DEF Request, NoRequest, DmaCode
<1>2. TypeOK
  <2>1. \A S : <<>> \in Seq(S)
    OBVIOUS
  <2>2. /\ dmaWalk \in [todo : Seq(Req), rxDone : BOOLEAN, txDone : BOOLEAN]
        /\ plan \in Seq(SubReq) /\ rowAddrWalk \in Seq(Req) /\ nvmeDmaReqQ \in Seq(Req)
    BY <2>1 DEF Init
  <2>3. /\ nandReqQ \in [Die -> Seq(Req)] /\ rowAddrDepReqQ \in [Die -> Seq(Req)]
        /\ blockingReq \in [Buf -> Seq(Req)]
    BY <2>1 DEF Init
  <2>4. DepTypes /\ currentPage \in [Block -> 0..PagesPerBlock]
    BY PageAssumption DEF Init, DepTypes
  <2>5. reqPool \in [Req -> Request] /\ reqQueueType \in [Req -> QueueType]
    BY <1>1 DEF Init, QueueType
  <2>6. /\ blockedReqCnt \in Int /\ notCompletedNandReqCnt \in Int
        /\ dirty \subseteq HostBuf /\ dmaDone \subseteq Req /\ syncAll \in BOOLEAN
        /\ sliceReq \in Req \cup {NoReq} /\ syncReq \in Req \cup {NoReq}
    <3>1. /\ blockedReqCnt = 0 /\ notCompletedNandReqCnt = 0 /\ dirty = {} /\ dmaDone = {}
          /\ syncAll = FALSE /\ sliceReq = NoReq /\ syncReq = NoReq
      BY DEF Init
    <3>2. blockedReqCnt \in Int /\ notCompletedNandReqCnt \in Int
      BY <3>1
    <3>3. syncAll \in BOOLEAN
      BY <3>1
    <3> QED BY <3>1, <3>2, <3>3
  <2> QED BY <2>2, <2>3, <2>4, <2>5, <2>6 DEF TypeOK, DepTypes
<1>3. \A r \in Req : reqQueueType[r] = "FREE"
  BY DEF Init
<1>4. RequestsOK /\ BufferExclusive
  BY <1>3 DEF RequestsOK, BufferExclusive, Outstanding, InQueue
<1>5. QueuesOK
  BY <1>3, EmptyQueue DEF Init, QueuesOK, DmaQueueOK, NandQueuesOK, RowAddrQueuesOK, NandCodesOK
<1>6. WalksOK /\ ChainsOK
  BY EmptyQueue DEF Init, WalksOK, ChainsOK
<1>7. InHandOK
  BY <1>3 DEF Init, InHandOK
<1> QED BY <1>2, <1>4, <1>5, <1>6, <1>7 DEF IInv

-----------------------------------------------------------------------------
(* Actions of the layers above: a slice request, garbage collection, the   *)
(* wait for everything outstanding.                                        *)

\* A new slice request keeps the invariant.
LEMMA SliceRequestStep ==
  ASSUME IInv, NEW r \in Req, NEW b \in HostBuf, NEW code \in HostCode,
         NEW hit \in BOOLEAN, NEW fill \in BOOLEAN, SliceRequest(r, b, code, hit, fill)
  PROVE  IInv'
<1> USE DEF IInv
<1>1. /\ r \in FreeReq /\ sliceReq = NoReq /\ r # NoReq
      /\ sliceReq' = r /\ reqQueueType' = [reqQueueType EXCEPT ![r] = "SLICE"]
      /\ UNCHANGED <<reqPool, blockingReq, queueVars, depVars, currentPage, syncAll, loopVars, dmaDone>>
  BY ReqAssumption DEF SliceRequest
<1>2. plan' \in Seq(SubReq)
  <2> DEFINE SubReqs(c, on) == IF on THEN <<[reqCode |-> c, buf |-> b]>> ELSE <<>>
  <2>1. plan' = SubReqs("WRITE", ~hit /\ b \in dirty) \o SubReqs("READ", fill) \o SubReqs(code, TRUE)
    BY DEF SliceRequest
  <2>2. \A c \in {"WRITE", "READ", code} : [reqCode |-> c, buf |-> b] \in SubReq
    BY ReuseAssumption, BufAssumption DEF SubReq, DmaCode, NandCode, Buf
  <2>3. \A c \in {"WRITE", "READ", code}, on \in BOOLEAN : SubReqs(c, on) \in Seq(SubReq)
    BY <2>2
  <2> HIDE DEF SubReqs
  <2>4. (~hit /\ b \in dirty) \in BOOLEAN
    OBVIOUS
  <2> DEFINE x == SubReqs("WRITE", ~hit /\ b \in dirty)
             y == SubReqs("READ", fill)
             z == SubReqs(code, TRUE)
  <2>5. x \in Seq(SubReq) /\ y \in Seq(SubReq) /\ z \in Seq(SubReq) /\ plan' = x \o y \o z
    BY <2>1, <2>3, <2>4
  <2> HIDE DEF x, y, z
  <2> QED BY <2>5
<1>3. dirty' \subseteq HostBuf
  BY DEF SliceRequest, TypeOK
<1>4. reqQueueType[r] = "FREE" /\ reqQueueType' \in [Req -> QueueType]
      /\ reqQueueType'[r] = "SLICE"
      /\ \A s \in Req \ {r} : reqQueueType'[s] = reqQueueType[s]
  BY <1>1 DEF FreeReq, TypeOK, QueueType
<1>5. TypeOK'
  BY <1>1, <1>2, <1>3, <1>4 DEF TypeOK, queueVars, depVars, loopVars
<1>6. RequestsOK' /\ BufferExclusive'
  BY <1>1, <1>4 DEF RequestsOK, BufferExclusive, Outstanding, InQueue, WellFormed
<1>7. QueuesOK'
  BY <1>1, <1>4 DEF QueuesOK, DmaQueueOK, NandQueuesOK, RowAddrQueuesOK, NandCodesOK, DieOfReq, queueVars
<1>8. WalksOK'
  <2>1. r \notin ToSet(dmaWalk.todo) /\ r \notin ToSet(rowAddrWalk)
    BY <1>4 DEF WalksOK
  <2>2. ToSet(dmaWalk.todo) \subseteq Req /\ ToSet(rowAddrWalk) \subseteq Req
    BY DEF ToSet, TypeOK
  <2> QED BY <1>1, <1>4, <2>1, <2>2 DEF WalksOK, loopVars
<1>9. ChainsOK'
  <2>1. \A c \in Buf : \A s \in ToSet(blockingReq[c]) : s \in Req /\ s # r
    BY <1>4 DEF TypeOK, ToSet, ChainsOK, Outstanding
  <2> QED BY <1>1, <1>4, <2>1 DEF ChainsOK, Outstanding
<1>10. InHandOK'
  <2>1. syncReq # NoReq => syncReq \in Req \ {r}
    BY <1>4 DEF InHandOK, TypeOK
  <2>2. syncReq' = syncReq /\ reqPool' = reqPool /\ blockingReq' = blockingReq
    BY <1>1 DEF loopVars
  <2>3. \A s \in Req : reqQueueType[s] # "SLICE"
    BY <1>1, ReqAssumption DEF InHandOK
  <2> QED BY <1>1, <1>4, <2>1, <2>2, <2>3 DEF InHandOK
<1> QED BY <1>5, <1>6, <1>7, <1>8, <1>9, <1>10

\* What IInv says beside TypeOK depends on the queues, the slots in hand and
\* the loops alone.
LEMMA SameQueues ==
  ASSUME RequestsOK, QueuesOK, WalksOK, ChainsOK, BufferExclusive, InHandOK,
         UNCHANGED <<reqPool, reqQueueType, blockingReq, nvmeDmaReqQ, nandReqQ, rowAddrDepReqQ,
                     sliceReq, syncReq, dmaWalk, rowAddrWalk>>
  PROVE  RequestsOK' /\ QueuesOK' /\ WalksOK' /\ ChainsOK' /\ BufferExclusive' /\ InHandOK'
BY DEF RequestsOK, QueuesOK, DmaQueueOK, NandQueuesOK, RowAddrQueuesOK, NandCodesOK,
       DieOfReq, WalksOK, ChainsOK, BufferExclusive, InHandOK, Outstanding, InQueue

\* A garbage collection that is planned keeps the invariant.
LEMMA GarbageCollectionStep ==
  ASSUME IInv, NEW d \in Die, NEW t \in TempBuf, NEW copies \in 0..MaxGcCopies,
         GarbageCollection(d, t, copies)
  PROVE  IInv'
<1> USE DEF IInv
<1>1. UNCHANGED <<poolVars, queueVars, depVars, dirty, currentPage, sliceReq, syncAll, loopVars, dmaDone>>
  BY DEF GarbageCollection
<1>2. plan' \in Seq(SubReq)
  <2> DEFINE x == [i \in 1..(2 * copies) |->
                     [reqCode |-> IF i % 2 = 1 THEN "READ" ELSE "WRITE", buf |-> t]]
             y == <<[reqCode |-> "ERASE", buf |-> NoBuf]>>
  <2>1. plan' = x \o y \o plan
    BY DEF GarbageCollection
  <2>2. \A c \in {"READ", "WRITE"} : [reqCode |-> c, buf |-> t] \in SubReq
    BY BufAssumption DEF SubReq, NandCode, Buf
  <2>3. 2 * copies \in Nat
    BY ReuseAssumption
  <2>4. x \in Seq(SubReq)
    BY <2>2, <2>3
  <2>5. [reqCode |-> "ERASE", buf |-> NoBuf] \in SubReq
    BY DEF SubReq, NandCode
  <2>6. y \in Seq(SubReq) /\ plan \in Seq(SubReq)
    BY <2>5 DEF TypeOK
  <2> HIDE DEF x, y
  <2> QED BY <2>1, <2>4, <2>6
<1>3. TypeOK'
  BY <1>1, <1>2 DEF TypeOK, poolVars, queueVars, depVars, loopVars
<1> QED BY <1>1, <1>3, SameQueues DEF poolVars, queueVars, loopVars

\* Entering and leaving SyncAllLowLevelReqDone keeps the invariant.
LEMMA SyncAllStep ==
  ASSUME IInv, SyncAllLowLevelReqDone \/ SyncAllReturns
  PROVE  IInv'
<1> USE DEF IInv
<1>1. /\ UNCHANGED <<poolVars, queueVars, depVars, dirty, currentPage, plan, sliceReq, loopVars, dmaDone>>
      /\ syncAll' \in BOOLEAN
  BY DEF SyncAllLowLevelReqDone, SyncAllReturns
<1>2. TypeOK'
  BY <1>1 DEF TypeOK, poolVars, queueVars, depVars, loopVars
<1> QED BY <1>1, <1>2, SameQueues DEF poolVars, queueVars, loopVars

\* A transfer the DMA engine finishes keeps the invariant.
LEMMA HostDmaDoneStep ==
  ASSUME IInv, NEW r \in Req, HostDmaDone(r)
  PROVE  IInv'
<1> USE DEF IInv
<1>1. /\ UNCHANGED <<poolVars, queueVars, depVars, ftlVars, loopVars>>
      /\ dmaDone' = dmaDone \cup {r}
  BY DEF HostDmaDone
<1>2. TypeOK'
  BY <1>1 DEF TypeOK, poolVars, queueVars, depVars, ftlVars, loopVars
<1> QED BY <1>1, <1>2, SameQueues DEF poolVars, queueVars, ftlVars, loopVars

\* The start of a walk over nvmeDmaReqQ keeps the invariant.
LEMMA CheckDoneNvmeDmaReqStep ==
  ASSUME IInv, CheckDoneNvmeDmaReq
  PROVE  IInv'
<1> USE DEF IInv
<1>1. /\ UNCHANGED <<poolVars, queueVars, depVars, ftlVars, syncReq, rowAddrWalk, dmaDone>>
      /\ dmaWalk' = [todo |-> nvmeDmaReqQ, rxDone |-> FALSE, txDone |-> FALSE]
  BY DEF CheckDoneNvmeDmaReq
<1>2. TypeOK'
  BY <1>1 DEF TypeOK, poolVars, queueVars, depVars, ftlVars
<1>3. WalksOK'
  <2>1. dmaWalk'.todo = nvmeDmaReqQ /\ NoDup(nvmeDmaReqQ) /\ ToSet(nvmeDmaReqQ) \subseteq Req
    BY <1>1 DEF QueuesOK, DmaQueueOK, TypeOK, ToSet
  <2> QED BY <1>1, <2>1 DEF WalksOK, poolVars, QueuesOK, DmaQueueOK
<1>4. RequestsOK' /\ QueuesOK' /\ ChainsOK' /\ BufferExclusive' /\ InHandOK'
  BY <1>1 DEF poolVars, queueVars, ftlVars, RequestsOK, QueuesOK, DmaQueueOK, NandQueuesOK,
              RowAddrQueuesOK, NandCodesOK, DieOfReq, ChainsOK, BufferExclusive, InHandOK,
              Outstanding, InQueue
<1> QED BY <1>2, <1>3, <1>4

-----------------------------------------------------------------------------
(* The polling loops.                                                      *)

\* The slots in hand are not touched by a release.
LEMMA ReleaseInHand ==
  ASSUME IInv, NEW r \in Req, reqQueueType[r] \in {"NVME_DMA", "NAND"},
         reqQueueType'[r] = "FREE",
         \A s \in Req \ {r} :
              /\ reqPool'[s] = reqPool[s]
              /\ \/ reqQueueType'[s] = reqQueueType[s]
                 \/ reqQueueType[s] = "BLOCKED_BY_BUF_DEP" /\ InQueue(s)',
         \A s \in Req \ {r}, b \in Buf :
              s \in ToSet(blockingReq[b]) => s \in ToSet(blockingReq'[b]),
         UNCHANGED <<sliceReq, syncReq>>
  PROVE  InHandOK'
<1> USE DEF IInv
<1>1. sliceReq # NoReq => sliceReq \in Req \ {r} /\ reqQueueType'[sliceReq] = "SLICE"
  BY DEF InHandOK, TypeOK
<1>2. syncReq # NoReq =>
        /\ syncReq \in Req \ {r} /\ reqPool'[syncReq] = reqPool[syncReq]
        /\ reqQueueType'[syncReq] = "NONE" /\ reqPool[syncReq].reqCode = "READ"
        /\ syncReq \in ToSet(blockingReq'[reqPool[syncReq].buf])
  <2>1. syncReq # NoReq => /\ syncReq \in Req \ {r} /\ reqQueueType[syncReq] = "NONE"
                           /\ reqPool[syncReq].reqCode = "READ"
                           /\ syncReq \in ToSet(blockingReq[reqPool[syncReq].buf])
    BY DEF InHandOK, TypeOK
  <2>2. syncReq # NoReq => reqPool[syncReq].buf \in Buf
    BY <2>1 DEF RequestsOK, WellFormed, Outstanding
  <2> QED BY <2>1, <2>2
<1>3. \A s \in Req : /\ reqQueueType'[s] = "SLICE" => s = sliceReq
                     /\ reqQueueType'[s] = "NONE" => s = syncReq
  BY DEF InHandOK, InQueue
<1> QED BY <1>1, <1>2, <1>3 DEF InHandOK

\* An iteration of CheckDoneNvmeDmaReq keeps the invariant.
LEMMA VisitNvmeDmaReqStep ==
  ASSUME IInv, VisitNvmeDmaReq
  PROVE  IInv'
<1> USE DEF IInv
<1> DEFINE todo == dmaWalk.todo
           r    == todo[Len(todo)]
           rest == SubSeq(todo, 1, Len(todo) - 1)
<1>1. /\ todo \in Seq(Req) /\ NoDup(todo) /\ todo # <<>>
      /\ \A s \in ToSet(todo) : reqQueueType[s] = "NVME_DMA"
  BY DEF VisitNvmeDmaReq, TypeOK, WalksOK
<1>2. /\ dmaWalk'.todo = rest
      /\ dmaWalk' \in [todo : {rest}, rxDone : BOOLEAN, txDone : BOOLEAN]
      /\ \/ /\ dmaDone' = dmaDone \ {r}
            /\ ReleaseBlockedByBufDepReq(r, Without(nvmeDmaReqQ, r), nandReqQ,
                                         notCompletedNandReqCnt)
         \/ UNCHANGED <<poolVars, queueVars, depVars, dmaDone>>
      /\ UNCHANGED <<ftlVars, syncReq, rowAddrWalk>>
  BY DEF VisitNvmeDmaReq, TypeOK
<1>3. /\ rest \in Seq(Req) /\ NoDup(rest) /\ r \in Req /\ r \in ToSet(todo)
      /\ ToSet(rest) = ToSet(todo) \ {r}
  <2> HIDE DEF todo
  <2> QED BY <1>1, FrontQueue
<1> HIDE DEF todo, r, rest
<1>4. reqQueueType[r] = "NVME_DMA"
  BY <1>1, <1>3
<1>5. ToSet(todo) \subseteq Req /\ ToSet(rowAddrWalk) \subseteq Req
  BY <1>1 DEF ToSet, TypeOK
<1>6. dmaWalk' \in [todo : Seq(Req), rxDone : BOOLEAN, txDone : BOOLEAN]
  BY <1>2, <1>3
<1>7. CASE UNCHANGED <<poolVars, queueVars, depVars, dmaDone>>
  <2>1. TypeOK'
    BY <1>2, <1>6, <1>7 DEF TypeOK, poolVars, queueVars, depVars, ftlVars
  <2>2. WalksOK'
    BY <1>1, <1>2, <1>3, <1>7 DEF WalksOK, poolVars
  <2>3. RequestsOK' /\ QueuesOK' /\ ChainsOK' /\ BufferExclusive' /\ InHandOK'
    BY <1>2, <1>7 DEF poolVars, queueVars, ftlVars, RequestsOK, QueuesOK, DmaQueueOK, NandQueuesOK,
                RowAddrQueuesOK, NandCodesOK, DieOfReq, ChainsOK, BufferExclusive, InHandOK,
                Outstanding, InQueue
  <2> QED BY <2>1, <2>2, <2>3
<1>8. CASE /\ dmaDone' = dmaDone \ {r}
           /\ ReleaseBlockedByBufDepReq(r, Without(nvmeDmaReqQ, r), nandReqQ, notCompletedNandReqCnt)
  <2> DEFINE dmaQ == Without(nvmeDmaReqQ, r)
  <2>1. dmaQ \in Seq(Req) /\ NoDup(dmaQ) /\ ToSet(dmaQ) = ToSet(nvmeDmaReqQ) \ {r}
    <3>1. r \in ToSet(nvmeDmaReqQ) /\ nvmeDmaReqQ \in Seq(Req) /\ NoDup(nvmeDmaReqQ)
      BY <1>3, <1>4 DEF QueuesOK, DmaQueueOK, TypeOK
    <3> QED BY <3>1, WithoutQueue
  <2>2. \A s \in Req : s \in ToSet(dmaQ) <=> reqQueueType[s] = "NVME_DMA" /\ s # r
    BY <2>1 DEF QueuesOK, DmaQueueOK
  <2>3. \A d \in Die :
           /\ NoDup(nandReqQ[d])
           /\ \A s \in Req : s \in ToSet(nandReqQ[d]) <=>
                /\ reqQueueType[s] = "NAND" /\ DieOfReq(reqPool[s]) = d
                /\ s # r
    BY <1>4 DEF QueuesOK, NandQueuesOK
  <2>4. nandReqQ \in [Die -> Seq(Req)] /\ notCompletedNandReqCnt \in Int
    BY DEF TypeOK
  <2> HIDE DEF dmaQ
  <2>5.  /\ reqPool' \in [Req -> Request] /\ blockingReq' \in [Buf -> Seq(Req)]
         /\ QueueTypes' /\ DepTypes'
         /\ RequestsOK' /\ QueuesOK' /\ ChainsOK' /\ BufferExclusive'
         /\ reqQueueType'[r] = "FREE"
         /\ \A s \in Req \ {r} :
              /\ reqPool'[s] = reqPool[s]
              /\ \/ reqQueueType'[s] = reqQueueType[s]
                 \/ reqQueueType[s] = "BLOCKED_BY_BUF_DEP" /\ InQueue(s)'
         /\ \A s \in Req \ {r}, b \in Buf :
              s \in ToSet(blockingReq[b]) => s \in ToSet(blockingReq'[b])
    <3>1. ReleaseBlockedByBufDepReq(r, dmaQ, nandReqQ, notCompletedNandReqCnt)
      BY <1>8 DEF dmaQ
    <3> QED BY <1>3, <1>4, <2>1, <2>2, <2>3, <2>4, <3>1, ReleaseStep
  <2>6. TypeOK'
    BY <1>2, <1>6, <1>8, <2>5 DEF TypeOK, QueueTypes, DepTypes, ftlVars
  <2>7. WalksOK'
    <3>1. \A s \in ToSet(rowAddrWalk) : s \in Req \ {r} /\ reqQueueType'[s] = "BLOCKED_BY_ROW_ADDR_DEP"
      BY <1>4, <1>5, <2>5 DEF WalksOK
    <3>2. \A s \in ToSet(rest) : reqQueueType'[s] = "NVME_DMA"
      BY <1>1, <1>3, <1>5, <2>5
    <3> QED BY <1>2, <1>3, <3>1, <3>2 DEF WalksOK
  <2>8. InHandOK'
    BY <1>2, <1>3, <1>4, <2>5, ReleaseInHand DEF ftlVars
  <2> QED BY <2>5, <2>6, <2>7, <2>8
<1> QED BY <1>2, <1>7, <1>8

\* The completion of a flash operation keeps the invariant.
LEMMA GetFromNandReqQStep ==
  ASSUME IInv, NEW d \in Die, GetFromNandReqQ(d)
  PROVE  IInv'
<1> USE DEF IInv
<1> DEFINE s0    == nandReqQ[d]
           r     == Head(s0)
           nandQ == [nandReqQ EXCEPT ![d] = Tail(@)]
<1>1. /\ s0 # <<>> /\ NotWalking
      /\ ReleaseBlockedByBufDepReq(r, nvmeDmaReqQ, nandQ, notCompletedNandReqCnt - 1)
      /\ rowAddrWalk' = IF nandReqQ'[d] = <<>> THEN rowAddrDepReqQ'[d] ELSE <<>>
      /\ UNCHANGED <<ftlVars, syncReq, dmaWalk, dmaDone>>
  BY DEF GetFromNandReqQ
<1>2. s0 \in Seq(Req) /\ NoDup(s0)
  BY DEF TypeOK, QueuesOK, NandQueuesOK
<1>3. /\ Tail(s0) \in Seq(Req) /\ r \in Req /\ r \in ToSet(s0)
      /\ NoDup(Tail(s0)) /\ ToSet(Tail(s0)) = ToSet(s0) \ {r}
  <2> HIDE DEF s0
  <2> QED BY <1>1, <1>2, TailQueue
<1>4. reqQueueType[r] = "NAND" /\ DieOfReq(reqPool[r]) = d
  BY <1>3 DEF QueuesOK, NandQueuesOK
<1>5. /\ nandQ \in [Die -> Seq(Req)] /\ nandQ[d] = Tail(s0)
      /\ \A e \in Die \ {d} : nandQ[e] = nandReqQ[e]
  BY <1>3 DEF TypeOK
<1> HIDE DEF nandQ
<1>6. \A e \in Die :
           /\ NoDup(nandQ[e])
           /\ \A s \in Req : s \in ToSet(nandQ[e]) <=>
                /\ reqQueueType[s] = "NAND" /\ DieOfReq(reqPool[s]) = e
                /\ s # r
  <2> SUFFICES ASSUME NEW e \in Die
               PROVE  /\ NoDup(nandQ[e])
                      /\ \A s \in Req : s \in ToSet(nandQ[e]) <=>
                           /\ reqQueueType[s] = "NAND" /\ DieOfReq(reqPool[s]) = e
                           /\ s # r
    OBVIOUS
  <2>1. \A s \in Req : s \in ToSet(nandReqQ[e]) <=>
                         reqQueueType[s] = "NAND" /\ DieOfReq(reqPool[s]) = e
    BY DEF QueuesOK, NandQueuesOK
  <2>2. NoDup(nandReqQ[e])
    BY DEF QueuesOK, NandQueuesOK
  <2> HIDE DEF r
  <2>3. CASE e = d
    BY <1>3, <1>5, <2>1, <2>3
  <2>4. CASE e # d
    BY <1>4, <1>5, <2>1, <2>2, <2>4
  <2> QED BY <2>3, <2>4
<1>7. /\ nvmeDmaReqQ \in Seq(Req) /\ NoDup(nvmeDmaReqQ) /\ notCompletedNandReqCnt - 1 \in Int
      /\ \A s \in Req : s \in ToSet(nvmeDmaReqQ) <=> reqQueueType[s] = "NVME_DMA" /\ s # r
  BY <1>4 DEF TypeOK, QueuesOK, DmaQueueOK
<1> HIDE DEF r, s0
<1>8. /\ reqPool' \in [Req -> Request] /\ blockingReq' \in [Buf -> Seq(Req)]
      /\ QueueTypes' /\ DepTypes'
      /\ RequestsOK' /\ QueuesOK' /\ ChainsOK' /\ BufferExclusive'
      /\ reqQueueType'[r] = "FREE"
      /\ \A s \in Req \ {r} :
           /\ reqPool'[s] = reqPool[s]
           /\ \/ reqQueueType'[s] = reqQueueType[s]
              \/ reqQueueType[s] = "BLOCKED_BY_BUF_DEP" /\ InQueue(s)'
      /\ \A s \in Req \ {r}, b \in Buf :
           s \in ToSet(blockingReq[b]) => s \in ToSet(blockingReq'[b])
  <2> DEFINE cnt == notCompletedNandReqCnt - 1
  <2>1. ReleaseBlockedByBufDepReq(r, nvmeDmaReqQ, nandQ, cnt) /\ cnt \in Int
    BY <1>1, <1>7
  <2>2. reqQueueType[r] \in {"NVME_DMA", "NAND"}
    BY <1>4
  <2> HIDE DEF cnt
  <2> QED BY <1>3, <1>5, <1>6, <1>7, <2>1, <2>2, ReleaseStep
<1>9. /\ rowAddrWalk' \in Seq(Req) /\ NoDup(rowAddrWalk')
      /\ \A s \in ToSet(rowAddrWalk') : reqQueueType'[s] = "BLOCKED_BY_ROW_ADDR_DEP"
  <2> DEFINE w == rowAddrDepReqQ'[d]
  <2>1. /\ w \in Seq(Req) /\ NoDup(w)
        /\ \A s \in Req : s \in ToSet(w) => reqQueueType'[s] = "BLOCKED_BY_ROW_ADDR_DEP"
    BY <1>8 DEF QueueTypes, QueuesOK, RowAddrQueuesOK
  <2>2. ToSet(w) \subseteq Req
    BY <2>1 DEF ToSet
  <2>3. <<>> \in Seq(Req)
    OBVIOUS
  <2> QED BY <1>1, <2>1, <2>2, <2>3, EmptyQueue
<1>10. TypeOK'
  BY <1>1, <1>8, <1>9 DEF TypeOK, QueueTypes, DepTypes, ftlVars
<1>11. WalksOK'
  BY <1>1, <1>9, EmptyQueue DEF WalksOK, NotWalking
<1>12. InHandOK'
  BY <1>1, <1>3, <1>4, <1>8, ReleaseInHand DEF ftlVars
<1> QED BY <1>8, <1>10, <1>11, <1>12

\* An iteration of ReleaseBlockedByRowAddrDepReq keeps the invariant.
LEMMA VisitRowAddrDepReqStep ==
  ASSUME IInv, VisitRowAddrDepReq
  PROVE  IInv'
<1> USE DEF IInv
<1> DEFINE r == Head(rowAddrWalk)
           q == reqPool[r]
           d == DieOfReq(q)
<1>1. /\ rowAddrWalk \in Seq(Req) /\ NoDup(rowAddrWalk) /\ rowAddrWalk # <<>>
      /\ \A s \in ToSet(rowAddrWalk) : reqQueueType[s] = "BLOCKED_BY_ROW_ADDR_DEP"
  BY DEF VisitRowAddrDepReq, TypeOK, WalksOK
<1>2. /\ Tail(rowAddrWalk) \in Seq(Req) /\ NoDup(Tail(rowAddrWalk))
      /\ r \in Req /\ r \in ToSet(rowAddrWalk)
      /\ ToSet(Tail(rowAddrWalk)) = ToSet(rowAddrWalk) \ {r}
  BY <1>1, TailQueue
<1>3. /\ rowAddrWalk' = Tail(rowAddrWalk)
      /\ \/ /\ PassRowAddrDep(q)
            /\ UpdateTablePassed(q, TRUE)
            /\ rowAddrDepReqQ' = [rowAddrDepReqQ EXCEPT ![d] = Without(@, r)]
            /\ nandReqQ' = [nandReqQ EXCEPT ![d] = Append(@, r)]
            /\ reqQueueType' = [reqQueueType EXCEPT ![r] = "NAND"]
            /\ notCompletedNandReqCnt' = notCompletedNandReqCnt + 1
            /\ blockedReqCnt' = blockedReqCnt - 1
            /\ UNCHANGED nvmeDmaReqQ
         \/ UNCHANGED <<reqQueueType, queueVars, depVars>>
      /\ UNCHANGED <<reqPool, blockingReq, ftlVars, syncReq, dmaWalk, dmaDone>>
  BY DEF VisitRowAddrDepReq
<1>4. /\ reqQueueType[r] = "BLOCKED_BY_ROW_ADDR_DEP" /\ q.reqCode \in NandCode
      /\ WellFormed(q) /\ d \in Die
  <2>1. reqQueueType[r] = "BLOCKED_BY_ROW_ADDR_DEP"
    BY <1>1, <1>2
  <2>2. q.reqCode \in NandCode /\ WellFormed(q)
    BY <1>2, <2>1 DEF QueuesOK, NandCodesOK, RequestsOK, Outstanding
  <2>3. d \in Die
    BY <2>2, BlockAssumption DEF WellFormed, DieOfReq
  <2> QED BY <2>1, <2>2, <2>3
<1>5. ToSet(rowAddrWalk) \subseteq Req /\ ToSet(dmaWalk.todo) \subseteq Req
  BY <1>1 DEF ToSet, TypeOK
<1> HIDE DEF r
<1>6. CASE UNCHANGED <<reqQueueType, queueVars, depVars>>
  <2>1. TypeOK'
    BY <1>2, <1>3, <1>6 DEF TypeOK, queueVars, depVars, ftlVars
  <2>2. WalksOK'
    BY <1>1, <1>2, <1>3, <1>6 DEF WalksOK
  <2>3. RequestsOK' /\ QueuesOK' /\ ChainsOK' /\ BufferExclusive' /\ InHandOK'
    BY <1>3, <1>6 DEF queueVars, ftlVars, RequestsOK, QueuesOK, DmaQueueOK, NandQueuesOK,
                RowAddrQueuesOK, NandCodesOK, DieOfReq, ChainsOK, BufferExclusive, InHandOK,
                Outstanding, InQueue
  <2> QED BY <2>1, <2>2, <2>3
<1>7. CASE /\ PassRowAddrDep(q)
           /\ UpdateTablePassed(q, TRUE)
           /\ rowAddrDepReqQ' = [rowAddrDepReqQ EXCEPT ![d] = Without(@, r)]
           /\ nandReqQ' = [nandReqQ EXCEPT ![d] = Append(@, r)]
           /\ reqQueueType' = [reqQueueType EXCEPT ![r] = "NAND"]
           /\ notCompletedNandReqCnt' = notCompletedNandReqCnt + 1
           /\ blockedReqCnt' = blockedReqCnt - 1
           /\ UNCHANGED nvmeDmaReqQ
  <2>1. DepTypes'
    BY <1>4, <1>7, TablePassedTypes DEF TypeOK, DepTypes
  <2> HIDE DEF d
  <2>2. /\ reqQueueType' \in [Req -> QueueType] /\ reqQueueType'[r] = "NAND"
        /\ \A s \in Req \ {r} : reqQueueType'[s] = reqQueueType[s]
        /\ reqPool' = reqPool /\ DieOfReq(reqPool[r]) = d
    BY <1>2, <1>3, <1>7 DEF TypeOK, QueueType, d
  <2>3. /\ nandReqQ' \in [Die -> Seq(Req)] /\ NoDup(nandReqQ'[d])
        /\ ToSet(nandReqQ'[d]) = ToSet(nandReqQ[d]) \cup {r}
        /\ \A e \in Die \ {d} : nandReqQ'[e] = nandReqQ[e]
    <3> DEFINE s == nandReqQ[d]
    <3>1. s \in Seq(Req) /\ NoDup(s) /\ r \notin ToSet(s)
      BY <1>2, <1>4 DEF TypeOK, QueuesOK, NandQueuesOK
    <3> HIDE DEF s
    <3>2. /\ Append(s, r) \in Seq(Req) /\ NoDup(Append(s, r))
          /\ ToSet(Append(s, r)) = ToSet(s) \cup {r}
      BY <1>2, <3>1, AppendQueue
    <3>3. nandReqQ'[d] = Append(s, r) /\ nandReqQ' = [nandReqQ EXCEPT ![d] = Append(s, r)]
      BY <1>4, <1>7 DEF TypeOK, s
    <3> QED BY <3>2, <3>3 DEF TypeOK, s
  <2>4. /\ rowAddrDepReqQ' \in [Die -> Seq(Req)] /\ NoDup(rowAddrDepReqQ'[d])
        /\ ToSet(rowAddrDepReqQ'[d]) = ToSet(rowAddrDepReqQ[d]) \ {r}
        /\ \A e \in Die \ {d} : rowAddrDepReqQ'[e] = rowAddrDepReqQ[e]
    <3> DEFINE s == rowAddrDepReqQ[d]
    <3>1. s \in Seq(Req) /\ NoDup(s) /\ r \in ToSet(s)
      BY <1>2, <1>4, <2>2 DEF TypeOK, QueuesOK, RowAddrQueuesOK
    <3> HIDE DEF s
    <3>2. /\ Without(s, r) \in Seq(Req) /\ NoDup(Without(s, r))
          /\ ToSet(Without(s, r)) = ToSet(s) \ {r}
      BY <3>1, WithoutQueue
    <3>3. /\ rowAddrDepReqQ'[d] = Without(s, r)
          /\ rowAddrDepReqQ' = [rowAddrDepReqQ EXCEPT ![d] = Without(s, r)]
      BY <1>4, <1>7 DEF TypeOK, s
    <3> QED BY <3>2, <3>3 DEF TypeOK, s
  <2>5. TypeOK'
    <3>1. blockedReqCnt' \in Int /\ notCompletedNandReqCnt' \in Int
      BY <1>7 DEF TypeOK
    <3> QED BY <1>2, <1>3, <1>7, <2>1, <2>2, <2>3, <2>4, <3>1 DEF TypeOK, DepTypes, ftlVars
  <2>6. DmaQueueOK' /\ NandCodesOK'
    BY <1>4, <1>7, <2>2 DEF QueuesOK, DmaQueueOK, NandCodesOK
  <2>7. NandQueuesOK'
    <3> SUFFICES ASSUME NEW e \in Die
                 PROVE  /\ NoDup(nandReqQ'[e])
                        /\ \A s \in Req : s \in ToSet(nandReqQ'[e]) <=>
                             reqQueueType'[s] = "NAND" /\ DieOfReq(reqPool[s]) = e
      BY <2>2 DEF NandQueuesOK, DieOfReq
    <3>1. /\ NoDup(nandReqQ[e])
          /\ \A s \in Req : s \in ToSet(nandReqQ[e]) <=>
               reqQueueType[s] = "NAND" /\ DieOfReq(reqPool[s]) = e
      BY DEF QueuesOK, NandQueuesOK
    <3>2. CASE e = d
      BY <1>4, <2>2, <2>3, <3>1, <3>2
    <3>3. CASE e # d
      BY <1>4, <2>2, <2>3, <3>1, <3>3
    <3> QED BY <3>2, <3>3
  <2>8. RowAddrQueuesOK'
    <3> SUFFICES ASSUME NEW e \in Die
                 PROVE  /\ NoDup(rowAddrDepReqQ'[e])
                        /\ \A s \in Req : s \in ToSet(rowAddrDepReqQ'[e]) <=>
                             /\ reqQueueType'[s] = "BLOCKED_BY_ROW_ADDR_DEP"
                             /\ DieOfReq(reqPool[s]) = e
      BY <2>2 DEF RowAddrQueuesOK, DieOfReq
    <3>1. /\ NoDup(rowAddrDepReqQ[e])
          /\ \A s \in Req : s \in ToSet(rowAddrDepReqQ[e]) <=>
               /\ reqQueueType[s] = "BLOCKED_BY_ROW_ADDR_DEP"
               /\ DieOfReq(reqPool[s]) = e
      BY DEF QueuesOK, RowAddrQueuesOK
    <3>2. CASE e = d
      BY <1>4, <2>2, <2>4, <3>1, <3>2
    <3>3. CASE e # d
      BY <1>4, <2>2, <2>4, <3>1, <3>3
    <3> QED BY <3>2, <3>3
  <2>9. WalksOK'
    BY <1>1, <1>2, <1>3, <1>4, <1>5, <2>2 DEF WalksOK
  <2>10. /\ RequestsOK' /\ BufferExclusive'
         /\ \A s \in Req : Outstanding(s) => Outstanding(s)'
    BY <1>3, <1>4, <2>2 DEF RequestsOK, BufferExclusive, Outstanding, InQueue
  <2>11. ChainsOK'
    <3>1. \A b \in Buf : ToSet(blockingReq[b]) \subseteq Req
      BY DEF TypeOK, ToSet
    <3> QED BY <1>3, <2>2, <2>10, <3>1 DEF ChainsOK, Outstanding
  <2>12. InHandOK'
    BY <1>3, <1>4, <2>2 DEF InHandOK, TypeOK, ftlVars
  <2> QED BY <2>5, <2>6, <2>7, <2>8, <2>9, <2>10, <2>11, <2>12 DEF QueuesOK
<1> QED BY <1>3, <1>6, <1>7

-----------------------------------------------------------------------------
(* Dispatching a request.                                                  *)

\* The rest of the invariant after request r, in no queue before, was dispatched
\* and nothing but its own entry of reqPool and one blocking queue changed.
LEMMA DispatchRest ==
  ASSUME IInv, NEW r \in Req, ~InQueue(r), ~(reqQueueType[r] = "BLOCKED_BY_BUF_DEP"),
         Outstanding(r)', reqQueueType'[r] # "NONE" \/ syncReq' = r,
         \A s \in Req \ {r} : reqQueueType'[s] = reqQueueType[s] /\ reqPool'[s] = reqPool[s],
         WellFormed(reqPool'[r]),
         sliceReq' = IF r = sliceReq THEN NoReq ELSE sliceReq,
         syncReq' \in {syncReq, r, NoReq}, syncReq # NoReq => r = syncReq,
         dmaWalk.todo = <<>>, rowAddrWalk = <<>>, UNCHANGED <<dmaWalk, rowAddrWalk>>
  PROVE  /\ RequestsOK' /\ WalksOK'
         /\ sliceReq' # NoReq => reqQueueType'[sliceReq'] = "SLICE"
         /\ \A s \in Req : /\ reqQueueType'[s] = "SLICE" => s = sliceReq'
                           /\ reqQueueType'[s] = "NONE" => s = syncReq'
<1> USE DEF IInv
<1>1. RequestsOK'
  BY DEF RequestsOK, Outstanding, WellFormed
<1>2. WalksOK'
  BY EmptyQueue DEF WalksOK
<1>3. sliceReq' # NoReq => reqQueueType'[sliceReq'] = "SLICE"
  BY DEF InHandOK, TypeOK
<1>4. \A s \in Req : reqQueueType'[s] = "SLICE" => s = sliceReq'
  BY ReqAssumption DEF InHandOK, Outstanding
<1>5. \A s \in Req : reqQueueType'[s] = "NONE" => s = syncReq'
  BY ReqAssumption DEF InHandOK
<1> QED BY <1>1, <1>2, <1>3, <1>4, <1>5

\* The dispatch after SyncReleaseEraseReq keeps the invariant.
LEMMA SyncReleaseEraseReqDoneStep ==
  ASSUME IInv, SyncReleaseEraseReqDone
  PROVE  IInv'
<1> USE DEF IInv
<1>0. PICK r \in Req : r = syncReq /\ syncReq # NoReq
  BY DEF SyncReleaseEraseReqDone, TypeOK
<1> DEFINE q == reqPool[r]
<1>1. /\ dmaWalk.todo = <<>> /\ rowAddrWalk = <<>> /\ r = syncReq /\ syncReq # NoReq
      /\ \/ Head(blockingReq[q.buf]) = r /\ DispatchUnblocked(r, q)
         \/ DispatchBufBlocked(r, q)
      /\ syncReq' = NoReq
      /\ UNCHANGED <<reqPool, blockingReq, ftlVars, dmaWalk, rowAddrWalk, dmaDone>>
  BY <1>0 DEF SyncReleaseEraseReqDone, NotWalking
<1>2. /\ r \in Req /\ reqQueueType[r] = "NONE" /\ q.reqCode = "READ"
      /\ r \in ToSet(blockingReq[q.buf])
  BY <1>1 DEF InHandOK, TypeOK
<1>3. WellFormed(q) /\ ~InQueue(r) /\ Outstanding(r)
  BY <1>2 DEF RequestsOK, Outstanding, InQueue
<1>4. q.buf \in Buf /\ blockingReq[q.buf] # <<>>
  <2>1. q.buf \in Buf
    BY <1>2, <1>3 DEF WellFormed
  <2>2. blockingReq[q.buf] # <<>>
    BY <1>2, EmptyQueue
  <2> QED BY <2>1, <2>2
<1>5. QueueTypes /\ DepTypes /\ QueuesOK
  BY DEF TypeOK, QueueTypes, DepTypes
<1>6. reqPool' = reqPool /\ blockingReq' = blockingReq
  BY <1>1
<1>7. /\ QueueTypes' /\ DepTypes' /\ QueuesOK'
      /\ Outstanding(r)' /\ reqQueueType'[r] # "NONE"
      /\ InQueue(r)' => Head(blockingReq[q.buf]) = r
      /\ \A s \in Req \ {r} : reqQueueType'[s] = reqQueueType[s]
  <2>1. CASE Head(blockingReq[q.buf]) = r /\ DispatchUnblocked(r, q)
    <3>1. /\ QueueTypes' /\ DepTypes' /\ QueuesOK' /\ InQueue(r)'
          /\ \A s \in Req \ {r} : reqQueueType'[s] = reqQueueType[s]
      BY <1>2, <1>3, <1>5, <1>6, <2>1, UnblockedStep
    <3> QED BY <1>6, <2>1, <3>1 DEF InQueue, Outstanding
  <2>2. CASE DispatchBufBlocked(r, q)
    <3>1. /\ QueueTypes' /\ DepTypes' /\ QueuesOK'
          /\ reqQueueType'[r] = "BLOCKED_BY_BUF_DEP"
          /\ \A s \in Req \ {r} : reqQueueType'[s] = reqQueueType[s]
      BY <1>2, <1>3, <1>5, <1>6, <2>2, BufBlockedStep
    <3> QED BY <3>1 DEF InQueue, Outstanding
  <2> QED BY <1>1, <2>1, <2>2
<1>8. sliceReq' = sliceReq /\ sliceReq # r
  <2>1. sliceReq # NoReq => sliceReq # r
    BY <1>2 DEF InHandOK
  <2> QED BY <1>1, <2>1 DEF ftlVars
<1>9. TypeOK'
  <2>1. syncReq' \in Req \cup {NoReq}
    BY <1>1
  <2> QED BY <1>1, <1>6, <1>7, <2>1 DEF TypeOK, QueueTypes, DepTypes, ftlVars
<1>10. /\ RequestsOK' /\ WalksOK'
       /\ sliceReq' # NoReq => reqQueueType'[sliceReq'] = "SLICE"
       /\ \A s \in Req : /\ reqQueueType'[s] = "SLICE" => s = sliceReq'
                         /\ reqQueueType'[s] = "NONE" => s = syncReq'
  BY <1>1, <1>2, <1>3, <1>6, <1>7, <1>8, DispatchRest
<1>11. InHandOK'
  BY <1>1, <1>10 DEF InHandOK
<1>12. ChainsOK'
  <2>1. \A b \in Buf : ToSet(blockingReq[b]) \subseteq Req
    BY DEF TypeOK, ToSet
  <2> QED BY <1>6, <1>7, <2>1 DEF ChainsOK, Outstanding
<1>13. BufferExclusive'
  BY <1>4, <1>6, <1>7 DEF BufferExclusive, InQueue
<1> QED BY <1>7, <1>9, <1>10, <1>11, <1>12, <1>13

\* The sub-request the plan and the address give is well formed; a write does
\* not go past the last page of its block.
LEMMA SubReqWellFormed ==
  ASSUME TypeOK, NEW s \in SubReq, NEW a \in Address(s)
  PROVE  /\ WellFormed([reqCode |-> s.reqCode, buf |-> s.buf, block |-> a[1], page |-> a[2]])
         /\ s.reqCode \in NandCode => a[1] \in Block
         /\ s.reqCode = "WRITE" => a[2] = currentPage[a[1]] /\ a[2] < PagesPerBlock
<1>1. /\ s.reqCode \in DmaCode \cup NandCode /\ s.buf \in Buf \cup {NoBuf}
      /\ s.reqCode # "ERASE" => s.buf \in Buf
  BY DEF SubReq
<1>2. a[1] \in Block \cup {NoBlock} /\ a[2] \in 0..PagesPerBlock
  BY <1>1, PageAssumption DEF Address, DmaCode, NandCode
<1>3. /\ s.reqCode \in NandCode => a[1] \in Block
      /\ s.reqCode = "WRITE" => a[2] = currentPage[a[1]] /\ a[2] < PagesPerBlock
  <2>1. CASE s.reqCode = "WRITE"
    <3>1. a[1] \in Block /\ a[2] = currentPage[a[1]] /\ Writable(a[1], s.buf)
      BY <2>1 DEF Address
    <3>2. currentPage[a[1]] < PagesPerBlock
      BY <3>1, PageAssumption DEF Writable, FreeBlock
    <3> QED BY <2>1, <3>1, <3>2
  <2>2. CASE s.reqCode = "READ"
    BY <2>2 DEF Address
  <2>3. CASE s.reqCode = "ERASE"
    BY <2>3 DEF Address
  <2> QED BY <2>1, <2>2, <2>3 DEF NandCode
<1> QED BY <1>1, <1>2, <1>3 DEF WellFormed, Request

\* Making and dispatching the next low-level request keeps the invariant.
LEMMA IssueSubReqStep ==
  ASSUME IInv, NEW r \in Req, NEW a \in (Block \cup {NoBlock}) \X (0..PagesPerBlock),
         IssueSubReq(r, a)
  PROVE  IInv'
<1> USE DEF IInv
<1> DEFINE s == Head(plan)
           q == [reqCode |-> s.reqCode, buf |-> s.buf, block |-> a[1], page |-> a[2]]
           hasPrev == s.buf # NoBuf /\ blockingReq[s.buf] # <<>>
<1>1. /\ dmaWalk.todo = <<>> /\ rowAddrWalk = <<>> /\ syncReq = NoReq /\ plan # <<>>
      /\ IF s.reqCode \in DmaCode THEN r = sliceReq ELSE r \in FreeReq
      /\ a \in Address(s)
      /\ plan' = Tail(plan)
      /\ sliceReq' = IF r = sliceReq THEN NoReq ELSE sliceReq
      /\ reqPool' = [reqPool EXCEPT ![r] = q]
      /\ blockingReq' = IF s.buf = NoBuf THEN blockingReq
                        ELSE [blockingReq EXCEPT ![s.buf] = Append(@, r)]
      /\ currentPage' = CASE s.reqCode = "WRITE" -> [currentPage EXCEPT ![a[1]] = @ + 1]
                          [] s.reqCode = "ERASE" -> [currentPage EXCEPT ![a[1]] = 0]
                          [] OTHER -> currentPage
      /\ SelectLowLevelReqQ(r, q, hasPrev)
      /\ UNCHANGED <<dirty, syncAll, dmaWalk, rowAddrWalk, dmaDone>>
  BY DEF IssueSubReq, Ready, NotWalking
<1>2. plan' \in Seq(SubReq) /\ s \in SubReq
  BY <1>1 DEF TypeOK
<1>3. /\ s.reqCode \in DmaCode \cup NandCode /\ s.buf \in Buf \cup {NoBuf}
      /\ s.reqCode # "ERASE" => s.buf \in Buf
  BY <1>2 DEF SubReq
<1> HIDE DEF s
<1>4. /\ s.reqCode \in NandCode => a[1] \in Block
      /\ s.reqCode = "WRITE" => a[2] = currentPage[a[1]] /\ a[2] < PagesPerBlock
      /\ WellFormed(q)
  BY <1>1, <1>2, SubReqWellFormed
<1>6. currentPage' \in [Block -> 0..PagesPerBlock]
  <2>1. CASE s.reqCode = "WRITE"
    <3>1. a[1] \in Block /\ currentPage[a[1]] + 1 \in 0..PagesPerBlock
      BY <1>4, <2>1, PageAssumption DEF NandCode, TypeOK
    <3> QED BY <1>1, <2>1, <3>1 DEF TypeOK
  <2>2. CASE s.reqCode = "ERASE"
    <3>1. 0 \in 0..PagesPerBlock
      BY PageAssumption
    <3>2. currentPage' = [currentPage EXCEPT ![a[1]] = 0]
      BY <1>1, <2>2
    <3> QED BY <3>1, <3>2 DEF TypeOK
  <2>3. CASE s.reqCode \notin {"WRITE", "ERASE"}
    BY <1>1, <2>3 DEF TypeOK
  <2> QED BY <2>1, <2>2, <2>3
<1> HIDE DEF q
<1>7. /\ reqQueueType[r] \in {"FREE", "SLICE"} /\ ~InQueue(r) /\ ~Outstanding(r) /\ r # NoReq
      /\ reqQueueType[r] = "SLICE" => r = sliceReq
  BY <1>1, ReqAssumption DEF FreeReq, InHandOK, InQueue, Outstanding
<1>8. QueueTypes /\ DepTypes /\ QueuesOK
  BY DEF TypeOK, QueueTypes, DepTypes
<1>9. reqPool'[r] = q /\ \A t \in Req \ {r} : reqPool'[t] = reqPool[t]
  BY <1>1 DEF TypeOK
<1>10. /\ QueueTypes' /\ DepTypes' /\ QueuesOK' /\ Outstanding(r)'
       /\ InQueue(r)' => ~hasPrev
       /\ \A t \in Req \ {r} : reqQueueType'[t] = reqQueueType[t]
       /\ \/ syncReq' = r /\ reqQueueType'[r] = "NONE" /\ q.reqCode = "READ"
          \/ syncReq' = NoReq /\ reqQueueType'[r] # "NONE"
  <2>1. CASE /\ MustSync(q) /\ syncReq' = r
             /\ reqQueueType' = [reqQueueType EXCEPT ![r] = "NONE"]
             /\ UNCHANGED <<queueVars, depVars>>
    <3>1. /\ reqQueueType' \in [Req -> QueueType] /\ reqQueueType'[r] = "NONE"
          /\ \A t \in Req \ {r} : reqQueueType'[t] = reqQueueType[t]
      BY <2>1 DEF TypeOK, QueueType
    <3>2. QueueTypes' /\ DepTypes'
      BY <1>8, <2>1, <3>1 DEF QueueTypes, DepTypes, queueVars, depVars
    <3>3. QueuesOK'
      BY <1>7, <1>9, <2>1, <3>1
      DEF QueuesOK, DmaQueueOK, NandQueuesOK, RowAddrQueuesOK, NandCodesOK, queueVars, InQueue
    <3> QED BY <2>1, <3>1, <3>2, <3>3 DEF Outstanding, InQueue, MustSync
  <2>2. CASE hasPrev /\ DispatchBufBlocked(r, q) /\ UNCHANGED syncReq
    <3>1. /\ QueueTypes' /\ DepTypes' /\ QueuesOK'
          /\ reqQueueType'[r] = "BLOCKED_BY_BUF_DEP"
          /\ \A t \in Req \ {r} : reqQueueType'[t] = reqQueueType[t]
      BY <1>4, <1>7, <1>8, <1>9, <2>2, BufBlockedStep
    <3> QED BY <1>1, <2>2, <3>1 DEF Outstanding, InQueue
  <2>3. CASE ~hasPrev /\ DispatchUnblocked(r, q) /\ UNCHANGED syncReq
    <3>1. /\ QueueTypes' /\ DepTypes' /\ QueuesOK' /\ InQueue(r)'
          /\ \A t \in Req \ {r} : reqQueueType'[t] = reqQueueType[t]
      BY <1>4, <1>7, <1>8, <1>9, <2>3, UnblockedStep
    <3> QED BY <1>1, <2>3, <3>1 DEF Outstanding, InQueue
  <2> QED BY <1>1, <2>1, <2>2, <2>3 DEF SelectLowLevelReqQ
<1>11. /\ RequestsOK' /\ WalksOK'
       /\ sliceReq' # NoReq => reqQueueType'[sliceReq'] = "SLICE"
       /\ \A t \in Req : /\ reqQueueType'[t] = "SLICE" => t = sliceReq'
                         /\ reqQueueType'[t] = "NONE" => t = syncReq'
  BY <1>1, <1>4, <1>7, <1>9, <1>10, DispatchRest
<1>12. /\ q.buf = s.buf /\ q.reqCode = s.reqCode
       /\ \A c \in Buf : blockingReq[c] \in Seq(Req) /\ r \notin ToSet(blockingReq[c])
       /\ \A c \in Buf : ToSet(blockingReq[c]) \subseteq Req
  BY <1>7 DEF q, TypeOK, ChainsOK, ToSet
<1>13. /\ blockingReq' \in [Buf -> Seq(Req)]
       /\ \A c \in Buf : IF c = s.buf
                         THEN /\ blockingReq'[c] = Append(blockingReq[c], r)
                              /\ NoDup(blockingReq'[c])
                              /\ ToSet(blockingReq'[c]) = ToSet(blockingReq[c]) \cup {r}
                         ELSE blockingReq'[c] = blockingReq[c]
  <2>1. CASE s.buf = NoBuf
    BY <1>1, <2>1, BufAssumption DEF TypeOK
  <2>2. CASE s.buf \in Buf
    <3> DEFINE w == blockingReq[s.buf]
    <3>1. w \in Seq(Req) /\ NoDup(w) /\ r \notin ToSet(w)
      BY <1>12, <2>2 DEF ChainsOK
    <3>2. blockingReq' = [blockingReq EXCEPT ![s.buf] = Append(w, r)]
      BY <1>1, <2>2, BufAssumption
    <3> HIDE DEF w
    <3>3. Append(w, r) \in Seq(Req) /\ NoDup(Append(w, r)) /\ ToSet(Append(w, r)) = ToSet(w) \cup {r}
      BY <3>1, AppendQueue
    <3> QED BY <2>2, <3>2, <3>3 DEF TypeOK, w
  <2> QED BY <1>3, <2>1, <2>2
<1>14. TypeOK'
  <2>1. sliceReq' \in Req \cup {NoReq} /\ syncReq' \in Req \cup {NoReq}
    BY <1>1, <1>10 DEF TypeOK
  <2>2. reqPool' \in [Req -> Request]
    BY <1>1, <1>4 DEF TypeOK, WellFormed
  <2> QED BY <1>1, <1>2, <1>6, <1>10, <1>13, <2>1, <2>2 DEF TypeOK, QueueTypes, DepTypes
<1>15. ChainsOK'
  <2> SUFFICES ASSUME NEW c \in Buf
               PROVE  /\ NoDup(blockingReq'[c])
                      /\ \A t \in ToSet(blockingReq'[c]) : Outstanding(t)' /\ reqPool'[t].buf = c
    BY DEF ChainsOK, Outstanding
  <2>1. \A t \in ToSet(blockingReq[c]) : Outstanding(t)' /\ reqPool'[t].buf = c
    BY <1>7, <1>9, <1>10, <1>12 DEF ChainsOK, Outstanding
  <2>2. CASE c = s.buf
    BY <1>9, <1>10, <1>12, <1>13, <2>1, <2>2
  <2>3. CASE c # s.buf
    BY <1>13, <2>1, <2>3 DEF ChainsOK
  <2> QED BY <2>2, <2>3
<1>16. BufferExclusive'
  <2> SUFFICES ASSUME NEW t \in Req, InQueue(t)', reqPool'[t].buf # NoBuf
               PROVE  /\ blockingReq'[reqPool'[t].buf] # <<>>
                      /\ Head(blockingReq'[reqPool'[t].buf]) = t
    BY DEF BufferExclusive, InQueue
  <2>1. CASE t = r
    <3>1. s.buf \in Buf /\ blockingReq[s.buf] = <<>> /\ reqPool'[t].buf = s.buf
      BY <1>3, <1>9, <1>10, <1>12, <2>1
    <3>2. blockingReq'[s.buf] = <<r>>
      BY <1>13, <3>1
    <3> QED BY <2>1, <3>1, <3>2
  <2>2. CASE t # r
    <3> DEFINE c == reqPool[t].buf
               w == blockingReq[c]
    <3>1. reqPool'[t].buf = c /\ c \in Buf /\ w # <<>> /\ Head(w) = t /\ w \in Seq(Req)
      BY <1>9, <1>10, <1>12, <2>2 DEF BufferExclusive, InQueue, TypeOK, Request
    <3>2. blockingReq'[c] \in {w, Append(w, r)}
      BY <1>13, <3>1
    <3> HIDE DEF w, c
    <3>3. Append(w, r) # <<>> /\ Head(Append(w, r)) = Head(w)
      BY <3>1
    <3> QED BY <3>1, <3>2, <3>3
  <2> QED BY <2>1, <2>2
<1>17. InHandOK'
  <2>1. syncReq' # NoReq => /\ syncReq' = r /\ reqQueueType'[r] = "NONE"
                            /\ reqPool'[r].reqCode = "READ"
                            /\ r \in ToSet(blockingReq'[reqPool'[r].buf])
    BY <1>3, <1>9, <1>10, <1>12, <1>13
  <2> QED BY <1>11, <2>1 DEF InHandOK
<1> QED BY <1>10, <1>11, <1>14, <1>15, <1>16, <1>17

-----------------------------------------------------------------------------
(* The theorems.                                                           *)

\* Every step keeps the invariant.
LEMMA StepIInv ==
  ASSUME IInv, [Next]_vars
  PROVE  IInv'
<1>1. ASSUME Frontend
      PROVE  IInv'
  BY <1>1, SliceRequestStep, GarbageCollectionStep, SyncAllStep DEF Frontend
<1>2. ASSUME NEW r \in Req, NEW a \in (Block \cup {NoBlock}) \X (0..PagesPerBlock),
             IssueSubReq(r, a)
      PROVE  IInv'
  BY <1>2, IssueSubReqStep
<1>3. CASE SyncReleaseEraseReqDone
  BY <1>3, SyncReleaseEraseReqDoneStep
<1>4. CASE SyncAllReturns
  BY <1>4, SyncAllStep
<1>5. ASSUME Hardware
      PROVE  IInv'
  BY <1>5, HostDmaDoneStep DEF Hardware
<1>6. ASSUME Poll
      PROVE  IInv'
  BY <1>6, CheckDoneNvmeDmaReqStep, VisitNvmeDmaReqStep, GetFromNandReqQStep,
     VisitRowAddrDepReqStep DEF Poll
<1>7. CASE UNCHANGED vars
  <2>1. TypeOK'
    BY <1>7 DEF IInv, TypeOK, vars, poolVars, queueVars, depVars, ftlVars, loopVars
  <2> QED BY <1>7, <2>1, SameQueues
          DEF IInv, vars, poolVars, queueVars, depVars, ftlVars, loopVars
<1> QED BY <1>1, <1>2, <1>3, <1>4, <1>5, <1>6, <1>7 DEF Next

\* IInv holds in every reachable state: it is inductive.
THEOREM IInvHolds == Spec => []IInv
<1>1. IInv /\ [Next]_vars => IInv'
  BY StepIInv
<1> QED BY <1>1, InitIInv, PTL DEF Spec

\* Type correctness.
THEOREM TypeCorrect == Spec => []TypeOK
<1>1. IInv => TypeOK
  BY DEF IInv
<1> QED BY <1>1, IInvHolds, PTL

\* Two requests for one data buffer are never in progress together: of the
\* requests that share a buffer only the oldest is past the buffer dependency
\* check (CheckBufDep, ReleaseBlockedByBufDepReq).
THEOREM BufferExclusiveHolds == Spec => []BufferExclusive
<1>1. IInv => BufferExclusive
  BY DEF IInv
<1> QED BY <1>1, IInvHolds, PTL

-----------------------------------------------------------------------------
(* The counters.                                                           *)

\* What is counted.
BlockedSet      == {r \in Req : Blocked(r)}
NandSet         == {r \in Req : reqQueueType[r] = "NAND"}
WaitingReads(k) == {r \in Req : /\ Blocked(r)
                                /\ reqPool[r].reqCode = "READ"
                                /\ reqPool[r].block = k}

\* The counters of waiting and running requests are exact.
CountsOK ==
  /\ blockedReqCnt = Cardinality(BlockedSet)
  /\ notCompletedNandReqCnt = Cardinality(NandSet)
  /\ \A k \in Block : blockedReadReqCnt[k] = Cardinality(WaitingReads(k))

\* The invariant on the counters is the conjunction of the two checked ones.
LEMMA CountsMeaning == CountsOK <=> CountersExact /\ BlockedReadsCounted
BY DEF CountsOK, CountersExact, BlockedReadsCounted, BlockedSet, NandSet, WaitingReads

\* The sets that are counted are finite, Req being finite.
LEMMA CountedFinite ==
  /\ IsFiniteSet(BlockedSet) /\ IsFiniteSet(NandSet)
  /\ \A k : IsFiniteSet(WaitingReads(k))
BY ReqAssumption, FS_Subset DEF BlockedSet, NandSet, WaitingReads

-----------------------------------------------------------------------------
(* What entering and leaving a queue does to the counts.                   *)

\* No request starts or ceases to be blocked or to be in a NAND queue.
LEMMA SameCounts ==
  ASSUME CountsOK,
         \A s \in Req : \/ reqQueueType'[s] = reqQueueType[s] /\ reqPool'[s] = reqPool[s]
                        \/ /\ ~Blocked(s) /\ ~Blocked(s)'
                           /\ reqQueueType[s] # "NAND" /\ reqQueueType'[s] # "NAND",
         UNCHANGED <<blockedReqCnt, notCompletedNandReqCnt>>,
         \A k \in Block : blockedReadReqCnt'[k] = blockedReadReqCnt[k]
  PROVE  CountsOK'
<1>1. BlockedSet' = BlockedSet
  BY DEF BlockedSet, Blocked
<1>2. NandSet' = NandSet
  BY DEF NandSet
<1>3. \A k \in Block : WaitingReads(k)' = WaitingReads(k)
  BY DEF WaitingReads, Blocked
<1> QED BY <1>1, <1>2, <1>3 DEF CountsOK

\* Request r starts to wait.
LEMMA EnterBlocked ==
  ASSUME CountsOK, DepTypes, NEW r \in Req, ~Blocked(r), reqQueueType[r] # "NAND",
         NEW q, WellFormed(q), reqPool'[r] = q,
         \A s \in Req \ {r} : reqPool'[s] = reqPool[s] /\ reqQueueType'[s] = reqQueueType[s],
         reqQueueType'[r] \in {"BLOCKED_BY_BUF_DEP", "BLOCKED_BY_ROW_ADDR_DEP"},
         blockedReqCnt' = blockedReqCnt + 1, UNCHANGED notCompletedNandReqCnt,
         \/ q.reqCode \in NandCode /\ UpdateTableBlocked(q)
         \/ q.reqCode \in DmaCode /\ UNCHANGED depVars
  PROVE  CountsOK'
<1>1. BlockedSet' = BlockedSet \cup {r} /\ r \notin BlockedSet
  BY DEF BlockedSet, Blocked
<1>2. NandSet' = NandSet
  BY DEF NandSet
<1>3. ASSUME NEW k \in Block
      PROVE  blockedReadReqCnt'[k] = Cardinality(WaitingReads(k)')
  <2>1. CASE q.reqCode = "READ" /\ q.block = k
    <3>1. WaitingReads(k)' = WaitingReads(k) \cup {r} /\ r \notin WaitingReads(k)
      BY <2>1 DEF WaitingReads, Blocked
    <3>2. blockedReadReqCnt'[k] = blockedReadReqCnt[k] + 1
      BY <2>1 DEF UpdateTableBlocked, DepTypes, DmaCode
    <3>3. blockedReadReqCnt[k] = Cardinality(WaitingReads(k))
      BY DEF CountsOK
    <3>4. Cardinality(WaitingReads(k) \cup {r}) = Cardinality(WaitingReads(k)) + 1
      BY <3>1, CountedFinite, FS_AddElement
    <3> QED BY <3>1, <3>2, <3>3, <3>4
  <2>2. CASE ~(q.reqCode = "READ" /\ q.block = k)
    <3>1. WaitingReads(k)' = WaitingReads(k)
      BY <2>2 DEF WaitingReads, Blocked
    <3>2. blockedReadReqCnt'[k] = blockedReadReqCnt[k]
      BY <2>2 DEF UpdateTableBlocked, DepTypes, depVars
    <3> QED BY <3>1, <3>2 DEF CountsOK
  <2> QED BY <2>1, <2>2
<1>4. Cardinality(BlockedSet \cup {r}) = Cardinality(BlockedSet) + 1
  BY <1>1, CountedFinite, FS_AddElement
<1> QED BY <1>1, <1>2, <1>3, <1>4 DEF CountsOK

\* Request r, in no counted queue, is dispatched.
LEMMA UnblockedCounts ==
  ASSUME TypeOK, CountsOK, NEW r \in Req, ~Blocked(r), reqQueueType[r] # "NAND",
         NEW q, WellFormed(q), reqPool'[r] = q,
         \A s \in Req \ {r} : reqPool'[s] = reqPool[s],
         DispatchUnblocked(r, q)
  PROVE  CountsOK'
<1>1. CASE q.reqCode \in DmaCode /\ PutToNvmeDmaReqQ(r) /\ UNCHANGED depVars
  <2>1. /\ reqQueueType'[r] = "NVME_DMA"
        /\ \A s \in Req \ {r} : reqQueueType'[s] = reqQueueType[s]
        /\ UNCHANGED <<blockedReqCnt, notCompletedNandReqCnt, blockedReadReqCnt>>
    BY <1>1 DEF PutToNvmeDmaReqQ, TypeOK, depVars
  <2> QED BY <2>1, SameCounts DEF Blocked
<1>2. CASE /\ q.reqCode \in NandCode /\ PassRowAddrDep(q)
           /\ UpdateTablePassed(q, FALSE) /\ PutToNandReqQ(r, DieOfReq(q))
  <2>1. /\ reqQueueType'[r] = "NAND"
        /\ \A s \in Req \ {r} : reqQueueType'[s] = reqQueueType[s]
        /\ notCompletedNandReqCnt' = notCompletedNandReqCnt + 1
        /\ blockedReqCnt' = blockedReqCnt
    BY <1>2 DEF PutToNandReqQ, TypeOK
  <2>2. \A k \in Block : blockedReadReqCnt'[k] = blockedReadReqCnt[k]
    BY <1>2 DEF UpdateTablePassed, TypeOK
  <2>3. BlockedSet' = BlockedSet /\ \A k \in Block : WaitingReads(k)' = WaitingReads(k)
    BY <2>1 DEF BlockedSet, WaitingReads, Blocked
  <2>4. NandSet' = NandSet \cup {r} /\ r \notin NandSet
    BY <2>1 DEF NandSet
  <2>5. Cardinality(NandSet \cup {r}) = Cardinality(NandSet) + 1
    BY <2>4, CountedFinite, FS_AddElement
  <2> QED BY <2>1, <2>2, <2>3, <2>4, <2>5 DEF CountsOK
<1>3. CASE /\ q.reqCode \in NandCode /\ ~PassRowAddrDep(q)
           /\ UpdateTableBlocked(q) /\ PutToBlockedByRowAddrDepReqQ(r, DieOfReq(q))
  <2>1. /\ reqQueueType'[r] = "BLOCKED_BY_ROW_ADDR_DEP"
        /\ \A s \in Req \ {r} : reqQueueType'[s] = reqQueueType[s]
        /\ blockedReqCnt' = blockedReqCnt + 1
        /\ notCompletedNandReqCnt' = notCompletedNandReqCnt
    BY <1>3 DEF PutToBlockedByRowAddrDepReqQ, TypeOK
  <2> QED BY <1>3, <2>1, EnterBlocked DEF TypeOK, DepTypes
<1> QED BY <1>1, <1>2, <1>3 DEF DispatchUnblocked

\* A request blocked by its buffer is counted once.
LEMMA BufBlockedCounts ==
  ASSUME TypeOK, CountsOK, NEW r \in Req, ~Blocked(r), reqQueueType[r] # "NAND",
         NEW q, WellFormed(q), reqPool'[r] = q,
         \A s \in Req \ {r} : reqPool'[s] = reqPool[s],
         DispatchBufBlocked(r, q)
  PROVE  CountsOK'
<1>1. /\ reqQueueType'[r] = "BLOCKED_BY_BUF_DEP"
      /\ \A s \in Req \ {r} : reqQueueType'[s] = reqQueueType[s]
      /\ blockedReqCnt' = blockedReqCnt + 1
      /\ notCompletedNandReqCnt' = notCompletedNandReqCnt
      /\ \/ q.reqCode \in NandCode /\ UpdateTableBlocked(q)
         \/ q.reqCode \in DmaCode /\ UNCHANGED depVars
  BY DEF DispatchBufBlocked, PutToBlockedByBufDepReqQ, TypeOK
<1> QED BY <1>1, EnterBlocked DEF TypeOK, DepTypes

\* Request t waited, and goes on to a queue where it does not wait.
LEMMA LeaveBlocked ==
  ASSUME CountsOK, DepTypes, NEW t \in Req, Blocked(t), WellFormed(reqPool[t]),
         \/ /\ reqPool[t].reqCode \in DmaCode
            /\ UNCHANGED depVars
         \/ UpdateTablePassed(reqPool[t], TRUE),
         ~Blocked(t)',
         \A s \in Req \ {t} :
           \/ reqQueueType'[s] = reqQueueType[s] /\ reqPool'[s] = reqPool[s]
           \/ ~Blocked(s) /\ ~Blocked(s)',
         blockedReqCnt' = blockedReqCnt - 1
  PROVE  /\ blockedReqCnt' = Cardinality(BlockedSet')
         /\ \A k \in Block : blockedReadReqCnt'[k] = Cardinality(WaitingReads(k)')
<1>1. BlockedSet' = BlockedSet \ {t} /\ t \in BlockedSet
  BY DEF BlockedSet, Blocked
<1>2. Cardinality(BlockedSet \ {t}) = Cardinality(BlockedSet) - 1
  BY <1>1, CountedFinite, FS_RemoveElement
<1>3. ASSUME NEW k \in Block
      PROVE  blockedReadReqCnt'[k] = Cardinality(WaitingReads(k)')
  <2>1. CASE reqPool[t].reqCode = "READ" /\ reqPool[t].block = k
    <3>1. WaitingReads(k)' = WaitingReads(k) \ {t} /\ t \in WaitingReads(k)
      BY <2>1 DEF WaitingReads, Blocked
    <3>2. blockedReadReqCnt'[k] = blockedReadReqCnt[k] - 1
      BY <2>1 DEF UpdateTablePassed, DepTypes, DmaCode
    <3>3. blockedReadReqCnt[k] = Cardinality(WaitingReads(k))
      BY DEF CountsOK
    <3> QED BY <3>1, <3>2, <3>3, CountedFinite, FS_RemoveElement
  <2>2. CASE ~(reqPool[t].reqCode = "READ" /\ reqPool[t].block = k)
    <3>1. WaitingReads(k)' = WaitingReads(k)
      BY <2>2 DEF WaitingReads, Blocked
    <3>2. blockedReadReqCnt'[k] = blockedReadReqCnt[k]
      BY <2>2 DEF UpdateTablePassed, DepTypes, depVars
    <3> QED BY <3>1, <3>2 DEF CountsOK
  <2> QED BY <2>1, <2>2
<1> QED BY <1>1, <1>2, <1>3 DEF CountsOK

\* Request r is released, and the request behind it with it.
LEMMA ReleaseCounts ==
  ASSUME IInv, CountsOK, NEW r \in Req, reqQueueType[r] \in {"NVME_DMA", "NAND"},
         NEW dmaQ, NEW nandQ, NEW nandCnt,
         nandCnt = IF reqQueueType[r] = "NAND" THEN notCompletedNandReqCnt - 1
                   ELSE notCompletedNandReqCnt,
         ReleaseBlockedByBufDepReq(r, dmaQ, nandQ, nandCnt)
  PROVE  CountsOK'
<1> DEFINE target == NextBlockingReq(r)
           q == reqPool[target]
           wakes == target # NoReq /\ reqQueueType[target] = "BLOCKED_BY_BUF_DEP"
<1>1. \/ /\ ~wakes
         /\ reqQueueType' = [reqQueueType EXCEPT ![r] = "FREE"]
         /\ notCompletedNandReqCnt' = nandCnt
         /\ UNCHANGED <<blockedReqCnt, depVars>>
      \/ /\ wakes
         /\ q.reqCode \in DmaCode
         /\ reqQueueType' = [reqQueueType EXCEPT ![r] = "FREE", ![target] = "NVME_DMA"]
         /\ notCompletedNandReqCnt' = nandCnt
         /\ blockedReqCnt' = blockedReqCnt - 1
         /\ UNCHANGED depVars
      \/ /\ wakes
         /\ UpdateTablePassed(q, TRUE)
         /\ reqQueueType' = [reqQueueType EXCEPT ![r] = "FREE", ![target] = "NAND"]
         /\ notCompletedNandReqCnt' = nandCnt + 1
         /\ blockedReqCnt' = blockedReqCnt - 1
      \/ /\ wakes
         /\ reqQueueType' =
              [reqQueueType EXCEPT ![r] = "FREE", ![target] = "BLOCKED_BY_ROW_ADDR_DEP"]
         /\ notCompletedNandReqCnt' = nandCnt
         /\ UNCHANGED <<blockedReqCnt, depVars>>
  BY DEF ReleaseBlockedByBufDepReq
<1>2. \A s \in Req \ {r} : reqPool'[s] = reqPool[s]
  BY DEF ReleaseBlockedByBufDepReq, IInv, TypeOK
<1>3. wakes => target \in Req /\ target # r /\ WellFormed(q)
  <2> SUFFICES ASSUME wakes PROVE target \in Req /\ target # r /\ WellFormed(q)
    OBVIOUS
  <2>1. /\ reqPool[r].buf \in Buf /\ Len(blockingReq[reqPool[r].buf]) > 1
        /\ target = blockingReq[reqPool[r].buf][2]
    BY DEF NextBlockingReq, IInv, TypeOK, Request
  <2>2. target \in Req
    BY <2>1 DEF IInv, TypeOK
  <2> QED BY <2>2 DEF IInv, RequestsOK, Outstanding
<1> HIDE DEF target, q
<1>4. nandCnt = Cardinality(NandSet \ {r}) /\ IsFiniteSet(NandSet \ {r})
  <2>1. r \in NandSet <=> reqQueueType[r] = "NAND"
    BY DEF NandSet
  <2> QED BY <2>1, CountedFinite, FS_RemoveElement DEF CountsOK
<1>5. reqQueueType \in [Req -> QueueType] /\ DepTypes
  BY DEF IInv, TypeOK, DepTypes
<1>6. CASE /\ ~wakes
           /\ reqQueueType' = [reqQueueType EXCEPT ![r] = "FREE"]
           /\ notCompletedNandReqCnt' = nandCnt
           /\ UNCHANGED <<blockedReqCnt, depVars>>
  <2>1. reqQueueType'[r] = "FREE" /\ \A s \in Req \ {r} : reqQueueType'[s] = reqQueueType[s]
    BY <1>5, <1>6
  <2>2. BlockedSet' = BlockedSet /\ \A k \in Block : WaitingReads(k)' = WaitingReads(k)
    BY <1>2, <2>1 DEF BlockedSet, WaitingReads, Blocked
  <2>3. NandSet' = NandSet \ {r}
    BY <2>1 DEF NandSet
  <2> QED BY <1>4, <1>6, <2>2, <2>3 DEF CountsOK, depVars
<1>7. CASE /\ wakes
           /\ q.reqCode \in DmaCode
           /\ reqQueueType' = [reqQueueType EXCEPT ![r] = "FREE", ![target] = "NVME_DMA"]
           /\ notCompletedNandReqCnt' = nandCnt
           /\ blockedReqCnt' = blockedReqCnt - 1
           /\ UNCHANGED depVars
  <2>1. /\ reqQueueType'[r] = "FREE" /\ reqQueueType'[target] = "NVME_DMA"
        /\ \A s \in Req \ {r, target} : reqQueueType'[s] = reqQueueType[s]
    BY <1>3, <1>5, <1>7
  <2>2. NandSet' = NandSet \ {r}
    BY <1>3, <1>7, <2>1 DEF NandSet
  <2>3. PICK t \in Req : t = target
    BY <1>3, <1>7
  <2>4. /\ Blocked(t) /\ ~Blocked(t)' /\ t # r
        /\ \A s \in Req \ {t} :
             \/ reqQueueType'[s] = reqQueueType[s] /\ reqPool'[s] = reqPool[s]
             \/ ~Blocked(s) /\ ~Blocked(s)'
    BY <1>2, <1>3, <1>7, <2>1, <2>3 DEF Blocked
  <2>5. /\ blockedReqCnt' = Cardinality(BlockedSet')
        /\ \A k \in Block : blockedReadReqCnt'[k] = Cardinality(WaitingReads(k)')
    BY <1>3, <1>5, <1>7, <2>3, <2>4, LeaveBlocked DEF q
  <2> QED BY <1>4, <1>7, <2>2, <2>5 DEF CountsOK
<1>8. CASE /\ wakes
           /\ UpdateTablePassed(q, TRUE)
           /\ reqQueueType' = [reqQueueType EXCEPT ![r] = "FREE", ![target] = "NAND"]
           /\ notCompletedNandReqCnt' = nandCnt + 1
           /\ blockedReqCnt' = blockedReqCnt - 1
  <2>1. /\ reqQueueType'[r] = "FREE" /\ reqQueueType'[target] = "NAND"
        /\ \A s \in Req \ {r, target} : reqQueueType'[s] = reqQueueType[s]
    BY <1>3, <1>5, <1>8
  <2>2. NandSet' = (NandSet \ {r}) \cup {target} /\ target \notin NandSet \ {r}
    BY <1>3, <1>8, <2>1 DEF NandSet
  <2>3. Cardinality(NandSet') = Cardinality(NandSet \ {r}) + 1
    BY <1>4, <2>2, FS_AddElement
  <2>4. PICK t \in Req : t = target
    BY <1>3, <1>8
  <2>5. /\ Blocked(t) /\ ~Blocked(t)' /\ t # r
        /\ \A s \in Req \ {t} :
             \/ reqQueueType'[s] = reqQueueType[s] /\ reqPool'[s] = reqPool[s]
             \/ ~Blocked(s) /\ ~Blocked(s)'
    BY <1>2, <1>3, <1>8, <2>1, <2>4 DEF Blocked
  <2>6. /\ blockedReqCnt' = Cardinality(BlockedSet')
        /\ \A k \in Block : blockedReadReqCnt'[k] = Cardinality(WaitingReads(k)')
    BY <1>3, <1>5, <1>8, <2>4, <2>5, LeaveBlocked DEF q
  <2> QED BY <1>4, <1>8, <2>3, <2>6 DEF CountsOK
<1>9. CASE /\ wakes
           /\ reqQueueType' =
                [reqQueueType EXCEPT ![r] = "FREE", ![target] = "BLOCKED_BY_ROW_ADDR_DEP"]
           /\ notCompletedNandReqCnt' = nandCnt
           /\ UNCHANGED <<blockedReqCnt, depVars>>
  <2>1. /\ reqQueueType'[r] = "FREE" /\ reqQueueType'[target] = "BLOCKED_BY_ROW_ADDR_DEP"
        /\ \A s \in Req \ {r, target} : reqQueueType'[s] = reqQueueType[s]
    BY <1>3, <1>5, <1>9
  <2>2. NandSet' = NandSet \ {r}
    BY <1>3, <1>9, <2>1 DEF NandSet
  <2>3. \A s \in Req : /\ Blocked(s)' <=> Blocked(s)
                       /\ Blocked(s) => reqPool'[s] = reqPool[s]
    BY <1>2, <1>9, <2>1 DEF Blocked
  <2>4. BlockedSet' = BlockedSet /\ \A k \in Block : WaitingReads(k)' = WaitingReads(k)
    BY <2>3 DEF BlockedSet, WaitingReads
  <2> QED BY <1>4, <1>9, <2>2, <2>4 DEF CountsOK, depVars
<1> QED BY <1>1, <1>6, <1>7, <1>8, <1>9

-----------------------------------------------------------------------------
(* The actions.                                                            *)

\* An iteration of CheckDoneNvmeDmaReq keeps the counters exact.
LEMMA VisitNvmeDmaReqCounts ==
  ASSUME IInv, CountsOK, VisitNvmeDmaReq
  PROVE  CountsOK'
<1> DEFINE r == dmaWalk.todo[Len(dmaWalk.todo)]
<1>1. \/ ReleaseBlockedByBufDepReq(r, Without(nvmeDmaReqQ, r), nandReqQ, notCompletedNandReqCnt)
      \/ UNCHANGED <<poolVars, queueVars, depVars, dmaDone>>
  BY DEF VisitNvmeDmaReq
<1>2. r \in Req /\ reqQueueType[r] = "NVME_DMA"
  <2> DEFINE todo == dmaWalk.todo
  <2>1. /\ todo \in Seq(Req) /\ NoDup(todo) /\ todo # <<>>
        /\ \A s \in ToSet(todo) : reqQueueType[s] = "NVME_DMA"
    BY DEF VisitNvmeDmaReq, IInv, TypeOK, WalksOK
  <2> HIDE DEF todo
  <2>2. todo[Len(todo)] \in Req /\ todo[Len(todo)] \in ToSet(todo)
    BY <2>1, FrontQueue
  <2> QED BY <2>1, <2>2 DEF todo
<1>3. PICK u \in Req : u = r
  BY <1>2
<1> HIDE DEF r
<1>4. CASE ReleaseBlockedByBufDepReq(r, Without(nvmeDmaReqQ, r), nandReqQ, notCompletedNandReqCnt)
  BY <1>2, <1>3, <1>4, ReleaseCounts
<1>5. CASE UNCHANGED <<poolVars, queueVars, depVars, dmaDone>>
  BY <1>5, SameCounts DEF poolVars, queueVars, depVars
<1> QED BY <1>1, <1>4, <1>5

\* The completion of a flash operation keeps the counters exact.
LEMMA GetFromNandReqQCounts ==
  ASSUME IInv, CountsOK, NEW d \in Die, GetFromNandReqQ(d)
  PROVE  CountsOK'
<1> DEFINE s0 == nandReqQ[d]
<1>1. /\ s0 # <<>>
      /\ ReleaseBlockedByBufDepReq(Head(s0), nvmeDmaReqQ, [nandReqQ EXCEPT ![d] = Tail(@)],
                                   notCompletedNandReqCnt - 1)
  BY DEF GetFromNandReqQ
<1>2. s0 \in Seq(Req) /\ NoDup(s0)
  BY DEF IInv, TypeOK, QueuesOK, NandQueuesOK
<1>3. Head(s0) \in Req /\ Head(s0) \in ToSet(s0)
  <2> HIDE DEF s0
  <2> QED BY <1>1, <1>2, TailQueue
<1>4. reqQueueType[Head(s0)] = "NAND"
  BY <1>3 DEF IInv, QueuesOK, NandQueuesOK
<1>5. PICK u \in Req : u = Head(s0)
  BY <1>3
<1> HIDE DEF s0
<1> QED BY <1>1, <1>4, <1>5, ReleaseCounts

\* An iteration of ReleaseBlockedByRowAddrDepReq keeps the counters exact.
LEMMA VisitRowAddrDepReqCounts ==
  ASSUME IInv, CountsOK, VisitRowAddrDepReq
  PROVE  CountsOK'
<1>1. Head(rowAddrWalk) \in Req /\ reqQueueType[Head(rowAddrWalk)] = "BLOCKED_BY_ROW_ADDR_DEP"
  <2>1. /\ rowAddrWalk \in Seq(Req) /\ NoDup(rowAddrWalk) /\ rowAddrWalk # <<>>
        /\ \A s \in ToSet(rowAddrWalk) : reqQueueType[s] = "BLOCKED_BY_ROW_ADDR_DEP"
    BY DEF VisitRowAddrDepReq, IInv, TypeOK, WalksOK
  <2> QED BY <2>1, TailQueue
<1>2. PICK r \in Req : r = Head(rowAddrWalk)
  BY <1>1
<1>3. /\ reqPool' = reqPool
      /\ \/ /\ UpdateTablePassed(reqPool[r], TRUE)
            /\ reqQueueType' = [reqQueueType EXCEPT ![r] = "NAND"]
            /\ notCompletedNandReqCnt' = notCompletedNandReqCnt + 1
            /\ blockedReqCnt' = blockedReqCnt - 1
         \/ UNCHANGED <<reqQueueType, queueVars, depVars>>
  BY <1>2 DEF VisitRowAddrDepReq
<1>4. CASE UNCHANGED <<reqQueueType, queueVars, depVars>>
  BY <1>3, <1>4, SameCounts DEF queueVars, depVars
<1>5. CASE /\ UpdateTablePassed(reqPool[r], TRUE)
           /\ reqQueueType' = [reqQueueType EXCEPT ![r] = "NAND"]
           /\ notCompletedNandReqCnt' = notCompletedNandReqCnt + 1
           /\ blockedReqCnt' = blockedReqCnt - 1
  <2>1. reqQueueType'[r] = "NAND" /\ \A s \in Req \ {r} : reqQueueType'[s] = reqQueueType[s]
    BY <1>5 DEF IInv, TypeOK
  <2>2. NandSet' = NandSet \cup {r} /\ r \notin NandSet
    BY <1>1, <1>2, <2>1 DEF NandSet
  <2>3. Cardinality(NandSet') = Cardinality(NandSet) + 1
    BY <2>2, CountedFinite, FS_AddElement
  <2>4. /\ DepTypes /\ Blocked(r) /\ WellFormed(reqPool[r]) /\ ~Blocked(r)'
    BY <1>1, <1>2, <2>1 DEF IInv, TypeOK, DepTypes, RequestsOK, Outstanding, Blocked
  <2>5. /\ blockedReqCnt' = Cardinality(BlockedSet')
        /\ \A k \in Block : blockedReadReqCnt'[k] = Cardinality(WaitingReads(k)')
    BY <1>3, <1>5, <2>1, <2>4, LeaveBlocked
  <2> QED BY <1>5, <2>3, <2>5 DEF CountsOK
<1> QED BY <1>3, <1>4, <1>5

\* The dispatch after SyncReleaseEraseReq keeps the counters exact.
LEMMA SyncReleaseEraseReqDoneCounts ==
  ASSUME IInv, CountsOK, SyncReleaseEraseReqDone
  PROVE  CountsOK'
<1>1. PICK r \in Req : r = syncReq /\ syncReq # NoReq
  BY DEF SyncReleaseEraseReqDone, IInv, TypeOK
<1>2. /\ reqPool' = reqPool
      /\ DispatchUnblocked(r, reqPool[r]) \/ DispatchBufBlocked(r, reqPool[r])
  BY <1>1 DEF SyncReleaseEraseReqDone
<1>3. reqQueueType[r] = "NONE" /\ WellFormed(reqPool[r])
  BY <1>1 DEF IInv, InHandOK, RequestsOK, Outstanding
<1>4. ~Blocked(r) /\ TypeOK
  BY <1>3 DEF Blocked, IInv
<1>5. CASE DispatchUnblocked(r, reqPool[r])
  BY <1>2, <1>3, <1>4, <1>5, UnblockedCounts
<1>6. CASE DispatchBufBlocked(r, reqPool[r])
  BY <1>2, <1>3, <1>4, <1>6, BufBlockedCounts
<1> QED BY <1>2, <1>5, <1>6

\* Making and dispatching a low-level request keeps the counters exact.
LEMMA IssueSubReqCounts ==
  ASSUME IInv, CountsOK, NEW r \in Req, NEW a \in (Block \cup {NoBlock}) \X (0..PagesPerBlock),
         IssueSubReq(r, a)
  PROVE  CountsOK'
<1> DEFINE s == Head(plan)
           q == [reqCode |-> s.reqCode, buf |-> s.buf, block |-> a[1], page |-> a[2]]
           hasPrev == s.buf # NoBuf /\ blockingReq[s.buf] # <<>>
<1>1. /\ plan # <<>> /\ a \in Address(s)
      /\ IF s.reqCode \in DmaCode THEN r = sliceReq ELSE r \in FreeReq
      /\ reqPool' = [reqPool EXCEPT ![r] = q]
      /\ SelectLowLevelReqQ(r, q, hasPrev)
  BY DEF IssueSubReq
<1>2. TypeOK /\ WellFormed(q)
  <2>1. TypeOK /\ s \in SubReq
    <3>1. TypeOK
      BY DEF IInv
    <3>2. plan \in Seq(SubReq)
      BY <3>1 DEF TypeOK
    <3> QED BY <1>1, <3>1, <3>2
  <2> HIDE DEF s
  <2> QED BY <1>1, <2>1, SubReqWellFormed
<1> HIDE DEF q, s
<1>3. /\ reqQueueType[r] \in {"FREE", "SLICE"} /\ reqQueueType[r] # "NAND" /\ ~Blocked(r)
      /\ reqPool'[r] = q /\ \A t \in Req \ {r} : reqPool'[t] = reqPool[t]
  BY <1>1, <1>2, ReqAssumption DEF FreeReq, IInv, InHandOK, Blocked, TypeOK
<1>4. CASE /\ reqQueueType' = [reqQueueType EXCEPT ![r] = "NONE"]
           /\ UNCHANGED <<queueVars, depVars>>
  <2>1. reqQueueType'[r] = "NONE" /\ \A t \in Req \ {r} : reqQueueType'[t] = reqQueueType[t]
    BY <1>2, <1>4 DEF TypeOK
  <2> QED BY <1>3, <1>4, <2>1, SameCounts DEF queueVars, depVars, Blocked
<1>5. CASE DispatchBufBlocked(r, q)
  BY <1>2, <1>3, <1>5, BufBlockedCounts
<1>6. CASE DispatchUnblocked(r, q)
  BY <1>2, <1>3, <1>6, UnblockedCounts
<1> QED BY <1>1, <1>4, <1>5, <1>6 DEF SelectLowLevelReqQ

\* New slice requests, garbage collections and syncs keep the counters exact.
LEMMA FrontendCounts ==
  ASSUME IInv, CountsOK, Frontend
  PROVE  CountsOK'
<1>1. ASSUME NEW r \in Req, NEW b \in HostBuf, NEW code \in HostCode,
             NEW hit \in BOOLEAN, NEW fill \in BOOLEAN, SliceRequest(r, b, code, hit, fill)
      PROVE  CountsOK'
  <2>1. /\ reqQueueType[r] = "FREE" /\ reqQueueType'[r] = "SLICE"
        /\ \A t \in Req \ {r} : reqQueueType'[t] = reqQueueType[t]
        /\ UNCHANGED <<reqPool, queueVars, depVars>>
    BY <1>1 DEF SliceRequest, FreeReq, IInv, TypeOK
  <2> QED BY <2>1, SameCounts DEF queueVars, depVars, Blocked
<1>2. ASSUME NEW d \in Die, NEW t \in TempBuf, NEW copies \in 0..MaxGcCopies,
             GarbageCollection(d, t, copies)
      PROVE  CountsOK'
  BY <1>2, SameCounts DEF GarbageCollection, poolVars, queueVars, depVars
<1>3. CASE SyncAllLowLevelReqDone
  BY <1>3, SameCounts DEF SyncAllLowLevelReqDone, poolVars, queueVars, depVars
<1> QED BY <1>1, <1>2, <1>3 DEF Frontend

\* Steps that move no request keep the counters exact.
LEMMA NoMoveCounts ==
  ASSUME CountsOK, UNCHANGED <<poolVars, queueVars, depVars>>
  PROVE  CountsOK'
BY SameCounts DEF poolVars, queueVars, depVars

-----------------------------------------------------------------------------
\* The counts are exact in every reachable state.
THEOREM CountsHold == Spec => []CountsOK
<1>1. Init => CountsOK
  <2> SUFFICES ASSUME Init PROVE CountsOK
    OBVIOUS
  <2>1. \A r \in Req : reqQueueType[r] = "FREE"
    BY DEF Init
  <2>2. BlockedSet = {} /\ NandSet = {} /\ \A k : WaitingReads(k) = {}
    BY <2>1 DEF BlockedSet, NandSet, WaitingReads, Blocked
  <2>3. blockedReqCnt = 0 /\ notCompletedNandReqCnt = 0 /\ \A k \in Block : blockedReadReqCnt[k] = 0
    BY DEF Init
  <2> QED BY <2>2, <2>3, FS_EmptySet DEF CountsOK
<1>2. IInv /\ CountsOK /\ [Next]_vars => CountsOK'
  <2> SUFFICES ASSUME IInv, CountsOK, [Next]_vars PROVE CountsOK'
    OBVIOUS
  <2>1. CASE Frontend
    BY <2>1, FrontendCounts
  <2>2. ASSUME NEW r \in Req, NEW a \in (Block \cup {NoBlock}) \X (0..PagesPerBlock),
               IssueSubReq(r, a)
        PROVE  CountsOK'
    BY <2>2, IssueSubReqCounts
  <2>3. CASE SyncReleaseEraseReqDone
    BY <2>3, SyncReleaseEraseReqDoneCounts
  <2>4. CASE SyncAllReturns
    BY <2>4, NoMoveCounts DEF SyncAllReturns
  <2>5. CASE Hardware
    BY <2>5, NoMoveCounts DEF Hardware, HostDmaDone
  <2>6. CASE Poll
    <3>2. CASE CheckDoneNvmeDmaReq
      BY <3>2, NoMoveCounts DEF CheckDoneNvmeDmaReq
    <3> QED BY <2>6, <3>2, VisitNvmeDmaReqCounts, GetFromNandReqQCounts,
                VisitRowAddrDepReqCounts DEF Poll
  <2>7. CASE UNCHANGED vars
    BY <2>7, NoMoveCounts DEF vars
  <2> QED BY <2>1, <2>2, <2>3, <2>4, <2>5, <2>6, <2>7 DEF Next
<1> QED BY <1>1, <1>2, IInvHolds, PTL DEF Spec

\* blockedReqCnt and notCompletedNandReqCnt are the lengths of the queues they
\* stand for (PutTo..., SelectiveGetFrom... of request_allocation.c).
THEOREM CountersExactHolds == Spec => []CountersExact
<1>1. CountsOK => CountersExact
  BY CountsMeaning
<1> QED BY <1>1, CountsHold, PTL

\* blockedReadReqCnt is the number of reads of a block that wait in either
\* blocked queue (CheckRowAddrDep, UpdateRowAddrDepTableForBufBlockedReq).
THEOREM BlockedReadsCountedHolds == Spec => []BlockedReadsCounted
<1>1. CountsOK => BlockedReadsCounted
  BY CountsMeaning
<1> QED BY <1>1, CountsHold, PTL

\* When the three conditions SyncAllLowLevelReqDone polls hold and no request is
\* held up in SyncReleaseEraseReq, every request has been completed.
THEOREM DrainedMeansEmptyHolds == Spec => []DrainedMeansEmpty
<1>1. IInv /\ CountsOK => DrainedMeansEmpty
  <2> SUFFICES ASSUME IInv, CountsOK, nvmeDmaReqQ = <<>>, notCompletedNandReqCnt = 0,
                      blockedReqCnt = 0, syncReq = NoReq, NEW r \in Req
               PROVE  ~Outstanding(r)
    BY DEF DrainedMeansEmpty
  <2>1. BlockedSet = {} /\ NandSet = {}
    BY CountedFinite, FS_EmptySet DEF CountsOK
  <2>2. reqQueueType[r] # "NVME_DMA"
    BY EmptyQueue DEF IInv, QueuesOK, DmaQueueOK
  <2>3. reqQueueType[r] # "NAND" /\ ~Blocked(r)
    BY <2>1 DEF BlockedSet, NandSet
  <2>4. reqQueueType[r] # "NONE"
    BY ReqAssumption DEF IInv, InHandOK
  <2>5. reqQueueType[r] \in QueueType
    BY DEF IInv, TypeOK
  <2> QED BY <2>2, <2>3, <2>4, <2>5 DEF Outstanding, Blocked, QueueType
<1> QED BY <1>1, IInvHolds, CountsHold, PTL

-----------------------------------------------------------------------------
(* What a step does to the requests.                                       *)

\* Writes and erases change what the row address table permits.
Changing == {"WRITE", "ERASE"}

\* The queue of a die when request l has left it.
Rest(d, l) == IF nandReqQ[d] # <<>> /\ Head(nandReqQ[d]) = l THEN Tail(nandReqQ[d]) ELSE nandReqQ[d]

\* Request l leaves the queue it is in for the pool.
Leaves(l) ==
  /\ reqQueueType[l] \in {"NVME_DMA", "NAND"} /\ reqQueueType'[l] = "FREE"
  /\ reqQueueType[l] = "NAND" =>
       LET d == DieOfReq(reqPool[l]) IN nandReqQ[d] # <<>> /\ Head(nandReqQ[d]) = l

\* Request t may leave for a queue: a new one on its own, unless
\* SyncReleaseEraseReq must hold it up, the one it holds up when the flag of
\* its block is down, one blocked by its buffer when l frees that, one blocked
\* by its row address when it passes.
ComesFrom(t, l) ==
  \/ /\ ~Outstanding(t) /\ l = NoReq /\ syncReq = NoReq
     /\ reqQueueType'[t] # "NONE" => ~MustSync(reqPool'[t])
  \/ /\ reqQueueType[t] = "NONE" /\ l = NoReq /\ t = syncReq /\ reqQueueType'[t] # "NONE"
     /\ ~blockedEraseReqFlag[reqPool[t].block]
  \/ /\ reqQueueType[t] = "BLOCKED_BY_BUF_DEP" /\ l \in Req
     /\ reqQueueType'[t] \in {"NVME_DMA", "NAND", "BLOCKED_BY_ROW_ADDR_DEP"}
  \/ reqQueueType[t] = "BLOCKED_BY_ROW_ADDR_DEP" /\ l = NoReq /\ reqQueueType'[t] = "NAND"

\* The queue a request enters, and the row address table with it.
Enters(t) ==
  LET q == reqPool'[t] IN
  \/ /\ reqQueueType'[t] = "NVME_DMA" /\ q.reqCode \in DmaCode
     /\ UNCHANGED depVars
  \/ /\ reqQueueType'[t] = "NAND" /\ q.reqCode \in NandCode
     /\ PassRowAddrDep(q) /\ UpdateTablePassed(q, Blocked(t))
  \/ /\ reqQueueType'[t] = "BLOCKED_BY_ROW_ADDR_DEP" /\ q.reqCode \in NandCode
     /\ ~PassRowAddrDep(q)
     /\ IF Blocked(t) THEN UNCHANGED depVars ELSE UpdateTableBlocked(q)
  \/ /\ reqQueueType'[t] = "BLOCKED_BY_BUF_DEP" /\ q.buf # NoBuf
     /\ Head(blockingReq'[q.buf]) # t
     /\ IF q.reqCode \in NandCode THEN UpdateTableBlocked(q) ELSE UNCHANGED depVars
  \/ /\ reqQueueType'[t] = "NONE" /\ MustSync(q)
     /\ UNCHANGED depVars

\* The address a new request has from the FTL.
Allocates(t) ==
  LET q == reqPool'[t] IN
  \/ /\ q.reqCode = "WRITE" /\ q.page = currentPage[q.block] /\ q.page < PagesPerBlock
     /\ currentPage' = [currentPage EXCEPT ![q.block] = q.page + 1]
  \/ /\ q.reqCode = "ERASE" /\ q.page = PagesPerBlock /\ q.page = currentPage[q.block] /\ q.buf = NoBuf
     /\ currentPage' = [currentPage EXCEPT ![q.block] = 0]
  \/ /\ q.reqCode = "READ" /\ q.page < currentPage[q.block]
     /\ UNCHANGED currentPage
  \/ /\ q.reqCode \in DmaCode /\ q.block = NoBlock
     /\ UNCHANGED currentPage

\* Request t was taken from the pool in this step.
NewOne(t) == t # NoReq /\ ~Outstanding(t)

\* The other requests stay where they are.
OthersStay(l, t) ==
  \A s \in Req \ {l, t} :
    /\ Outstanding(s) => reqPool'[s] = reqPool[s] /\ reqQueueType'[s] = reqQueueType[s]
    /\ ~Outstanding(s) => ~Outstanding(s)'

\* The queues of the dies: l leaves the head, t joins the tail.
NandQueuesMove(l, t) ==
  \A d \in Die :
    nandReqQ'[d] = IF t # NoReq /\ reqQueueType'[t] = "NAND" /\ DieOfReq(reqPool'[t]) = d
                   THEN Append(Rest(d, l), t) ELSE Rest(d, l)

\* The chains of requests waiting for a buffer.
ChainsMove(l, t) ==
  \A b \in Buf :
    /\ blockingReq'[b] = IF l # NoReq /\ reqPool[l].buf = b THEN Tail(blockingReq[b])
                         ELSE IF NewOne(t) /\ reqPool'[t].buf = b THEN Append(blockingReq[b], t)
                         ELSE blockingReq[b]
    /\ l # NoReq /\ reqPool[l].buf = b /\ blockingReq'[b] # <<>> =>
         reqQueueType'[Head(blockingReq'[b])] # "BLOCKED_BY_BUF_DEP"

\* The request a transformation waits with.
SyncMoves(t) ==
  syncReq' = IF t = NoReq THEN syncReq
             ELSE IF reqQueueType'[t] = "NONE" THEN t
             ELSE IF t = syncReq THEN NoReq ELSE syncReq

\* Request l is completed and request t goes to a queue; NoReq stands for none.
Moved(l, t) ==
  /\ l \in Req \cup {NoReq} /\ t \in Req \cup {NoReq} /\ (l # NoReq => l # t)
  /\ OthersStay(l, t)
  /\ l # NoReq => Leaves(l)
  /\ t # NoReq => /\ ComesFrom(t, l) /\ Enters(t)
                  /\ Outstanding(t) => reqPool'[t] = reqPool[t]
  /\ t = NoReq => UNCHANGED depVars
  /\ NandQueuesMove(l, t) /\ ChainsMove(l, t) /\ SyncMoves(t)
  /\ IF NewOne(t) THEN Allocates(t) /\ (FastReuse \/ ~Lagging(reqPool'[t])) ELSE UNCHANGED currentPage

\* The head of the queue of a die is a request, and no request leaves Rest.
LEMMA RestOfNone ==
  ASSUME TypeOK, NEW d \in Die, NEW l, l \notin Req \/ \A e \in Die : l \notin ToSet(nandReqQ[e])
  PROVE  Rest(d, l) = nandReqQ[d]
<1> DEFINE s == nandReqQ[d]
<1>1. s \in Seq(Req)
  BY DEF TypeOK
<1>2. s # <<>> => Head(s) \in Req /\ Head(s) \in ToSet(s)
  <2> HIDE DEF s
  <2>1. s # <<>> => Len(s) \in Nat \ {0} /\ Head(s) = s[1] /\ s[1] \in Req
    BY <1>1
  <2> QED BY <2>1 DEF ToSet
<1> QED BY <1>2 DEF Rest

\* A step that moves no outstanding request.
LEMMA QuietMoves ==
  ASSUME TypeOK, UNCHANGED <<reqPool, blockingReq, nandReqQ, depVars, currentPage, syncReq>>,
         \A s \in Req : \/ reqQueueType'[s] = reqQueueType[s]
                        \/ ~Outstanding(s) /\ ~Outstanding(s)'
  PROVE  Moved(NoReq, NoReq)
<1>1. OthersStay(NoReq, NoReq)
  BY DEF OthersStay, Outstanding
<1>2. NandQueuesMove(NoReq, NoReq)
  BY RestOfNone, ReqAssumption DEF NandQueuesMove
<1>3. ChainsMove(NoReq, NoReq) /\ SyncMoves(NoReq) /\ ~NewOne(NoReq)
  BY DEF ChainsMove, SyncMoves, NewOne
<1> QED BY <1>1, <1>2, <1>3 DEF Moved

\* The scan of the requests blocked by a row address lets one pass, or none.
LEMMA VisitRowAddrDepReqMoves ==
  ASSUME IInv, VisitRowAddrDepReq
  PROVE  \E t \in Req \cup {NoReq} : Moved(NoReq, t)
<1>1. Head(rowAddrWalk) \in Req /\ reqQueueType[Head(rowAddrWalk)] = "BLOCKED_BY_ROW_ADDR_DEP"
  <2>1. /\ rowAddrWalk \in Seq(Req) /\ NoDup(rowAddrWalk) /\ rowAddrWalk # <<>>
        /\ \A s \in ToSet(rowAddrWalk) : reqQueueType[s] = "BLOCKED_BY_ROW_ADDR_DEP"
    BY DEF VisitRowAddrDepReq, IInv, TypeOK, WalksOK
  <2> QED BY <2>1, TailQueue
<1>2. PICK r \in Req : r = Head(rowAddrWalk)
  BY <1>1
<1>3. PICK d : d = DieOfReq(reqPool[r])
  OBVIOUS
<1>4. /\ UNCHANGED <<reqPool, blockingReq, syncReq, currentPage>>
      /\ \/ /\ PassRowAddrDep(reqPool[r])
            /\ UpdateTablePassed(reqPool[r], TRUE)
            /\ nandReqQ' = [nandReqQ EXCEPT ![d] = Append(@, r)]
            /\ reqQueueType' = [reqQueueType EXCEPT ![r] = "NAND"]
         \/ UNCHANGED <<reqQueueType, queueVars, depVars>>
  BY <1>2, <1>3 DEF VisitRowAddrDepReq, ftlVars
<1>5. TypeOK /\ r # NoReq /\ Blocked(r) /\ Outstanding(r) /\ reqPool[r].reqCode \in NandCode
  BY <1>1, <1>2, ReqAssumption DEF IInv, Blocked, Outstanding, QueuesOK, NandCodesOK
<1>6. CASE UNCHANGED <<reqQueueType, queueVars, depVars>>
  BY <1>4, <1>5, <1>6, QuietMoves DEF queueVars
<1>7. CASE /\ PassRowAddrDep(reqPool[r])
           /\ UpdateTablePassed(reqPool[r], TRUE)
           /\ nandReqQ' = [nandReqQ EXCEPT ![d] = Append(@, r)]
           /\ reqQueueType' = [reqQueueType EXCEPT ![r] = "NAND"]
  <2>1. reqQueueType'[r] = "NAND" /\ \A s \in Req \ {r} : reqQueueType'[s] = reqQueueType[s]
    BY <1>5, <1>7 DEF TypeOK
  <2>2. OthersStay(NoReq, r)
    BY <1>4, <2>1 DEF OthersStay, Outstanding
  <2>3. NandQueuesMove(NoReq, r)
    <3>1. \A e \in Die : Rest(e, NoReq) = nandReqQ[e]
      BY <1>5, RestOfNone, ReqAssumption
    <3>2. \A e \in Die : nandReqQ'[e] = IF e = d THEN Append(nandReqQ[e], r) ELSE nandReqQ[e]
      BY <1>5, <1>7 DEF TypeOK
    <3> QED BY <1>3, <1>4, <1>5, <2>1, <3>1, <3>2 DEF NandQueuesMove
  <2>4. ChainsMove(NoReq, r) /\ ~NewOne(r)
    BY <1>4, <1>5 DEF ChainsMove, NewOne
  <2>5. SyncMoves(r)
    <3>1. syncReq # r
      BY <1>1, <1>2, <1>5 DEF IInv, InHandOK
    <3> QED BY <1>4, <1>5, <2>1, <3>1 DEF SyncMoves
  <2>6. ComesFrom(r, NoReq) /\ Enters(r)
    BY <1>1, <1>2, <1>4, <1>5, <1>7, <2>1 DEF ComesFrom, Enters
  <2> QED BY <1>4, <1>5, <2>2, <2>3, <2>4, <2>5, <2>6 DEF Moved
<1> QED BY <1>4, <1>6, <1>7

\* A request dispatched on its own; its place in the blocking queue and the
\* flash address are those of the action.
LEMMA DispatchMoves ==
  ASSUME TypeOK, NEW r \in Req, ~InQueue(r), ~Blocked(r), NEW q, reqPool'[r] = q, q.reqCode \in NandCode \cup DmaCode,
         \A s \in Req \ {r} : reqPool'[s] = reqPool[s],
         \/ DispatchUnblocked(r, q)
         \/ DispatchBufBlocked(r, q) /\ q.buf # NoBuf /\ Head(blockingReq'[q.buf]) # r
         \/ /\ MustSync(q) /\ reqQueueType' = [reqQueueType EXCEPT ![r] = "NONE"]
            /\ UNCHANGED <<queueVars, depVars>>
  PROVE  /\ Enters(r) /\ NandQueuesMove(NoReq, r) /\ OthersStay(NoReq, r)
         /\ DispatchUnblocked(r, q) \/ DispatchBufBlocked(r, q) => reqQueueType'[r] # "NONE"
<1>0. reqQueueType \in [Req -> QueueType] /\ nandReqQ \in [Die -> Seq(Req)] /\ r # NoReq
  BY ReqAssumption DEF TypeOK
<1>a. DispatchUnblocked(r, q) \/ DispatchBufBlocked(r, q) => reqQueueType'[r] # "NONE"
  BY <1>0 DEF DispatchUnblocked, DispatchBufBlocked, PutToNvmeDmaReqQ, PutToNandReqQ,
              PutToBlockedByRowAddrDepReqQ, PutToBlockedByBufDepReqQ
<1> SUFFICES Enters(r) /\ NandQueuesMove(NoReq, r) /\ OthersStay(NoReq, r)
  BY <1>a
<1>1. ASSUME NEW x, reqQueueType' = [reqQueueType EXCEPT ![r] = x]
      PROVE  reqQueueType'[r] = x /\ OthersStay(NoReq, r)
  BY <1>0, <1>1 DEF OthersStay, Outstanding
<1>2. \A e \in Die : Rest(e, NoReq) = nandReqQ[e]
  BY RestOfNone, ReqAssumption
<1>3. ASSUME UNCHANGED nandReqQ, reqQueueType'[r] # "NAND"
      PROVE  NandQueuesMove(NoReq, r)
  BY <1>2, <1>3 DEF NandQueuesMove
<1>4. CASE q.reqCode \in DmaCode /\ PutToNvmeDmaReqQ(r) /\ UNCHANGED depVars
  <2>1. reqQueueType'[r] = "NVME_DMA" /\ OthersStay(NoReq, r)
    BY <1>1, <1>4 DEF PutToNvmeDmaReqQ
  <2> QED BY <1>3, <1>4, <2>1 DEF PutToNvmeDmaReqQ, Enters
<1>5. CASE /\ q.reqCode \in NandCode /\ PassRowAddrDep(q)
           /\ UpdateTablePassed(q, FALSE) /\ PutToNandReqQ(r, DieOfReq(q))
  <2>1. reqQueueType'[r] = "NAND" /\ OthersStay(NoReq, r)
    BY <1>1, <1>5 DEF PutToNandReqQ
  <2>2. NandQueuesMove(NoReq, r)
    <3>1. \A e \in Die : nandReqQ'[e] = IF e = DieOfReq(q) THEN Append(nandReqQ[e], r) ELSE nandReqQ[e]
      BY <1>0, <1>5 DEF PutToNandReqQ
    <3> QED BY <1>0, <1>2, <2>1, <3>1 DEF NandQueuesMove
  <2>3. Blocked(r) = FALSE
    BY DEF Blocked
  <2>4. PassRowAddrDep(reqPool'[r]) /\ UpdateTablePassed(reqPool'[r], Blocked(r))
    BY <1>5, <2>3
  <2> QED BY <1>5, <2>1, <2>2, <2>4 DEF Enters
<1>6. CASE /\ q.reqCode \in NandCode /\ ~PassRowAddrDep(q)
           /\ UpdateTableBlocked(q) /\ PutToBlockedByRowAddrDepReqQ(r, DieOfReq(q))
  <2>1. reqQueueType'[r] = "BLOCKED_BY_ROW_ADDR_DEP" /\ OthersStay(NoReq, r)
    BY <1>1, <1>6 DEF PutToBlockedByRowAddrDepReqQ
  <2> QED BY <1>3, <1>6, <2>1 DEF PutToBlockedByRowAddrDepReqQ, Enters
<1>7. CASE DispatchBufBlocked(r, q) /\ q.buf # NoBuf /\ Head(blockingReq'[q.buf]) # r
  <2>1. reqQueueType'[r] = "BLOCKED_BY_BUF_DEP" /\ OthersStay(NoReq, r) /\ UNCHANGED nandReqQ
    BY <1>1, <1>7 DEF DispatchBufBlocked, PutToBlockedByBufDepReqQ
  <2>2. IF q.reqCode \in NandCode THEN UpdateTableBlocked(q) ELSE UNCHANGED depVars
    BY <1>7 DEF DispatchBufBlocked, NandCode, DmaCode
  <2> QED BY <1>3, <1>7, <2>1, <2>2 DEF Enters
<1>8. CASE /\ MustSync(q) /\ reqQueueType' = [reqQueueType EXCEPT ![r] = "NONE"]
           /\ UNCHANGED <<queueVars, depVars>>
  <2>1. reqQueueType'[r] = "NONE" /\ OthersStay(NoReq, r) /\ UNCHANGED nandReqQ
    BY <1>1, <1>8 DEF queueVars
  <2> QED BY <1>3, <1>8, <2>1 DEF Enters
<1>9. CASE DispatchUnblocked(r, q)
  BY <1>4, <1>5, <1>6, <1>9 DEF DispatchUnblocked
<1> QED BY <1>7, <1>8, <1>9

\* SyncReleaseEraseReq returns.
LEMMA SyncReleaseEraseReqDoneMoves ==
  ASSUME IInv, SyncReleaseEraseReqDone
  PROVE  \E t \in Req : Moved(NoReq, t)
<1>1. PICK r \in Req : r = syncReq /\ syncReq # NoReq
  BY DEF SyncReleaseEraseReqDone, IInv, TypeOK
<1>2. PICK q : q = reqPool[r]
  OBVIOUS
<1>3. /\ ~blockedEraseReqFlag[q.block]
      /\ \/ DispatchUnblocked(r, q)
         \/ DispatchBufBlocked(r, q) /\ Head(blockingReq[q.buf]) # r
      /\ syncReq' = NoReq
      /\ UNCHANGED <<reqPool, blockingReq, currentPage>>
  BY <1>1, <1>2 DEF SyncReleaseEraseReqDone, ftlVars
<1>4. /\ TypeOK /\ reqQueueType[r] = "NONE" /\ q.reqCode = "READ" /\ q.buf # NoBuf
      /\ ~InQueue(r) /\ ~Blocked(r) /\ Outstanding(r)
  BY <1>1, <1>2, BufAssumption DEF IInv, InHandOK, InQueue, Blocked, Outstanding, RequestsOK, WellFormed
<1>5. q.reqCode \in NandCode \cup DmaCode
  BY <1>4 DEF NandCode
<1>6. /\ Enters(r) /\ NandQueuesMove(NoReq, r) /\ OthersStay(NoReq, r)
      /\ DispatchUnblocked(r, q) \/ DispatchBufBlocked(r, q) => reqQueueType'[r] # "NONE"
  BY <1>2, <1>3, <1>4, <1>5, DispatchMoves
<1>7. reqQueueType'[r] # "NONE"
  BY <1>3, <1>6
<1>8. ComesFrom(r, NoReq) /\ ChainsMove(NoReq, r) /\ SyncMoves(r) /\ ~NewOne(r)
  BY <1>1, <1>2, <1>3, <1>4, <1>7 DEF ComesFrom, ChainsMove, SyncMoves, NewOne
<1> QED BY <1>1, <1>2, <1>3, <1>4, <1>6, <1>8 DEF Moved

\* Making and dispatching the next low-level request.
LEMMA IssueSubReqMoves ==
  ASSUME IInv, NEW r \in Req, NEW a \in (Block \cup {NoBlock}) \X (0..PagesPerBlock),
         IssueSubReq(r, a)
  PROVE  Moved(NoReq, r)
<1>1. PICK s : s = Head(plan)
  OBVIOUS
<1>2. PICK q : q = [reqCode |-> s.reqCode, buf |-> s.buf, block |-> a[1], page |-> a[2]]
  OBVIOUS
<1> DEFINE hasPrev == s.buf # NoBuf /\ blockingReq[s.buf] # <<>>
<1>3. SelectLowLevelReqQ(r, q, hasPrev)
  BY <1>1, <1>2 DEF IssueSubReq
<1>4. /\ syncReq = NoReq /\ plan # <<>>
      /\ IF s.reqCode \in DmaCode THEN r = sliceReq ELSE r \in FreeReq
      /\ a \in Address(s)
      /\ FastReuse \/ ~Lagging(q)
      /\ reqPool' = [reqPool EXCEPT ![r] = q]
      /\ blockingReq' = IF s.buf = NoBuf THEN blockingReq
                        ELSE [blockingReq EXCEPT ![s.buf] = Append(@, r)]
      /\ currentPage' = CASE s.reqCode = "WRITE" -> [currentPage EXCEPT ![a[1]] = @ + 1]
                          [] s.reqCode = "ERASE" -> [currentPage EXCEPT ![a[1]] = 0]
                          [] OTHER -> currentPage
      /\ \/ /\ MustSync(q) /\ syncReq' = r
            /\ reqQueueType' = [reqQueueType EXCEPT ![r] = "NONE"]
            /\ UNCHANGED <<queueVars, depVars>>
         \/ /\ ~MustSync(q) /\ UNCHANGED syncReq
            /\ DispatchUnblocked(r, q) \/ (hasPrev /\ DispatchBufBlocked(r, q))
  <2> HIDE DEF hasPrev
  <2>1. syncReq = NoReq
    BY DEF IssueSubReq, Ready
  <2>2. \/ /\ MustSync(q) /\ syncReq' = r
           /\ reqQueueType' = [reqQueueType EXCEPT ![r] = "NONE"]
           /\ UNCHANGED <<queueVars, depVars>>
        \/ /\ ~MustSync(q) /\ UNCHANGED syncReq
           /\ DispatchUnblocked(r, q) \/ (hasPrev /\ DispatchBufBlocked(r, q))
    BY <1>3 DEF SelectLowLevelReqQ
  <2> QED BY <1>1, <1>2, <2>1, <2>2 DEF IssueSubReq
<1>5. /\ TypeOK /\ reqQueueType[r] \in {"FREE", "SLICE"} /\ r # NoReq
      /\ ~InQueue(r) /\ ~Blocked(r) /\ ~Outstanding(r)
  BY <1>4, ReqAssumption DEF IInv, InHandOK, FreeReq, InQueue, Blocked, Outstanding
<1>6. s \in SubReq
  BY <1>1, <1>4, <1>5 DEF TypeOK
<1>7. /\ WellFormed(q) /\ s.reqCode \in DmaCode \cup NandCode /\ s.buf \in Buf \cup {NoBuf}
      /\ s.reqCode = "ERASE" <=> s.buf = NoBuf
  BY <1>2, <1>4, <1>5, <1>6, SubReqWellFormed DEF SubReq
<1>8. /\ q.reqCode = s.reqCode /\ q.buf = s.buf /\ q.block = a[1] /\ q.page = a[2]
      /\ q.reqCode \in NandCode \cup DmaCode
  BY <1>2, <1>7
<1>9. reqPool'[r] = q /\ \A t \in Req \ {r} : reqPool'[t] = reqPool[t]
  BY <1>4, <1>5 DEF TypeOK
<1>10. \A b \in Buf : blockingReq'[b] = IF s.buf = b THEN Append(blockingReq[b], r) ELSE blockingReq[b]
  BY <1>4, <1>5, <1>7, BufAssumption DEF TypeOK
<1>11. hasPrev => q.buf # NoBuf /\ Head(blockingReq'[q.buf]) # r
  <2> SUFFICES ASSUME hasPrev PROVE q.buf # NoBuf /\ Head(blockingReq'[q.buf]) # r
    OBVIOUS
  <2>1. PICK w : w = blockingReq[s.buf]
    OBVIOUS
  <2>2. s.buf \in Buf /\ w # <<>> /\ w \in Seq(Req) /\ r \notin ToSet(w)
    BY <1>5, <1>7, <2>1 DEF IInv, ChainsOK, TypeOK
  <2>3. Head(Append(w, r)) = w[1] /\ 1 \in 1..Len(w)
    BY <2>2
  <2>4. w[1] # r
    BY <2>2, <2>3 DEF ToSet
  <2> QED BY <1>8, <1>10, <2>1, <2>2, <2>3, <2>4, BufAssumption
<1>12. /\ Enters(r) /\ NandQueuesMove(NoReq, r) /\ OthersStay(NoReq, r)
       /\ DispatchUnblocked(r, q) \/ DispatchBufBlocked(r, q) => reqQueueType'[r] # "NONE"
  BY <1>4, <1>5, <1>8, <1>9, <1>11, DispatchMoves
<1>13. ComesFrom(r, NoReq) /\ NewOne(r)
  <2>1. reqQueueType'[r] # "NONE" => ~MustSync(q)
    BY <1>4, <1>5 DEF TypeOK
  <2> QED BY <1>4, <1>5, <1>9, <2>1 DEF ComesFrom, NewOne
<1>14. ChainsMove(NoReq, r)
  BY <1>8, <1>9, <1>10, <1>13 DEF ChainsMove
<1>15. SyncMoves(r)
  BY <1>4, <1>5, <1>12 DEF SyncMoves, TypeOK
<1>16. Allocates(r)
  <2>1. CASE s.reqCode = "WRITE"
    <3>1. a[1] \in Block /\ a[2] = currentPage[a[1]] /\ a[2] < PagesPerBlock
      BY <1>4, <1>5, <1>6, <2>1, SubReqWellFormed DEF NandCode
    <3>2. currentPage' = [currentPage EXCEPT ![a[1]] = a[2] + 1]
      BY <1>4, <2>1, <3>1
    <3> QED BY <1>8, <1>9, <2>1, <3>1, <3>2 DEF Allocates
  <2>2. CASE s.reqCode = "ERASE"
    <3>1. a[1] \in Block /\ a[2] = PagesPerBlock /\ currentPage[a[1]] = PagesPerBlock
      BY <1>4, <2>2 DEF Address, FullBlock
    <3>2. currentPage' = [currentPage EXCEPT ![a[1]] = 0]
      BY <1>4, <2>2
    <3> QED BY <1>7, <1>8, <1>9, <2>2, <3>1, <3>2 DEF Allocates
  <2>3. CASE s.reqCode = "READ"
    BY <1>4, <1>8, <1>9, <2>3 DEF Allocates, Address
  <2>4. CASE s.reqCode \in DmaCode
    BY <1>4, <1>8, <1>9, <2>4 DEF Allocates, Address, DmaCode
  <2> QED BY <1>7, <2>1, <2>2, <2>3, <2>4 DEF NandCode
<1>17. FastReuse \/ ~Lagging(reqPool'[r])
  BY <1>4, <1>9
<1> QED BY <1>5, <1>12, <1>13, <1>14, <1>15, <1>16, <1>17 DEF Moved

\* The request that waits behind the one a buffer serves.
LEMMA NextBlockingIsNext ==
  ASSUME IInv, NEW r \in Req, InQueue(r), NEW b, b = reqPool[r].buf, NEW t, t = NextBlockingReq(r)
  PROVE  /\ b \in Buf \cup {NoBuf} /\ t \in Req \cup {NoReq}
         /\ b # NoBuf => /\ blockingReq[b] \in Seq(Req) /\ blockingReq[b] # <<>> /\ NoDup(blockingReq[b])
                         /\ Head(blockingReq[b]) = r
         /\ b # NoBuf /\ t = NoReq => Tail(blockingReq[b]) = <<>>
         /\ t # NoReq => /\ b # NoBuf /\ t # r /\ Outstanding(t) /\ WellFormed(reqPool[t])
                         /\ Tail(blockingReq[b]) # <<>> /\ Head(Tail(blockingReq[b])) = t
<1>1. b \in Buf \cup {NoBuf}
  BY DEF IInv, TypeOK, Request
<1>2. CASE b = NoBuf
  BY <1>1, <1>2 DEF NextBlockingReq
<1>3. CASE b # NoBuf
  <2>1. PICK s : s = blockingReq[b]
    OBVIOUS
  <2>2. s \in Seq(Req) /\ s # <<>> /\ Head(s) = r /\ NoDup(s)
    BY <1>1, <1>3, <2>1 DEF IInv, BufferExclusive, TypeOK, ChainsOK
  <2>3. t = IF Len(s) > 1 THEN s[2] ELSE NoReq
    BY <1>3, <2>1 DEF NextBlockingReq
  <2>4. PICK u : u = Tail(s)
    OBVIOUS
  <2>5. u \in Seq(Req) /\ Len(u) = Len(s) - 1 /\ \A i \in 1..Len(u) : u[i] = s[i + 1]
    BY <2>2, <2>4, HeadTailProperties
  <2>6. CASE Len(s) > 1
    <3>1. t = s[2] /\ t \in Req /\ t \in ToSet(s) /\ t # r /\ u # <<>> /\ Head(u) = t
      <4>1. t = s[2] /\ t \in Req /\ Len(u) >= 1 /\ u[1] = s[2] /\ Head(u) = u[1] /\ Head(s) = s[1]
        BY <2>2, <2>3, <2>5, <2>6
      <4>2. t \in ToSet(s) /\ t # r
        BY <2>2, <2>6, <4>1 DEF ToSet, NoDup
      <4> QED BY <2>5, <4>1, <4>2
    <3>2. Outstanding(t) /\ WellFormed(reqPool[t])
      BY <1>1, <1>3, <2>1, <3>1 DEF IInv, ChainsOK, RequestsOK
    <3> QED BY ReqAssumption, <1>1, <1>3, <2>1, <2>2, <2>4, <3>1, <3>2
  <2>7. CASE ~(Len(s) > 1)
    <3>1. t = NoReq /\ u = <<>>
      BY <2>2, <2>3, <2>5, <2>7
    <3> QED BY <1>1, <1>3, <2>1, <2>2, <2>4, <3>1
  <2> QED BY <2>6, <2>7
<1> QED BY <1>2, <1>3

\* A completed request goes, and the next one for its buffer if it waited.
LEMMA ReleaseMoves ==
  ASSUME IInv, NEW r \in Req, InQueue(r), NEW dmaQ, NEW nandQ, nandQ \in [Die -> Seq(Req)], NEW nandCnt,
         ReleaseBlockedByBufDepReq(r, dmaQ, nandQ, nandCnt),
         reqQueueType[r] \in {"NVME_DMA", "NAND"},
         reqQueueType[r] = "NAND" =>
           LET d == DieOfReq(reqPool[r]) IN nandReqQ[d] # <<>> /\ Head(nandReqQ[d]) = r,
         \A d \in Die : nandQ[d] = Rest(d, r),
         UNCHANGED <<syncReq, currentPage>>
  PROVE  \E t \in Req \cup {NoReq} : Moved(r, t)
<1>1. PICK b, target, q : b = reqPool[r].buf /\ target = NextBlockingReq(r) /\ q = reqPool[target]
  OBVIOUS
<1>2. /\ b \in Buf \cup {NoBuf} /\ target \in Req \cup {NoReq}
      /\ b # NoBuf => /\ blockingReq[b] \in Seq(Req) /\ blockingReq[b] # <<>> /\ NoDup(blockingReq[b])
                      /\ Head(blockingReq[b]) = r
      /\ b # NoBuf /\ target = NoReq => Tail(blockingReq[b]) = <<>>
      /\ target # NoReq => /\ b # NoBuf /\ target # r /\ Outstanding(target) /\ WellFormed(q)
                           /\ Tail(blockingReq[b]) # <<>> /\ Head(Tail(blockingReq[b])) = target
  BY <1>1, NextBlockingIsNext
<1>3. PICK wakes \in BOOLEAN : wakes <=> target # NoReq /\ reqQueueType[target] = "BLOCKED_BY_BUF_DEP"
  <2> DEFINE w == target # NoReq /\ reqQueueType[target] = "BLOCKED_BY_BUF_DEP"
  <2>1. w \in BOOLEAN
    OBVIOUS
  <2> QED BY <2>1
<1>4. /\ reqPool' = [reqPool EXCEPT ![r] = NoRequest]
      /\ blockingReq' = IF b = NoBuf THEN blockingReq ELSE [blockingReq EXCEPT ![b] = Tail(@)]
  BY <1>1 DEF ReleaseBlockedByBufDepReq
<1>5. \/ /\ ~wakes
         /\ reqQueueType' = [reqQueueType EXCEPT ![r] = "FREE"]
         /\ nandReqQ' = nandQ
         /\ UNCHANGED depVars
      \/ /\ wakes /\ q.reqCode \in DmaCode
         /\ reqQueueType' = [reqQueueType EXCEPT ![r] = "FREE", ![target] = "NVME_DMA"]
         /\ nandReqQ' = nandQ
         /\ UNCHANGED depVars
      \/ /\ wakes /\ q.reqCode \in NandCode
         /\ PassRowAddrDep(q)
         /\ UpdateTablePassed(q, TRUE)
         /\ reqQueueType' = [reqQueueType EXCEPT ![r] = "FREE", ![target] = "NAND"]
         /\ nandReqQ' = [nandQ EXCEPT ![DieOfReq(q)] = Append(@, target)]
      \/ /\ wakes /\ q.reqCode \in NandCode
         /\ ~PassRowAddrDep(q)
         /\ reqQueueType' = [reqQueueType EXCEPT ![r] = "FREE", ![target] = "BLOCKED_BY_ROW_ADDR_DEP"]
         /\ nandReqQ' = nandQ
         /\ UNCHANGED depVars
  BY <1>1, <1>3 DEF ReleaseBlockedByBufDepReq
<1>6. PICK t : t = IF wakes THEN target ELSE NoReq
  OBVIOUS
<1>7. TypeOK /\ r # NoReq /\ ToSet(<<>>) = {}
  BY ReqAssumption, EmptyQueue DEF IInv
<1>8. /\ t \in Req \cup {NoReq} /\ t # r /\ ~NewOne(t)
      /\ t # NoReq => Outstanding(t) /\ Blocked(t) /\ reqPool'[t] = reqPool[t] /\ t = target /\ t \in Req
      /\ reqQueueType'[r] = "FREE"
      /\ \A s \in Req \ {r, t} : reqQueueType'[s] = reqQueueType[s]
      /\ \A s \in Req \ {r} : reqPool'[s] = reqPool[s]
  <2>1. t \in Req \cup {NoReq} /\ t # r /\ ~NewOne(t)
    BY <1>2, <1>3, <1>6, <1>7 DEF NewOne
  <2>2. \A s \in Req \ {r} : reqPool'[s] = reqPool[s]
    BY <1>4, <1>7 DEF TypeOK
  <2>3. t # NoReq => Outstanding(t) /\ Blocked(t) /\ reqPool'[t] = reqPool[t] /\ t = target /\ t \in Req
    BY <1>2, <1>3, <1>6, <2>1, <2>2 DEF Blocked
  <2>4. reqQueueType'[r] = "FREE" /\ \A s \in Req \ {r, t} : reqQueueType'[s] = reqQueueType[s]
    BY <1>2, <1>3, <1>5, <1>6, <1>7 DEF TypeOK
  <2> QED BY <2>1, <2>2, <2>3, <2>4
<1>9. t # NoReq =>
        /\ reqQueueType[t] = "BLOCKED_BY_BUF_DEP"
        /\ \/ reqQueueType'[t] = "NVME_DMA" /\ q.reqCode \in DmaCode /\ UNCHANGED depVars
           \/ /\ reqQueueType'[t] = "NAND" /\ q.reqCode \in NandCode
              /\ PassRowAddrDep(q) /\ UpdateTablePassed(q, TRUE)
           \/ /\ reqQueueType'[t] = "BLOCKED_BY_ROW_ADDR_DEP" /\ q.reqCode \in NandCode
              /\ ~PassRowAddrDep(q) /\ UNCHANGED depVars
  BY <1>3, <1>5, <1>6, <1>7, <1>8 DEF TypeOK
<1>10. OthersStay(r, t) /\ Leaves(r)
  BY <1>8 DEF OthersStay, Outstanding, Leaves
<1>11. t # NoReq => ComesFrom(t, r) /\ Enters(t)
  <2> SUFFICES ASSUME t # NoReq PROVE ComesFrom(t, r) /\ Enters(t)
    OBVIOUS
  <2>1. Blocked(t) = TRUE /\ reqPool'[t] = q
    BY <1>1, <1>8 DEF Blocked
  <2>2. CASE reqQueueType'[t] = "NVME_DMA" /\ q.reqCode \in DmaCode /\ UNCHANGED depVars
    BY <1>9, <2>1, <2>2 DEF ComesFrom, Enters
  <2>3. CASE /\ reqQueueType'[t] = "NAND" /\ q.reqCode \in NandCode
             /\ PassRowAddrDep(q) /\ UpdateTablePassed(q, TRUE)
    <3>1. PassRowAddrDep(reqPool'[t]) /\ UpdateTablePassed(reqPool'[t], Blocked(t))
      BY <2>1, <2>3
    <3> QED BY <1>9, <2>1, <2>3, <3>1 DEF ComesFrom, Enters
  <2>4. CASE /\ reqQueueType'[t] = "BLOCKED_BY_ROW_ADDR_DEP" /\ q.reqCode \in NandCode
             /\ ~PassRowAddrDep(q) /\ UNCHANGED depVars
    BY <1>9, <2>1, <2>4 DEF ComesFrom, Enters
  <2> QED BY <1>9, <2>2, <2>3, <2>4
<1>12. NandQueuesMove(r, t)
  <2> SUFFICES ASSUME NEW d \in Die
               PROVE  nandReqQ'[d] = IF t # NoReq /\ reqQueueType'[t] = "NAND" /\ DieOfReq(reqPool'[t]) = d
                                     THEN Append(Rest(d, r), t) ELSE Rest(d, r)
    BY DEF NandQueuesMove
  <2>1. CASE nandReqQ' = nandQ /\ (t # NoReq => reqQueueType'[t] # "NAND")
    BY <2>1
  <2>2. CASE /\ t # NoReq /\ reqQueueType'[t] = "NAND"
             /\ nandReqQ' = [nandQ EXCEPT ![DieOfReq(q)] = Append(@, t)]
    BY <1>1, <1>8, <2>2
  <2>3. \/ nandReqQ' = nandQ /\ (t # NoReq => reqQueueType'[t] # "NAND")
        \/ /\ t # NoReq /\ reqQueueType'[t] = "NAND"
           /\ nandReqQ' = [nandQ EXCEPT ![DieOfReq(q)] = Append(@, t)]
    BY <1>3, <1>5, <1>6, <1>7, <1>8 DEF TypeOK
  <2> QED BY <2>1, <2>2, <2>3
<1>13. ChainsMove(r, t)
  <2> SUFFICES ASSUME NEW c \in Buf
               PROVE  /\ blockingReq'[c] = IF b = c THEN Tail(blockingReq[c]) ELSE blockingReq[c]
                      /\ b = c /\ blockingReq'[c] # <<>> =>
                           reqQueueType'[Head(blockingReq'[c])] # "BLOCKED_BY_BUF_DEP"
    BY <1>1, <1>7, <1>8 DEF ChainsMove
  <2>1. blockingReq'[c] = IF b = c THEN Tail(blockingReq[c]) ELSE blockingReq[c]
    BY <1>2, <1>4, <1>7, BufAssumption DEF TypeOK
  <2>2. ASSUME b = c, blockingReq'[c] # <<>>
        PROVE  reqQueueType'[Head(blockingReq'[c])] # "BLOCKED_BY_BUF_DEP"
    <3>1. target # NoReq /\ Head(blockingReq'[c]) = target
      BY <1>2, <2>1, <2>2, BufAssumption
    <3>2. CASE wakes
      BY <1>6, <1>9, <3>1, <3>2
    <3>3. CASE ~wakes
      <4>1. t = NoReq /\ reqQueueType[target] # "BLOCKED_BY_BUF_DEP"
        BY <1>3, <1>6, <3>1, <3>3
      <4>2. target \in Req \ {r, t}
        BY <1>2, <3>1, <4>1
      <4> QED BY <1>8, <3>1, <4>1, <4>2
    <3> QED BY <3>2, <3>3
  <2> QED BY <2>1, <2>2
<1>14. SyncMoves(t)
  <2>1. t # NoReq => t # syncReq /\ reqQueueType'[t] # "NONE"
    BY <1>9 DEF IInv, InHandOK
  <2> QED BY <1>8, <2>1 DEF SyncMoves
<1>15. t = NoReq => UNCHANGED depVars
  BY <1>2, <1>3, <1>5, <1>6
<1> QED BY <1>8, <1>10, <1>11, <1>12, <1>13, <1>14, <1>15 DEF Moved

\* A visit of CheckDoneNvmeDmaReq completes a transfer, or none.
LEMMA VisitNvmeDmaReqMoves ==
  ASSUME IInv, VisitNvmeDmaReq
  PROVE  \E l, t \in Req \cup {NoReq} : Moved(l, t)
<1>1. PICK r : r = dmaWalk.todo[Len(dmaWalk.todo)]
  OBVIOUS
<1>2. r \in Req /\ reqQueueType[r] = "NVME_DMA"
  <2>1. PICK s : s = dmaWalk.todo
    OBVIOUS
  <2>2. s \in Seq(Req) /\ NoDup(s) /\ s # <<>> /\ \A e \in ToSet(s) : reqQueueType[e] = "NVME_DMA"
    BY <2>1 DEF VisitNvmeDmaReq, IInv, TypeOK, WalksOK
  <2>3. s[Len(s)] \in Req /\ s[Len(s)] \in ToSet(s)
    BY <2>2, FrontQueue
  <2> QED BY <1>1, <2>1, <2>2, <2>3
<1>3. /\ UNCHANGED <<syncReq, currentPage>>
      /\ \/ ReleaseBlockedByBufDepReq(r, Without(nvmeDmaReqQ, r), nandReqQ, notCompletedNandReqCnt)
         \/ UNCHANGED <<poolVars, queueVars, depVars>>
  BY <1>1 DEF VisitNvmeDmaReq, ftlVars
<1>4. TypeOK /\ InQueue(r)
  BY <1>2 DEF IInv, InQueue
<1>5. CASE UNCHANGED <<poolVars, queueVars, depVars>>
  <2>1. Moved(NoReq, NoReq)
    BY <1>3, <1>4, <1>5, QuietMoves DEF poolVars, queueVars
  <2> QED BY <2>1
<1>6. CASE ReleaseBlockedByBufDepReq(r, Without(nvmeDmaReqQ, r), nandReqQ, notCompletedNandReqCnt)
  <2>1. nandReqQ \in [Die -> Seq(Req)]
    BY <1>4 DEF TypeOK
  <2>2. \A d \in Die : nandReqQ[d] = Rest(d, r)
    <3>1. \A d \in Die : r \notin ToSet(nandReqQ[d])
      BY <1>2 DEF IInv, QueuesOK, NandQueuesOK
    <3> QED BY <1>4, <3>1, RestOfNone
  <2>3. \E t \in Req \cup {NoReq} : Moved(r, t)
    BY <1>2, <1>3, <1>4, <1>6, <2>1, <2>2, ReleaseMoves
  <2> QED BY <1>2, <2>3
<1> QED BY <1>3, <1>5, <1>6

\* The request at the head of a die completes.
LEMMA GetFromNandReqQMoves ==
  ASSUME IInv, NEW d \in Die, GetFromNandReqQ(d)
  PROVE  \E l, t \in Req \cup {NoReq} : Moved(l, t)
<1>1. PICK s, r : s = nandReqQ[d] /\ r = Head(s)
  OBVIOUS
<1>2. PICK nandQ : nandQ = [nandReqQ EXCEPT ![d] = Tail(@)]
  OBVIOUS
<1>3. /\ s # <<>>
      /\ ReleaseBlockedByBufDepReq(r, nvmeDmaReqQ, nandQ, notCompletedNandReqCnt - 1)
      /\ UNCHANGED <<syncReq, currentPage>>
  BY <1>1, <1>2 DEF GetFromNandReqQ, ftlVars
<1>4. TypeOK /\ s \in Seq(Req) /\ NoDup(s)
  BY <1>1 DEF IInv, TypeOK, QueuesOK, NandQueuesOK
<1>5. r \in Req /\ r \in ToSet(s) /\ Tail(s) \in Seq(Req)
  BY <1>1, <1>3, <1>4, TailQueue
<1>6. reqQueueType[r] = "NAND" /\ DieOfReq(reqPool[r]) = d
  BY <1>1, <1>5 DEF IInv, QueuesOK, NandQueuesOK
<1>7. nandQ \in [Die -> Seq(Req)] /\ \A e \in Die : nandQ[e] = IF e = d THEN Tail(s) ELSE nandReqQ[e]
  BY <1>1, <1>2, <1>4, <1>5 DEF TypeOK
<1>8. \A e \in Die : nandQ[e] = Rest(e, r)
  <2> SUFFICES ASSUME NEW e \in Die PROVE nandQ[e] = Rest(e, r)
    OBVIOUS
  <2>1. CASE e = d
    BY <1>1, <1>3, <1>7, <2>1 DEF Rest
  <2>2. CASE e # d
    <3>1. PICK u : u = nandReqQ[e]
      OBVIOUS
    <3>2. u \in Seq(Req) /\ NoDup(u) /\ r \notin ToSet(u)
      BY <1>5, <1>6, <2>2, <3>1 DEF IInv, TypeOK, QueuesOK, NandQueuesOK
    <3>3. u # <<>> => Head(u) # r
      BY <3>2, TailQueue
    <3> QED BY <1>7, <2>2, <3>1, <3>3 DEF Rest
  <2> QED BY <2>1, <2>2
<1>9. \E t \in Req \cup {NoReq} : Moved(r, t)
  <2>1. InQueue(r)
    BY <1>6 DEF InQueue
  <2>2. nandReqQ[d] # <<>> /\ Head(nandReqQ[d]) = r
    BY <1>1, <1>3
  <2> QED BY <1>3, <1>5, <1>6, <1>7, <1>8, <2>1, <2>2, ReleaseMoves
<1> QED BY <1>5, <1>9

\* Every step moves at most one request out of the pool's sight and at most
\* one into a queue.
LEMMA StepMoves ==
  ASSUME IInv, [Next]_vars
  PROVE  \E l, t \in Req \cup {NoReq} : Moved(l, t)
<1>0. TypeOK
  BY DEF IInv
<1>1. ASSUME Frontend
      PROVE  Moved(NoReq, NoReq)
  <2>1. ASSUME NEW r \in Req, NEW b, NEW code, NEW hit, NEW fill, SliceRequest(r, b, code, hit, fill)
        PROVE  Moved(NoReq, NoReq)
    <3>1. /\ UNCHANGED <<reqPool, blockingReq, nandReqQ, depVars, currentPage, syncReq>>
          /\ reqQueueType[r] = "FREE" /\ reqQueueType' = [reqQueueType EXCEPT ![r] = "SLICE"]
      BY <2>1 DEF SliceRequest, queueVars, loopVars, FreeReq
    <3>2. \A s \in Req : \/ reqQueueType'[s] = reqQueueType[s]
                         \/ ~Outstanding(s) /\ ~Outstanding(s)'
      BY <1>0, <3>1 DEF TypeOK, Outstanding
    <3> QED BY <1>0, <3>1, <3>2, QuietMoves
  <2>2. ASSUME NEW d, NEW t, NEW copies, GarbageCollection(d, t, copies)
        PROVE  Moved(NoReq, NoReq)
    BY <1>0, <2>2, QuietMoves DEF GarbageCollection, poolVars, queueVars, loopVars
  <2>3. CASE SyncAllLowLevelReqDone
    BY <1>0, <2>3, QuietMoves DEF SyncAllLowLevelReqDone, poolVars, queueVars, loopVars
  <2> QED BY <1>1, <2>1, <2>2, <2>3 DEF Frontend
<1>2. ASSUME NEW r \in Req, NEW a \in (Block \cup {NoBlock}) \X (0..PagesPerBlock),
             IssueSubReq(r, a)
      PROVE  Moved(NoReq, r)
  BY <1>2, IssueSubReqMoves
<1>3. ASSUME SyncReleaseEraseReqDone
      PROVE  \E t \in Req : Moved(NoReq, t)
  BY <1>3, SyncReleaseEraseReqDoneMoves
<1>4. ASSUME SyncAllReturns \/ Hardware \/ CheckDoneNvmeDmaReq \/ UNCHANGED vars
      PROVE  Moved(NoReq, NoReq)
  <2>1. UNCHANGED <<reqPool, reqQueueType, blockingReq, nandReqQ, depVars, currentPage, syncReq>>
    BY <1>4 DEF SyncAllReturns, Hardware, HostDmaDone, CheckDoneNvmeDmaReq, vars, poolVars, queueVars,
                loopVars, ftlVars
  <2> QED BY <1>0, <2>1, QuietMoves
<1>5. ASSUME NEW d \in Die, GetFromNandReqQ(d)
      PROVE  \E l, t \in Req \cup {NoReq} : Moved(l, t)
  BY <1>5, GetFromNandReqQMoves
<1> QED BY <1>1, <1>2, <1>3, <1>4, <1>5, VisitNvmeDmaReqMoves, VisitRowAddrDepReqMoves DEF Next, Poll

-----------------------------------------------------------------------------
(* What every step that moves requests has in common.                      *)

\* The request that leaves was in a queue, the one that enters one was not in
\* the queue of a die or of the engine; the other requests stay.
LEMMA MovedRequests ==
  ASSUME IInv, IInv', NEW l \in Req \cup {NoReq}, NEW t \in Req \cup {NoReq}, Moved(l, t)
  PROVE  /\ l # NoReq => l \in Req /\ InQueue(l) /\ Outstanding(l) /\ ~Outstanding(l)' /\ l # t
         /\ t # NoReq => /\ t \in Req /\ Outstanding(t)' /\ WellFormed(reqPool'[t])
                         /\ reqQueueType[t] \notin {"NVME_DMA", "NAND"}
         /\ \A s \in Req : Outstanding(s)' <=> (Outstanding(s) /\ s # l) \/ s = t
         /\ \A s \in Req \ {l, t} : Outstanding(s) \/ Outstanding(s)' =>
              reqPool'[s] = reqPool[s] /\ reqQueueType'[s] = reqQueueType[s]
<1>1. l # NoReq => l \in Req /\ InQueue(l) /\ Outstanding(l) /\ ~Outstanding(l)' /\ l # t
  BY DEF Moved, Leaves, InQueue, Outstanding
<1>2. t # NoReq => t \in Req /\ Outstanding(t)' /\ reqQueueType[t] \notin {"NVME_DMA", "NAND"}
  BY DEF Moved, ComesFrom, Enters, Outstanding
<1>3. t # NoReq => WellFormed(reqPool'[t])
  BY <1>2 DEF IInv, RequestsOK, Outstanding
<1>4. \A s \in Req \ {l, t} : /\ Outstanding(s) <=> Outstanding(s)'
                              /\ Outstanding(s) => reqPool'[s] = reqPool[s] /\ reqQueueType'[s] = reqQueueType[s]
  BY DEF Moved, OthersStay, Outstanding
<1>5. \A s \in Req : Outstanding(s)' <=> (Outstanding(s) /\ s # l) \/ s = t
  BY <1>1, <1>2, <1>4, ReqAssumption
<1> QED BY <1>1, <1>2, <1>3, <1>4, <1>5

\* A request blocked by its row address that may pass after a step, on a die
\* with nothing to do then, was blocked and might have passed before it.
LEMMA MightHavePassed ==
  ASSUME IInv, IInv', CountsOK, NEW l \in Req \cup {NoReq}, NEW t \in Req \cup {NoReq}, Moved(l, t),
         NEW r \in Req, reqQueueType'[r] = "BLOCKED_BY_ROW_ADDR_DEP", NEW q, q = reqPool'[r],
         nandReqQ'[DieOfReq(q)] = <<>>, PassRowAddrDep(q)'
  PROVE  reqQueueType[r] = "BLOCKED_BY_ROW_ADDR_DEP" /\ reqPool[r] = q /\ PassRowAddrDep(q)
<1>2. q.reqCode \in NandCode /\ q.block \in Block /\ DieOfReq(q) \in Die /\ Outstanding(r)'
  <2>1. Outstanding(r)'
    BY DEF Outstanding
  <2>2. q.reqCode \in NandCode
    BY DEF IInv, QueuesOK, NandCodesOK
  <2>3. WellFormed(q)
    BY <2>1 DEF IInv, RequestsOK, Outstanding
  <2> QED BY <2>1, <2>2, <2>3, BlockAssumption DEF WellFormed, DieOfReq
<1>3. DepTypes /\ DepTypes' /\ \A k \in Block : blockedReadReqCnt[k] \in Nat
  <2>1. \A k : Cardinality(WaitingReads(k)) \in Nat
    BY CountedFinite, FS_CardinalityType
  <2>2. \A k \in Block : blockedReadReqCnt[k] \in Nat
    BY <2>1 DEF CountsOK
  <2>3. DepTypes /\ DepTypes'
    BY DEF IInv, TypeOK, DepTypes
  <2> QED BY <2>2, <2>3
<1>4. l # r /\ (l # NoReq => reqQueueType'[l] = "FREE")
  <2>1. l # NoReq => Leaves(l)
    BY DEF Moved
  <2>2. l # NoReq => reqQueueType'[l] = "FREE"
    BY <2>1 DEF Leaves
  <2> QED BY <2>2, ReqAssumption
<1>5. ASSUME t = r PROVE FALSE
  <2>1. r # NoReq /\ Enters(r)
    BY <1>5, ReqAssumption DEF Moved
  <2>2. /\ ~PassRowAddrDep(q)
        /\ UNCHANGED depVars \/ UpdateTableBlocked(q)
    BY <2>1 DEF Enters
  <2>3. ~PassRowAddrDep(q)'
    <3>1. CASE UNCHANGED depVars
      BY <2>2, <3>1 DEF PassRowAddrDep, depVars
    <3>2. CASE UpdateTableBlocked(q)
      BY <1>2, <1>3, <2>2, <3>2 DEF PassRowAddrDep, UpdateTableBlocked, NandCode, DepTypes
    <3> QED BY <2>2, <3>1, <3>2
  <2> QED BY <2>3
<1>6. t # r /\ reqQueueType[r] = "BLOCKED_BY_ROW_ADDR_DEP" /\ reqPool[r] = q
  <2>1. \A s \in Req \ {l, t} : Outstanding(s) \/ Outstanding(s)' =>
              reqPool'[s] = reqPool[s] /\ reqQueueType'[s] = reqQueueType[s]
    BY MovedRequests
  <2> QED BY <1>2, <1>4, <1>5, <2>1
<1>7. CASE UNCHANGED depVars
  BY <1>6, <1>7 DEF PassRowAddrDep, depVars
<1>8. CASE t # NoReq /\ reqQueueType'[t] = "NAND" /\ UpdateTablePassed(reqPool'[t], Blocked(t))
  <2>1. DieOfReq(reqPool'[t]) # DieOfReq(q)
    <3>1. ASSUME DieOfReq(reqPool'[t]) = DieOfReq(q) PROVE FALSE
      <4>1. nandReqQ'[DieOfReq(q)] = Append(Rest(DieOfReq(q), l), t)
        BY <1>2, <1>8, <3>1 DEF Moved, NandQueuesMove
      <4>2. Rest(DieOfReq(q), l) \in Seq(Req) /\ t \in Req
        BY <1>2, <1>8 DEF Rest, IInv, TypeOK
      <4>3. Append(Rest(DieOfReq(q), l), t) # <<>>
        BY <4>2
      <4> QED BY <4>1, <4>3
    <3> QED BY <3>1
  <2>2. reqPool'[t].block # q.block
    BY <2>1 DEF DieOfReq
  <2> QED BY <1>2, <1>3, <1>6, <1>8, <2>2 DEF PassRowAddrDep, UpdateTablePassed, NandCode, DepTypes
<1>9. CASE t # NoReq /\ UpdateTableBlocked(reqPool'[t])
  <2>1. permittedProgPage' = permittedProgPage
    BY <1>9 DEF UpdateTableBlocked
  <2>2. blockedReadReqCnt'[q.block] = 0 => blockedReadReqCnt[q.block] = 0
    BY <1>2, <1>3, <1>9 DEF UpdateTableBlocked, DepTypes
  <2> QED BY <1>2, <1>6, <2>1, <2>2 DEF PassRowAddrDep, NandCode
<1>10. \/ UNCHANGED depVars
       \/ t # NoReq /\ reqQueueType'[t] = "NAND" /\ UpdateTablePassed(reqPool'[t], Blocked(t))
       \/ t # NoReq /\ UpdateTableBlocked(reqPool'[t])
  BY DEF Moved, Enters
<1> QED BY <1>7, <1>8, <1>9, <1>10

-----------------------------------------------------------------------------
(* No wakeup is lost.                                                      *)

\* While a die has nothing to do, the requests blocked on it that may pass
\* are still to be visited.
Wakeup ==
  \A r \in Req : /\ reqQueueType[r] = "BLOCKED_BY_ROW_ADDR_DEP"
                 /\ nandReqQ[DieOfReq(reqPool[r])] = <<>>
                 /\ PassRowAddrDep(reqPool[r])
                 => r \in ToSet(rowAddrWalk)

\* Wakeup is kept by a step that leaves no die without work and visits nobody.
LEMMA WakeupKept ==
  ASSUME IInv, IInv', CountsOK, Wakeup, NEW l \in Req \cup {NoReq}, NEW t \in Req \cup {NoReq}, Moved(l, t),
         \A d \in Die : nandReqQ'[d] = <<>> => nandReqQ[d] = <<>> \/ rowAddrWalk' = rowAddrDepReqQ'[d],
         \/ UNCHANGED rowAddrWalk
         \/ rowAddrWalk = <<>>
         \/ /\ rowAddrWalk # <<>> /\ rowAddrWalk' = Tail(rowAddrWalk)
            /\ PassRowAddrDep(reqPool[Head(rowAddrWalk)]) =>
                 reqQueueType'[Head(rowAddrWalk)] # "BLOCKED_BY_ROW_ADDR_DEP"
  PROVE  Wakeup'
<1> SUFFICES ASSUME NEW r \in Req, reqQueueType'[r] = "BLOCKED_BY_ROW_ADDR_DEP", NEW q, q = reqPool'[r],
                    nandReqQ'[DieOfReq(q)] = <<>>, PassRowAddrDep(q)'
             PROVE  r \in ToSet(rowAddrWalk')
  BY DEF Wakeup, DieOfReq
<1>1. reqQueueType[r] = "BLOCKED_BY_ROW_ADDR_DEP" /\ reqPool[r] = q /\ PassRowAddrDep(q)
  BY MightHavePassed
<1>2. DieOfReq(q) \in Die
  BY <1>1, BlockAssumption DEF IInv, QueuesOK, NandCodesOK, RequestsOK, Outstanding, WellFormed, DieOfReq
<1>3. CASE rowAddrWalk' = rowAddrDepReqQ'[DieOfReq(q)]
  BY <1>2, <1>3 DEF IInv, QueuesOK, RowAddrQueuesOK, DieOfReq
<1>4. CASE nandReqQ[DieOfReq(q)] = <<>>
  <2>1. r \in ToSet(rowAddrWalk)
    BY <1>1, <1>4 DEF Wakeup
  <2>2. ASSUME rowAddrWalk # <<>>, rowAddrWalk' = Tail(rowAddrWalk),
               PassRowAddrDep(reqPool[Head(rowAddrWalk)]) =>
                 reqQueueType'[Head(rowAddrWalk)] # "BLOCKED_BY_ROW_ADDR_DEP"
        PROVE  r \in ToSet(rowAddrWalk')
    <3>1. r # Head(rowAddrWalk)
      BY <1>1, <2>2
    <3>2. PICK w : w = rowAddrWalk
      OBVIOUS
    <3>3. w \in Seq(Req) /\ NoDup(w) /\ w # <<>>
      BY <2>2, <3>2 DEF IInv, TypeOK, WalksOK
    <3>4. ToSet(Tail(w)) = ToSet(w) \ {Head(w)}
      BY <3>3, TailQueue
    <3> QED BY <2>1, <2>2, <3>1, <3>2, <3>4
  <2>3. rowAddrWalk # <<>>
    BY <2>1, EmptyQueue
  <2> QED BY <2>1, <2>2, <2>3
<1> QED BY <1>2, <1>3, <1>4

\* What the steps do to the queues of the dies and to what is still to visit.
LEMMA StepWakeup ==
  ASSUME IInv, CountsOK, Wakeup, [Next]_vars
  PROVE  Wakeup'
<1>1. IInv'
  BY StepIInv
<1>2. PICK l \in Req \cup {NoReq}, t \in Req \cup {NoReq} : Moved(l, t)
  BY StepMoves
<1>3. \A d \in Die, r \in Req : Append(nandReqQ[d], r) # <<>>
  <2> SUFFICES ASSUME NEW d \in Die, NEW r \in Req PROVE Append(nandReqQ[d], r) # <<>>
    OBVIOUS
  <2>1. PICK s : s = nandReqQ[d]
    OBVIOUS
  <2>2. s \in Seq(Req)
    BY <2>1 DEF IInv, TypeOK
  <2>3. Append(s, r) # <<>>
    BY <2>2, AppendProperties
  <2> QED BY <2>1, <2>2, <2>3
<1>4. nandReqQ \in [Die -> Seq(Req)]
  BY DEF IInv, TypeOK
<1>5. ASSUME UNCHANGED rowAddrWalk, \A d \in Die : nandReqQ'[d] = <<>> => nandReqQ[d] = <<>>
      PROVE  Wakeup'
  BY <1>1, <1>2, <1>5, WakeupKept
<1>6. ASSUME NEW r \in Req, NEW q, DispatchUnblocked(r, q)
      PROVE  \A d \in Die : nandReqQ'[d] = <<>> => nandReqQ[d] = <<>>
  BY <1>3, <1>4, <1>6 DEF DispatchUnblocked, PutToNvmeDmaReqQ, PutToNandReqQ, PutToBlockedByRowAddrDepReqQ
<1>7. ASSUME NEW r \in Req, NEW dmaQ, NEW nandQ \in [Die -> Seq(Req)], NEW nandCnt,
             ReleaseBlockedByBufDepReq(r, dmaQ, nandQ, nandCnt), InQueue(r)
      PROVE  \A d \in Die : nandReqQ'[d] = <<>> => nandQ[d] = <<>>
  <2>1. PICK target : target = NextBlockingReq(r)
    OBVIOUS
  <2>2. target # NoReq => target \in Req
    BY <1>7, <2>1, NextBlockingIsNext
  <2>3. \/ nandReqQ' = nandQ
        \/ /\ target # NoReq
           /\ nandReqQ' = [nandQ EXCEPT ![DieOfReq(reqPool[target])] = Append(@, target)]
    BY <1>7, <2>1 DEF ReleaseBlockedByBufDepReq
  <2> SUFFICES ASSUME NEW d \in Die, nandReqQ'[d] = <<>> PROVE nandQ[d] = <<>>
    OBVIOUS
  <2>4. PICK s : s = nandQ[d]
    OBVIOUS
  <2>5. target # NoReq => s \in Seq(Req) /\ Append(s, target) # <<>>
    BY <1>7, <2>2, <2>4
  <2> QED BY <1>7, <2>3, <2>4, <2>5
<1>8. CASE Frontend \/ SyncAllReturns \/ Hardware \/ CheckDoneNvmeDmaReq \/ UNCHANGED vars
  <2>1. UNCHANGED <<rowAddrWalk, nandReqQ>>
    <3>1. CASE Frontend
      <4>1. CASE \E r \in Req, b \in HostBuf, code \in HostCode, hit, fill \in BOOLEAN :
                   SliceRequest(r, b, code, hit, fill)
        BY <4>1 DEF SliceRequest, queueVars, loopVars
      <4>2. CASE \E d \in Die, e \in TempBuf, copies \in 0..MaxGcCopies : GarbageCollection(d, e, copies)
        BY <4>2 DEF GarbageCollection, queueVars, loopVars
      <4>3. CASE SyncAllLowLevelReqDone
        BY <4>3 DEF SyncAllLowLevelReqDone, queueVars, loopVars
      <4> QED BY <3>1, <4>1, <4>2, <4>3 DEF Frontend
    <3>2. CASE SyncAllReturns \/ Hardware \/ UNCHANGED vars
      BY <3>2 DEF SyncAllReturns, Hardware, HostDmaDone, vars, queueVars, loopVars
    <3>3. CASE CheckDoneNvmeDmaReq
      BY <3>3 DEF CheckDoneNvmeDmaReq, queueVars, loopVars
    <3> QED BY <1>8, <3>1, <3>2, <3>3
  <2> QED BY <1>5, <2>1
<1>9. ASSUME NEW r \in Req, NEW a \in (Block \cup {NoBlock}) \X (0..PagesPerBlock), IssueSubReq(r, a)
      PROVE  Wakeup'
  <2>1. PICK q : \/ UNCHANGED nandReqQ
                 \/ DispatchUnblocked(r, q)
    BY <1>9 DEF IssueSubReq, SelectLowLevelReqQ, queueVars, DispatchBufBlocked, PutToBlockedByBufDepReqQ
  <2> QED BY <1>5, <1>6, <1>9, <2>1 DEF IssueSubReq
<1>10. CASE SyncReleaseEraseReqDone
  <2>1. syncReq \in Req
    BY <1>10 DEF SyncReleaseEraseReqDone, IInv, TypeOK
  <2>2. PICK q : UNCHANGED nandReqQ \/ DispatchUnblocked(syncReq, q)
    BY <1>10 DEF SyncReleaseEraseReqDone, DispatchBufBlocked, PutToBlockedByBufDepReqQ
  <2> QED BY <1>5, <1>6, <1>10, <2>1, <2>2 DEF SyncReleaseEraseReqDone
<1>11. CASE VisitNvmeDmaReq
  <2>1. PICK r : r = dmaWalk.todo[Len(dmaWalk.todo)]
    OBVIOUS
  <2>2. r \in Req /\ InQueue(r)
    <3>1. PICK s : s = dmaWalk.todo
      OBVIOUS
    <3>2. s \in Seq(Req) /\ NoDup(s) /\ s # <<>> /\ \A e \in ToSet(s) : reqQueueType[e] = "NVME_DMA"
      BY <1>11, <3>1 DEF VisitNvmeDmaReq, IInv, TypeOK, WalksOK
    <3>3. s[Len(s)] \in Req /\ s[Len(s)] \in ToSet(s)
      BY <3>2, FrontQueue
    <3> QED BY <2>1, <3>1, <3>2, <3>3 DEF InQueue
  <2>3. \/ UNCHANGED nandReqQ
        \/ ReleaseBlockedByBufDepReq(r, Without(nvmeDmaReqQ, r), nandReqQ, notCompletedNandReqCnt)
    BY <1>11, <2>1 DEF VisitNvmeDmaReq, queueVars
  <2>4. \A d \in Die : nandReqQ'[d] = <<>> => nandReqQ[d] = <<>>
    BY <1>4, <1>7, <2>2, <2>3
  <2> QED BY <1>5, <1>11, <2>4 DEF VisitNvmeDmaReq
<1>12. ASSUME NEW d \in Die, GetFromNandReqQ(d)
       PROVE  Wakeup'
  <2>1. PICK s, r, nandQ : s = nandReqQ[d] /\ r = Head(s) /\ nandQ = [nandReqQ EXCEPT ![d] = Tail(@)]
    OBVIOUS
  <2>2. s \in Seq(Req) /\ s # <<>> /\ NoDup(s)
    BY <1>12, <2>1 DEF GetFromNandReqQ, IInv, TypeOK, QueuesOK, NandQueuesOK
  <2>3. r \in Req /\ r \in ToSet(s) /\ Tail(s) \in Seq(Req)
    BY <2>1, <2>2, TailQueue
  <2>4. InQueue(r) /\ nandQ \in [Die -> Seq(Req)]
    BY <1>4, <2>1, <2>3 DEF InQueue, IInv, QueuesOK, NandQueuesOK
  <2>5. ReleaseBlockedByBufDepReq(r, nvmeDmaReqQ, nandQ, notCompletedNandReqCnt - 1)
    BY <1>12, <2>1 DEF GetFromNandReqQ
  <2>6. \A e \in Die : nandReqQ'[e] = <<>> => nandQ[e] = <<>>
    BY <1>7, <2>3, <2>4, <2>5
  <2>7. rowAddrWalk = <<>> /\ rowAddrWalk' = IF nandReqQ'[d] = <<>> THEN rowAddrDepReqQ'[d] ELSE <<>>
    BY <1>12 DEF GetFromNandReqQ, NotWalking
  <2>8. \A e \in Die : nandReqQ'[e] = <<>> => nandReqQ[e] = <<>> \/ rowAddrWalk' = rowAddrDepReqQ'[e]
    BY <1>4, <2>1, <2>6, <2>7
  <2> QED BY <1>1, <1>2, <2>7, <2>8, WakeupKept
<1>13. CASE VisitRowAddrDepReq
  <2>1. /\ rowAddrWalk # <<>> /\ rowAddrWalk' = Tail(rowAddrWalk)
        /\ \/ /\ PassRowAddrDep(reqPool[Head(rowAddrWalk)])
              /\ nandReqQ' = [nandReqQ EXCEPT ![DieOfReq(reqPool[Head(rowAddrWalk)])] = Append(@, Head(rowAddrWalk))]
              /\ reqQueueType' = [reqQueueType EXCEPT ![Head(rowAddrWalk)] = "NAND"]
           \/ ~PassRowAddrDep(reqPool[Head(rowAddrWalk)]) /\ UNCHANGED nandReqQ
    BY <1>13 DEF VisitRowAddrDepReq, queueVars
  <2>2. Head(rowAddrWalk) \in Req
    <3>1. rowAddrWalk \in Seq(Req)
      BY DEF IInv, TypeOK
    <3> QED BY <2>1, <3>1
  <2>3. \A d \in Die : nandReqQ'[d] = <<>> => nandReqQ[d] = <<>>
    BY <1>3, <1>4, <2>1, <2>2
  <2>4. PassRowAddrDep(reqPool[Head(rowAddrWalk)]) =>
          reqQueueType'[Head(rowAddrWalk)] # "BLOCKED_BY_ROW_ADDR_DEP"
    BY <2>1, <2>2 DEF IInv, TypeOK
  <2> QED BY <1>1, <1>2, <2>1, <2>3, <2>4, WakeupKept
<1> QED BY <1>8, <1>9, <1>10, <1>11, <1>12, <1>13 DEF Next, Poll

\* The requests left blocked on a die with nothing to do cannot pass, so the
\* recheck when a die runs out of work is enough and the scan of the idle list
\* finds nothing (SchedulingNandReqPerCh, ReleaseBlockedByRowAddrDepReq).
THEOREM NoLostWakeupHolds == Spec => []NoLostWakeup
<1>1. Init => Wakeup
  BY DEF Init, Wakeup
<1>2. IInv /\ CountsOK /\ Wakeup /\ [Next]_vars => Wakeup'
  BY StepWakeup
<1>3. IInv /\ Wakeup => NoLostWakeup
  <2> SUFFICES ASSUME IInv, Wakeup, rowAddrWalk = <<>>, NEW d \in Die, nandReqQ[d] = <<>>,
                      NEW i \in 1..Len(rowAddrDepReqQ[d])
               PROVE  ~PassRowAddrDep(reqPool[rowAddrDepReqQ[d][i]])
    BY DEF NoLostWakeup, NotWalking
  <2>1. rowAddrDepReqQ[d][i] \in Req /\ rowAddrDepReqQ[d][i] \in ToSet(rowAddrDepReqQ[d])
    BY DEF IInv, TypeOK, ToSet
  <2>2. /\ reqQueueType[rowAddrDepReqQ[d][i]] = "BLOCKED_BY_ROW_ADDR_DEP"
        /\ DieOfReq(reqPool[rowAddrDepReqQ[d][i]]) = d
    BY <2>1 DEF IInv, QueuesOK, RowAddrQueuesOK
  <2> QED BY <2>1, <2>2, EmptyQueue DEF Wakeup
<1> QED BY <1>1, <1>2, <1>3, IInvHolds, CountsHold, PTL DEF Spec

-----------------------------------------------------------------------------
(* Transfers complete when the engine has finished them.                   *)

\* The engine's queue holds transfers.
DmaCodesOK == \A r \in Req : reqQueueType[r] = "NVME_DMA" => reqPool[r].reqCode \in DmaCode

\* What CheckDoneNvmeDmaReq has still to visit is a prefix of the queue.
DmaPrefix ==
  /\ Len(dmaWalk.todo) <= Len(nvmeDmaReqQ)
  /\ \A i \in 1..Len(dmaWalk.todo) : dmaWalk.todo[i] = nvmeDmaReqQ[i]

\* The engine finishes the transfers of one direction in order.
DmaFifo ==
  \A p, s \in Req : /\ Before(nvmeDmaReqQ, p, s)
                    /\ reqPool[p].reqCode = reqPool[s].reqCode
                    /\ s \in dmaDone
                    => p \in dmaDone

\* When the walk has seen a finished transfer, the rest of that direction is
\* finished.
DmaFlags ==
  \A r \in ToSet(dmaWalk.todo) :
    (IF reqPool[r].reqCode = "RxDMA" THEN dmaWalk.rxDone ELSE dmaWalk.txDone) => r \in dmaDone

\* The DMA queue is exact: order, flags and what has finished.
DmaOK == /\ DmaCodesOK /\ DmaPrefix /\ DmaFifo /\ DmaFlags
         /\ dmaDone \subseteq ToSet(nvmeDmaReqQ)

\* The queue is as before or has one more transfer.
Grown(s, u) == u = s \/ \E x \in Req \ ToSet(s) : u = Append(s, x)

\* What a queue that has grown keeps.
LEMMA GrownKeeps ==
  ASSUME NEW s \in Seq(Req), NEW u, Grown(s, u)
  PROVE  /\ Len(s) <= Len(u) /\ \A i \in 1..Len(s) : u[i] = s[i]
         /\ ToSet(s) \subseteq ToSet(u)
         /\ \A p, e \in Req : Before(u, p, e) => Before(s, p, e) \/ e \notin ToSet(s)
<1>1. CASE u = s
  BY <1>1
<1>2. CASE u # s
  <2>1. PICK x \in Req : x \notin ToSet(s) /\ u = Append(s, x)
    BY <1>2 DEF Grown
  <2>2. Len(u) = Len(s) + 1 /\ \A i \in 1..Len(s) : u[i] = s[i]
    BY <2>1
  <2>3. \A p, e : Before(u, p, e) <=> Before(s, p, e) \/ (p \in ToSet(s) /\ e = x)
    BY <2>1, BeforeAppend
  <2> QED BY <2>1, <2>2, <2>3 DEF ToSet
<1> QED BY <1>1, <1>2

\* A step that takes no transfer off the queue keeps DmaOK.
LEMMA DmaKept ==
  ASSUME IInv, IInv', DmaOK, NEW l \in Req \cup {NoReq}, NEW t \in Req \cup {NoReq}, Moved(l, t),
         Grown(nvmeDmaReqQ, nvmeDmaReqQ'), UNCHANGED <<dmaWalk, dmaDone>>
  PROVE  /\ DmaOK'
         /\ \A r \in Req : reqQueueType[r] = "NVME_DMA" => reqQueueType'[r] = "NVME_DMA"
<1>1. PICK s, u : s = nvmeDmaReqQ /\ u = nvmeDmaReqQ'
  OBVIOUS
<1>2. s \in Seq(Req) /\ u \in Seq(Req)
  BY <1>1 DEF IInv, TypeOK
<1>3. /\ Len(s) <= Len(u) /\ \A i \in 1..Len(s) : u[i] = s[i]
      /\ ToSet(s) \subseteq ToSet(u)
      /\ \A p, e \in Req : Before(u, p, e) => Before(s, p, e) \/ e \notin ToSet(s)
  BY <1>1, <1>2, GrownKeeps
<1>4. \A r \in Req : /\ r \in ToSet(s) <=> reqQueueType[r] = "NVME_DMA"
                     /\ r \in ToSet(u) <=> reqQueueType'[r] = "NVME_DMA"
  BY <1>1 DEF IInv, QueuesOK, DmaQueueOK
<1>5. \A r \in Req : r \in ToSet(s) => reqQueueType'[r] = "NVME_DMA" /\ reqPool'[r] = reqPool[r]
  <2> SUFFICES ASSUME NEW r \in Req, r \in ToSet(s)
               PROVE  reqQueueType'[r] = "NVME_DMA" /\ reqPool'[r] = reqPool[r]
    OBVIOUS
  <2>1. reqQueueType[r] = "NVME_DMA" /\ reqQueueType'[r] = "NVME_DMA"
    BY <1>3, <1>4
  <2>2. Outstanding(r) /\ Outstanding(r)'
    BY <2>1 DEF Outstanding
  <2>3. r # l /\ r # t
    BY <2>1, <2>2, MovedRequests, ReqAssumption
  <2> QED BY <2>1, <2>2, <2>3, MovedRequests
<1>6. DmaCodesOK'
  <2> SUFFICES ASSUME NEW r \in Req, reqQueueType'[r] = "NVME_DMA"
               PROVE  reqPool'[r].reqCode \in DmaCode
    BY DEF DmaCodesOK
  <2>1. CASE r \in ToSet(s)
    BY <1>4, <1>5, <2>1 DEF DmaOK, DmaCodesOK
  <2>2. CASE r \notin ToSet(s)
    <3>1. reqQueueType[r] # "NVME_DMA" /\ Outstanding(r)'
      BY <1>4, <2>2 DEF Outstanding
    <3>2. r = t
      BY <3>1, MovedRequests
    <3> QED BY <3>2, ReqAssumption DEF Moved, Enters
  <2> QED BY <2>1, <2>2
<1>7. ToSet(dmaWalk.todo) \subseteq ToSet(s)
  <2>1. dmaWalk.todo \in Seq(Req)
    BY DEF IInv, TypeOK
  <2> QED BY <1>1, <1>2, <2>1 DEF DmaOK, DmaPrefix, ToSet
<1>8. DmaPrefix'
  <2>1. dmaWalk.todo \in Seq(Req)
    BY DEF IInv, TypeOK
  <2> QED BY <1>1, <1>2, <1>3, <2>1 DEF DmaOK, DmaPrefix
<1>9. DmaFifo'
  <2> SUFFICES ASSUME NEW p \in Req, NEW e \in Req, Before(u, p, e),
                      reqPool'[p].reqCode = reqPool'[e].reqCode, e \in dmaDone
               PROVE  p \in dmaDone
    BY <1>1 DEF DmaFifo
  <2>1. e \in ToSet(s)
    BY <1>1 DEF DmaOK
  <2>2. Before(s, p, e)
    BY <1>3, <2>1
  <2>3. p \in ToSet(s)
    BY <1>2, <2>2 DEF Before, ToSet
  <2> QED BY <1>1, <1>5, <2>1, <2>2, <2>3 DEF DmaOK, DmaFifo
<1>10. DmaFlags'
  <2>0. ToSet(s) \subseteq Req
    BY <1>2 DEF ToSet
  <2>1. \A r \in ToSet(dmaWalk.todo) : r \in Req /\ reqPool'[r] = reqPool[r]
    BY <1>5, <1>7, <2>0
  <2> QED BY <2>1 DEF DmaOK, DmaFlags
<1>11. dmaDone' \subseteq ToSet(u)
  BY <1>1, <1>3 DEF DmaOK
<1> QED BY <1>1, <1>4, <1>5, <1>6, <1>8, <1>9, <1>10, <1>11 DEF DmaOK

\* The walk is at transfer r and completes it.
DmaVisit(r) ==
  /\ VisitNvmeDmaReq /\ r = dmaWalk.todo[Len(dmaWalk.todo)]
  /\ ReleaseBlockedByBufDepReq(r, Without(nvmeDmaReqQ, r), nandReqQ, notCompletedNandReqCnt)

\* The visit that completes transfer r, which the engine has finished.
LEMMA DmaVisited ==
  ASSUME IInv, IInv', DmaOK, NEW l \in Req \cup {NoReq}, NEW t \in Req \cup {NoReq}, Moved(l, t),
         NEW r, DmaVisit(r)
  PROVE  /\ DmaOK' /\ r \in dmaDone
         /\ \A e \in Req : reqQueueType[e] = "NVME_DMA" /\ e # r => reqQueueType'[e] = "NVME_DMA"
<1>1. PICK s, u, w, n : s = nvmeDmaReqQ /\ u = nvmeDmaReqQ' /\ w = Without(s, r) /\ n = Len(dmaWalk.todo)
  OBVIOUS
<1>2. PICK todo, rest : todo = dmaWalk.todo /\ rest = SubSeq(todo, 1, n - 1)
  OBVIOUS
<1>3. PICK isRx, done : /\ isRx = (reqPool[r].reqCode = "RxDMA")
                        /\ done = ((IF isRx THEN dmaWalk.rxDone ELSE dmaWalk.txDone) \/ r \in dmaDone)
  OBVIOUS
<1>a. /\ VisitNvmeDmaReq /\ r = dmaWalk.todo[Len(dmaWalk.todo)]
      /\ ReleaseBlockedByBufDepReq(r, w, nandReqQ, notCompletedNandReqCnt)
  BY <1>1 DEF DmaVisit
<1>4. /\ todo \in Seq(Req) /\ NoDup(todo) /\ todo # <<>> /\ s \in Seq(Req) /\ u \in Seq(Req) /\ NoDup(s)
      /\ dmaWalk.rxDone \in BOOLEAN /\ dmaWalk.txDone \in BOOLEAN
      /\ \A e \in ToSet(todo) : reqQueueType[e] = "NVME_DMA"
  BY <1>a, <1>1, <1>2 DEF VisitNvmeDmaReq, IInv, TypeOK, WalksOK, QueuesOK, DmaQueueOK
<1>5. /\ r \in Req /\ r \in ToSet(todo) /\ n \in 1..Len(s) /\ s[n] = r /\ n = Len(todo)
      /\ rest \in Seq(Req) /\ ToSet(rest) = ToSet(todo) \ {r} /\ NoDup(rest)
      /\ Len(rest) = n - 1 /\ \A i \in 1..(n - 1) : rest[i] = s[i]
  <2>1. r \in Req /\ r \in ToSet(todo) /\ rest \in Seq(Req) /\ ToSet(rest) = ToSet(todo) \ {r} /\ NoDup(rest)
    BY <1>a, <1>1, <1>2, <1>4, FrontQueue
  <2>2. n \in Nat \ {0} /\ n = Len(todo) /\ Len(rest) = n - 1 /\ \A i \in 1..(n - 1) : rest[i] = todo[i]
    BY <1>1, <1>2, <1>4
  <2>3. n <= Len(s) /\ \A i \in 1..n : todo[i] = s[i]
    BY <1>1, <1>2 DEF DmaOK, DmaPrefix
  <2> QED BY <1>a, <1>1, <1>2, <1>4, <2>1, <2>2, <2>3
<1>6. /\ dmaWalk'.todo = rest
      /\ dmaWalk'.rxDone = (dmaWalk.rxDone \/ (isRx /\ done))
      /\ dmaWalk'.txDone = (dmaWalk.txDone \/ (~isRx /\ done))
  BY <1>a, <1>1, <1>2, <1>3 DEF VisitNvmeDmaReq
<1>7. /\ w \in Seq(Req) /\ NoDup(w) /\ ToSet(w) = ToSet(s) \ {r} /\ Len(w) = Len(s) - 1
      /\ \A i \in 1..(n - 1) : w[i] = s[i]
      /\ \A p, e : p # r /\ e # r /\ Before(w, p, e) => Before(s, p, e)
  <2>1. IndexOf(s, r) = n
    <3>1. IndexOf(s, r) \in 1..Len(s) /\ s[IndexOf(s, r)] = r
      BY <1>5 DEF IndexOf
    <3> QED BY <1>4, <1>5, <3>1 DEF NoDup
  <2>2. w = RemoveAt(s, n)
    BY <1>1, <2>1 DEF Without
  <2>3. w \in Seq(Req) /\ TakenOut(s, w, n)
    BY <1>4, <1>5, <2>2, RemoveAtTaken
  <2>4. NoDup(w) /\ ToSet(w) = ToSet(s) \ {r}
    BY <1>4, <1>5, <2>3, ShortQueue
  <2>5. \A p, e : p # r /\ e # r /\ Before(w, p, e) => Before(s, p, e)
    BY <1>4, <1>5, <2>3, BeforeTakenOut
  <2> QED BY <1>4, <1>5, <2>3, <2>4, <2>5 DEF TakenOut
<1>8. reqQueueType[r] = "NVME_DMA" /\ InQueue(r) /\ reqPool[r].reqCode \in DmaCode
  BY <1>4, <1>5 DEF InQueue, DmaOK, DmaCodesOK
<1>9. PICK target : target = NextBlockingReq(r)
  OBVIOUS
<1>10. target # NoReq => target \in Req /\ target # r
  BY <1>5, <1>8, <1>9, NextBlockingIsNext
<1>11. /\ reqPool' = [reqPool EXCEPT ![r] = NoRequest]
       /\ \/ /\ reqQueueType' = [reqQueueType EXCEPT ![r] = "FREE"]
             /\ u = w
          \/ /\ target # NoReq /\ reqQueueType[target] = "BLOCKED_BY_BUF_DEP"
             /\ \E x \in QueueType : /\ reqQueueType' = [reqQueueType EXCEPT ![r] = "FREE", ![target] = x]
                                     /\ u = IF x = "NVME_DMA" THEN Append(w, target) ELSE w
  BY <1>a, <1>1, <1>9 DEF ReleaseBlockedByBufDepReq, QueueType
<1>12. /\ reqQueueType'[r] = "FREE" /\ Grown(w, u)
       /\ \A e \in Req : reqQueueType[e] = "NVME_DMA" /\ e # r => reqQueueType'[e] = "NVME_DMA"
       /\ \A e \in Req \ {r} : reqPool'[e] = reqPool[e]
  <2>1. reqPool \in [Req -> Request] /\ reqQueueType \in [Req -> QueueType]
    BY DEF IInv, TypeOK
  <2>2. target # NoReq /\ reqQueueType[target] = "BLOCKED_BY_BUF_DEP" => target \notin ToSet(w)
    BY <1>1, <1>7, <1>10 DEF IInv, QueuesOK, DmaQueueOK
  <2>3. Grown(w, u)
    BY <1>10, <1>11, <2>2 DEF Grown
  <2> QED BY <1>5, <1>10, <1>11, <2>1, <2>3
<1>13. /\ dmaDone' = dmaDone \ {r} /\ r \in dmaDone
       /\ IF isRx THEN dmaWalk'.rxDone = TRUE /\ dmaWalk'.txDone = dmaWalk.txDone
          ELSE dmaWalk'.txDone = TRUE /\ dmaWalk'.rxDone = dmaWalk.rxDone
  <2>1. \/ done /\ dmaDone' = dmaDone \ {r}
        \/ UNCHANGED reqQueueType
    BY <1>a, <1>1, <1>2, <1>3 DEF VisitNvmeDmaReq, poolVars
  <2>2. done /\ dmaDone' = dmaDone \ {r}
    BY <1>8, <1>12, <2>1
  <2>3. r \in dmaDone
    BY <1>2, <1>3, <1>5, <2>2 DEF DmaOK, DmaFlags
  <2> QED BY <1>3, <1>4, <1>6, <2>2, <2>3
<1>14. /\ Len(w) <= Len(u) /\ \A i \in 1..Len(w) : u[i] = w[i]
       /\ ToSet(w) \subseteq ToSet(u)
       /\ \A p, e \in Req : Before(u, p, e) => Before(w, p, e) \/ e \notin ToSet(w)
  BY <1>7, <1>12, GrownKeeps
<1>15. DmaCodesOK'
  <2> SUFFICES ASSUME NEW e \in Req, reqQueueType'[e] = "NVME_DMA"
               PROVE  reqPool'[e].reqCode \in DmaCode
    BY DEF DmaCodesOK
  <2>1. e # r /\ reqPool'[e] = reqPool[e]
    BY <1>12
  <2>2. CASE reqQueueType[e] = "NVME_DMA"
    BY <2>1, <2>2 DEF DmaOK, DmaCodesOK
  <2>3. CASE reqQueueType[e] # "NVME_DMA"
    <3>1. e # l
      BY <1>12, ReqAssumption DEF Moved, Leaves
    <3>2. Outstanding(e)' /\ reqQueueType'[e] # reqQueueType[e]
      BY <2>3 DEF Outstanding
    <3>3. e = t
      BY <3>1, <3>2, MovedRequests
    <3> QED BY <3>3, ReqAssumption DEF Moved, Enters
  <2> QED BY <2>2, <2>3
<1>16. DmaPrefix'
  <2>1. \A i \in 1..(n - 1) : u[i] = s[i]
    BY <1>4, <1>5, <1>7, <1>14
  <2>2. n - 1 <= Len(u)
    BY <1>4, <1>5, <1>7, <1>14
  <2> QED BY <1>1, <1>5, <1>6, <2>1, <2>2 DEF DmaPrefix
<1>17. DmaFifo'
  <2> SUFFICES ASSUME NEW p \in Req, NEW e \in Req, Before(u, p, e),
                      reqPool'[p].reqCode = reqPool'[e].reqCode, e \in dmaDone'
               PROVE  p \in dmaDone'
    BY <1>1 DEF DmaFifo
  <2>1. e \in ToSet(w) /\ e \in dmaDone /\ e # r
    BY <1>1, <1>7, <1>13 DEF DmaOK
  <2>2. Before(w, p, e)
    BY <1>14, <2>1
  <2>3. p \in ToSet(w)
    BY <1>7, <2>2 DEF Before, ToSet
  <2>4. p # r /\ Before(s, p, e)
    BY <1>7, <2>1, <2>2, <2>3
  <2> QED BY <1>1, <1>12, <1>13, <2>1, <2>4 DEF DmaOK, DmaFifo
<1>18. DmaFlags'
  <2> SUFFICES ASSUME NEW e \in ToSet(rest),
                      IF reqPool'[e].reqCode = "RxDMA" THEN dmaWalk'.rxDone ELSE dmaWalk'.txDone
               PROVE  e \in dmaDone'
    BY <1>6 DEF DmaFlags
  <2>1. e \in ToSet(todo) /\ e # r /\ e \in Req /\ reqPool'[e] = reqPool[e]
    <3>1. ToSet(todo) \subseteq Req
      BY <1>4 DEF ToSet
    <3> QED BY <1>5, <1>12, <3>1
  <2>2. reqPool[e].reqCode \in DmaCode
    BY <1>4, <2>1 DEF DmaOK, DmaCodesOK
  <2>3. CASE reqPool[e].reqCode = reqPool[r].reqCode
    <3>1. Before(s, e, r)
      <4>1. PICK i \in 1..Len(rest) : rest[i] = e
        BY DEF ToSet
      <4>2. i \in 1..Len(s) /\ i < n /\ s[i] = e
        BY <1>4, <1>5, <4>1
      <4> QED BY <1>5, <4>2 DEF Before
    <3> QED BY <1>1, <1>5, <1>13, <2>1, <2>3, <3>1 DEF DmaOK, DmaFifo
  <2>4. CASE reqPool[e].reqCode # reqPool[r].reqCode
    <3>1. IF reqPool[e].reqCode = "RxDMA" THEN dmaWalk.rxDone ELSE dmaWalk.txDone
      BY <1>3, <1>8, <1>13, <2>1, <2>2, <2>4 DEF DmaCode
    <3> QED BY <1>2, <1>13, <2>1, <3>1 DEF DmaOK, DmaFlags
  <2> QED BY <2>3, <2>4
<1>19. dmaDone' \subseteq ToSet(u)
  BY <1>1, <1>7, <1>13, <1>14 DEF DmaOK
<1> QED BY <1>1, <1>12, <1>13, <1>15, <1>16, <1>17, <1>18, <1>19 DEF DmaOK

\* The engine finishes a transfer, the walk starts, a visit finds nothing done.
LEMMA DmaStill ==
  ASSUME IInv, DmaOK, UNCHANGED <<reqPool, reqQueueType, nvmeDmaReqQ>>,
         \/ \E r \in Req : HostDmaDone(r)
         \/ CheckDoneNvmeDmaReq
         \/ VisitNvmeDmaReq /\ UNCHANGED dmaDone
         \/ UNCHANGED <<dmaWalk, dmaDone>>
  PROVE  DmaOK'
<1>1. PICK s, todo : s = nvmeDmaReqQ /\ todo = dmaWalk.todo
  OBVIOUS
<1>2. s \in Seq(Req) /\ todo \in Seq(Req) /\ NoDup(s) /\ NoDup(todo)
  BY <1>1 DEF IInv, TypeOK, QueuesOK, DmaQueueOK, WalksOK
<1>3. DmaCodesOK'
  BY DEF DmaOK, DmaCodesOK
<1>4. ASSUME NEW r \in Req, HostDmaDone(r) PROVE DmaOK'
  <2>1. /\ r \in ToSet(s) /\ dmaDone' = dmaDone \cup {r} /\ UNCHANGED dmaWalk
        /\ \A i \in 1..IndexOf(s, r) : \/ reqPool[s[i]].reqCode # reqPool[r].reqCode
                                       \/ s[i] \in dmaDone \cup {r}
    BY <1>1, <1>4 DEF HostDmaDone, loopVars
  <2>2. DmaPrefix' /\ DmaFlags' /\ dmaDone' \subseteq ToSet(nvmeDmaReqQ')
    BY <1>1, <2>1 DEF DmaOK, DmaPrefix, DmaFlags
  <2>3. DmaFifo'
    <3> SUFFICES ASSUME NEW p \in Req, NEW e \in Req, Before(s, p, e),
                        reqPool[p].reqCode = reqPool[e].reqCode, e \in dmaDone \cup {r}
                 PROVE  p \in dmaDone \cup {r}
      BY <1>1, <2>1 DEF DmaFifo
    <3>1. CASE e \in dmaDone
      BY <1>1, <3>1 DEF DmaOK, DmaFifo
    <3>2. CASE e = r
      <4>1. PICK i \in 1..Len(s), j \in 1..Len(s) : i < j /\ s[i] = p /\ s[j] = e
        BY DEF Before
      <4>2. IndexOf(s, r) \in 1..Len(s) /\ s[IndexOf(s, r)] = r
        BY <2>1 DEF IndexOf, ToSet
      <4>3. i \in 1..IndexOf(s, r)
        BY <1>2, <3>2, <4>1, <4>2 DEF NoDup
      <4> QED BY <2>1, <3>2, <4>1, <4>3
    <3> QED BY <3>1, <3>2
  <2> QED BY <1>3, <2>2, <2>3 DEF DmaOK
<1>5. CASE CheckDoneNvmeDmaReq
  <2>1. dmaWalk' = [todo |-> s, rxDone |-> FALSE, txDone |-> FALSE] /\ UNCHANGED dmaDone
    BY <1>1, <1>5 DEF CheckDoneNvmeDmaReq
  <2>2. DmaPrefix' /\ DmaFlags'
    BY <1>1, <1>2, <2>1 DEF DmaPrefix, DmaFlags
  <2>3. DmaFifo' /\ dmaDone' \subseteq ToSet(nvmeDmaReqQ')
    BY <2>1 DEF DmaOK, DmaFifo
  <2> QED BY <1>3, <2>2, <2>3 DEF DmaOK
<1>6. CASE VisitNvmeDmaReq /\ UNCHANGED dmaDone
  <2>1. PICK r, n, done : /\ n = Len(todo) /\ r = todo[n]
                          /\ done = ((IF reqPool[r].reqCode = "RxDMA" THEN dmaWalk.rxDone ELSE dmaWalk.txDone) \/ r \in dmaDone)
    OBVIOUS
  <2>2. /\ todo # <<>>
        /\ dmaWalk' = [todo   |-> SubSeq(todo, 1, n - 1),
                       rxDone |-> dmaWalk.rxDone \/ (reqPool[r].reqCode = "RxDMA" /\ done),
                       txDone |-> dmaWalk.txDone \/ (~(reqPool[r].reqCode = "RxDMA") /\ done)]
        /\ done => dmaDone' = dmaDone \ {r}
    BY <1>1, <1>6, <2>1 DEF VisitNvmeDmaReq
  <2>3. n \in Nat \ {0} /\ r \in ToSet(todo)
    BY <1>2, <2>1, <2>2 DEF ToSet
  <2>4. ~done
    <3>1. done => r \in dmaDone
      BY <1>1, <2>1, <2>3 DEF DmaOK, DmaFlags
    <3> QED BY <1>6, <2>2, <3>1
  <2>5. dmaWalk'.rxDone = dmaWalk.rxDone /\ dmaWalk'.txDone = dmaWalk.txDone
    <3>1. dmaWalk.rxDone \in BOOLEAN /\ dmaWalk.txDone \in BOOLEAN
      BY DEF IInv, TypeOK
    <3> QED BY <2>2, <2>4, <3>1
  <2>6. PICK rest : rest = SubSeq(todo, 1, n - 1)
    OBVIOUS
  <2>7. Len(rest) = n - 1 /\ (\A i \in 1..(n - 1) : rest[i] = todo[i]) /\ ToSet(rest) \subseteq ToSet(todo)
    <3>1. Len(rest) = n - 1 /\ (\A i \in 1..(n - 1) : rest[i] = todo[i])
      BY <1>2, <2>1, <2>3, <2>6
    <3>2. ToSet(rest) \subseteq ToSet(todo)
      BY <1>2, <2>1, <2>2, <2>6, FrontQueue
    <3> QED BY <3>1, <3>2
  <2>8. DmaPrefix'
    <3>1. n \in Nat /\ Len(s) \in Nat /\ n =< Len(s) /\ \A i \in 1..n : todo[i] = s[i]
      BY <1>1, <1>2, <2>1 DEF DmaOK, DmaPrefix
    <3>2. dmaWalk'.todo = rest /\ nvmeDmaReqQ' = s
      BY <1>1, <2>2, <2>6
    <3>3. Len(rest) =< Len(s) /\ \A i \in 1..Len(rest) : rest[i] = s[i]
      BY <2>3, <2>7, <3>1
    <3> QED BY <3>2, <3>3 DEF DmaPrefix
  <2>9. DmaFlags'
    BY <1>1, <1>6, <2>2, <2>5, <2>6, <2>7 DEF DmaOK, DmaFlags
  <2>10. DmaFifo' /\ dmaDone' \subseteq ToSet(nvmeDmaReqQ')
    BY <1>6 DEF DmaOK, DmaFifo
  <2> QED BY <1>3, <2>8, <2>9, <2>10 DEF DmaOK
<1>7. CASE UNCHANGED <<dmaWalk, dmaDone>>
  BY <1>3, <1>7 DEF DmaOK, DmaPrefix, DmaFlags, DmaFifo
<1> QED BY <1>4, <1>5, <1>6, <1>7

\* A request may be finished only by the walk, and only if the engine is done.
LEMMA StepDma ==
  ASSUME IInv, DmaOK, [Next]_vars
  PROVE  /\ DmaOK'
         /\ \A r \in Req : reqQueueType[r] = "NVME_DMA" /\ reqQueueType'[r] # "NVME_DMA" => r \in dmaDone
<1> DEFINE Finished == \A r \in Req : reqQueueType[r] = "NVME_DMA" /\ reqQueueType'[r] # "NVME_DMA"
                                      => r \in dmaDone
<1>1. IInv'
  BY StepIInv
<1>2. PICK l \in Req \cup {NoReq}, t \in Req \cup {NoReq} : Moved(l, t)
  BY StepMoves
<1>3. ASSUME Grown(nvmeDmaReqQ, nvmeDmaReqQ'), UNCHANGED <<dmaWalk, dmaDone>>
      PROVE  DmaOK' /\ Finished
  BY <1>1, <1>2, <1>3, DmaKept
<1>4. ASSUME NEW r \in Req, NEW q, DispatchUnblocked(r, q) \/ DispatchBufBlocked(r, q),
             reqQueueType[r] # "NVME_DMA"
      PROVE  Grown(nvmeDmaReqQ, nvmeDmaReqQ')
  <2>1. r \notin ToSet(nvmeDmaReqQ)
    BY <1>4 DEF IInv, QueuesOK, DmaQueueOK
  <2> QED BY <1>4, <2>1 DEF Grown, DispatchUnblocked, DispatchBufBlocked, PutToNvmeDmaReqQ, PutToNandReqQ,
                            PutToBlockedByRowAddrDepReqQ, PutToBlockedByBufDepReqQ
<1>5. CASE Frontend \/ SyncAllReturns \/ Hardware \/ CheckDoneNvmeDmaReq \/ UNCHANGED vars
  <2>1. CASE Frontend
    <3>1. \A r \in Req : reqQueueType[r] = "NVME_DMA" => reqQueueType'[r] = "NVME_DMA"
      BY <2>1 DEF Frontend, SliceRequest, GarbageCollection, SyncAllLowLevelReqDone, poolVars, FreeReq,
                  IInv, TypeOK
    <3>2. UNCHANGED <<nvmeDmaReqQ, dmaWalk, dmaDone>>
      <4>1. CASE \E r \in Req, b \in HostBuf, code \in HostCode, hit, fill \in BOOLEAN :
                   SliceRequest(r, b, code, hit, fill)
        BY <4>1 DEF SliceRequest, queueVars, loopVars
      <4>2. CASE \E d \in Die, e \in TempBuf, copies \in 0..MaxGcCopies : GarbageCollection(d, e, copies)
        BY <4>2 DEF GarbageCollection, queueVars, loopVars
      <4>3. CASE SyncAllLowLevelReqDone
        BY <4>3 DEF SyncAllLowLevelReqDone, queueVars, loopVars
      <4> QED BY <2>1, <4>1, <4>2, <4>3 DEF Frontend
    <3> QED BY <1>3, <3>1, <3>2 DEF Grown
  <2>2. CASE ~Frontend
    <3>1. UNCHANGED <<reqPool, reqQueueType, nvmeDmaReqQ>>
      BY <1>5, <2>2 DEF SyncAllReturns, Hardware, HostDmaDone, CheckDoneNvmeDmaReq, vars, poolVars, queueVars
    <3>2. \/ \E r \in Req : HostDmaDone(r)
          \/ CheckDoneNvmeDmaReq
          \/ UNCHANGED <<dmaWalk, dmaDone>>
      BY <1>5, <2>2 DEF SyncAllReturns, Hardware, vars, loopVars
    <3> QED BY <3>1, <3>2, DmaStill
  <2> QED BY <2>1, <2>2
<1>6. ASSUME NEW r \in Req, NEW a \in (Block \cup {NoBlock}) \X (0..PagesPerBlock), IssueSubReq(r, a)
      PROVE  DmaOK' /\ Finished
  <2>1. reqQueueType[r] # "NVME_DMA"
    BY <1>6, ReqAssumption DEF IssueSubReq, FreeReq, IInv, InHandOK
  <2>2. PICK q : UNCHANGED nvmeDmaReqQ \/ DispatchUnblocked(r, q) \/ DispatchBufBlocked(r, q)
    BY <1>6 DEF IssueSubReq, SelectLowLevelReqQ, queueVars
  <2>3. Grown(nvmeDmaReqQ, nvmeDmaReqQ')
    BY <1>4, <2>1, <2>2 DEF Grown
  <2> QED BY <1>3, <1>6, <2>3 DEF IssueSubReq
<1>7. CASE SyncReleaseEraseReqDone
  <2>1. syncReq \in Req /\ reqQueueType[syncReq] # "NVME_DMA"
    BY <1>7 DEF SyncReleaseEraseReqDone, IInv, TypeOK, InHandOK
  <2>2. PICK q : DispatchUnblocked(syncReq, q) \/ DispatchBufBlocked(syncReq, q)
    BY <1>7 DEF SyncReleaseEraseReqDone
  <2>3. Grown(nvmeDmaReqQ, nvmeDmaReqQ')
    BY <1>4, <2>1, <2>2
  <2> QED BY <1>3, <1>7, <2>3 DEF SyncReleaseEraseReqDone
<1>8. CASE VisitNvmeDmaReq
  <2>1. PICK r : r = dmaWalk.todo[Len(dmaWalk.todo)]
    OBVIOUS
  <2>2. \/ ReleaseBlockedByBufDepReq(r, Without(nvmeDmaReqQ, r), nandReqQ, notCompletedNandReqCnt)
        \/ UNCHANGED <<poolVars, queueVars, dmaDone>>
    BY <1>8, <2>1 DEF VisitNvmeDmaReq
  <2>3. CASE ReleaseBlockedByBufDepReq(r, Without(nvmeDmaReqQ, r), nandReqQ, notCompletedNandReqCnt)
    <3>1. /\ DmaOK' /\ r \in dmaDone
          /\ \A e \in Req : reqQueueType[e] = "NVME_DMA" /\ e # r => reqQueueType'[e] = "NVME_DMA"
      <4>1. DmaVisit(r)
        BY <1>8, <2>1, <2>3 DEF DmaVisit
      <4> QED BY <1>1, <1>2, <4>1, DmaVisited
    <3> QED BY <3>1
  <2>4. CASE UNCHANGED <<poolVars, queueVars, dmaDone>>
    <3>1. UNCHANGED <<reqPool, reqQueueType, nvmeDmaReqQ>> /\ VisitNvmeDmaReq /\ UNCHANGED dmaDone
      BY <1>8, <2>4 DEF poolVars, queueVars
    <3> QED BY <3>1, DmaStill
  <2> QED BY <2>2, <2>3, <2>4
<1>9. ASSUME NEW d \in Die, GetFromNandReqQ(d)
      PROVE  DmaOK' /\ Finished
  <2>1. PICK s, r, target, nandQ : /\ s = nandReqQ[d] /\ r = Head(s) /\ target = NextBlockingReq(r)
                                   /\ nandQ = [nandReqQ EXCEPT ![d] = Tail(@)]
    OBVIOUS
  <2>2. s \in Seq(Req) /\ s # <<>> /\ NoDup(s)
    BY <1>9, <2>1 DEF GetFromNandReqQ, IInv, TypeOK, QueuesOK, NandQueuesOK
  <2>3. r \in Req /\ r \in ToSet(s)
    BY <2>1, <2>2, TailQueue
  <2>4. InQueue(r)
    BY <2>1, <2>3 DEF InQueue, IInv, QueuesOK, NandQueuesOK
  <2>5. target # NoReq => target \in Req
    BY <2>1, <2>3, <2>4, NextBlockingIsNext
  <2>6. ReleaseBlockedByBufDepReq(r, nvmeDmaReqQ, nandQ, notCompletedNandReqCnt - 1)
    BY <1>9, <2>1 DEF GetFromNandReqQ
  <2>7. \/ UNCHANGED nvmeDmaReqQ
        \/ /\ target # NoReq /\ reqQueueType[target] = "BLOCKED_BY_BUF_DEP"
           /\ nvmeDmaReqQ' = Append(nvmeDmaReqQ, target)
    BY <2>1, <2>6 DEF ReleaseBlockedByBufDepReq
  <2>8. reqQueueType[target] = "BLOCKED_BY_BUF_DEP" /\ target # NoReq => target \notin ToSet(nvmeDmaReqQ)
    BY <2>5 DEF IInv, QueuesOK, DmaQueueOK
  <2>9. Grown(nvmeDmaReqQ, nvmeDmaReqQ')
    BY <2>5, <2>7, <2>8 DEF Grown
  <2> QED BY <1>3, <1>9, <2>9 DEF GetFromNandReqQ
<1>10. CASE VisitRowAddrDepReq
  <2>1. UNCHANGED <<nvmeDmaReqQ, dmaWalk, dmaDone>>
    BY <1>10 DEF VisitRowAddrDepReq, queueVars
  <2> QED BY <1>3, <2>1 DEF Grown
<1> QED BY <1>5, <1>6, <1>7, <1>8, <1>9, <1>10 DEF Next, Poll

\* What is known of the host transfers holds in every reachable state.
THEOREM DmaHolds == Spec => []DmaOK
<1>1. Init => DmaOK
  <2> SUFFICES ASSUME Init PROVE DmaOK
    OBVIOUS
  <2>1. nvmeDmaReqQ = <<>> /\ dmaWalk.todo = <<>> /\ dmaDone = {} /\ \A r \in Req : reqQueueType[r] = "FREE"
    BY DEF Init
  <2> QED BY <2>1, EmptyQueue DEF DmaOK, DmaCodesOK, DmaPrefix, DmaFifo, DmaFlags
<1>2. IInv /\ DmaOK /\ [Next]_vars => DmaOK'
  BY StepDma
<1> QED BY <1>1, <1>2, IInvHolds, PTL DEF Spec

\* A host transfer is completed only when the engine has finished it, although
\* CheckDoneNvmeDmaReq infers most completions from a later one.
THEOREM OnlyFinishedDmaCompletesHolds == Spec => OnlyFinishedDmaCompletes
<1>1. IInv /\ DmaOK /\ [Next]_vars =>
        [\A r \in Req : reqQueueType[r] = "NVME_DMA" /\ reqQueueType'[r] # "NVME_DMA" => r \in dmaDone]_vars
  BY StepDma
<1> QED BY <1>1, IInvHolds, DmaHolds, PTL DEF Spec, OnlyFinishedDmaCompletes

-----------------------------------------------------------------------------
(* The writes and erases that wait.                                        *)

\* The slots of an outstanding request the FTL leaves unused.
Fields ==
  \A r \in Req : Outstanding(r) =>
    /\ reqPool[r].reqCode = "ERASE" => reqPool[r].page = PagesPerBlock /\ reqPool[r].buf = NoBuf
    /\ reqPool[r].reqCode \in DmaCode => reqPool[r].block = NoBlock

\* Write or erase r of block k is held up by a dependency.
Waits(r, k) == Blocked(r) /\ reqPool[r].reqCode \in Changing /\ reqPool[r].block = k

\* Without fast reuse, two of a block that wait are for different pages.
PendingOnce ==
  \A r, s \in Req, k \in Block : Waits(r, k) /\ Waits(s, k) /\ reqPool[r].page = reqPool[s].page => r = s

\* The flag of a block is up while an erase of it waits.
FlagUp == \A k \in Block : blockedEraseReqFlag[k] <=> \E r \in Req : Waits(r, k) /\ reqPool[r].reqCode = "ERASE"

\* Who waits, but for the request that moves, waits still.
LEMMA StillWaits ==
  ASSUME IInv, IInv', NEW l \in Req \cup {NoReq}, NEW t \in Req \cup {NoReq}, Moved(l, t),
         NEW s \in Req, s # t
  PROVE  /\ Blocked(s)' <=> Blocked(s)
         /\ Blocked(s) => reqPool'[s] = reqPool[s]
         /\ \A k : Waits(s, k)' <=> Waits(s, k)
<1>1. CASE s = l
  <2>1. ~Blocked(s) /\ ~Blocked(s)'
    BY <1>1, ReqAssumption DEF Moved, Leaves, Blocked
  <2> QED BY <2>1 DEF Waits, Blocked
<1>2. CASE s # l
  <2>1. Outstanding(s) \/ Outstanding(s)' => reqPool'[s] = reqPool[s] /\ reqQueueType'[s] = reqQueueType[s]
    BY <1>2, MovedRequests
  <2>2. Blocked(s) \/ Blocked(s)' => Outstanding(s) \/ Outstanding(s)'
    BY DEF Blocked, Outstanding
  <2>3. /\ Blocked(s)' <=> Blocked(s)
        /\ Blocked(s) => reqPool'[s] = reqPool[s]
    BY <2>1, <2>2 DEF Blocked
  <2> QED BY <2>3 DEF Waits
<1> QED BY <1>1, <1>2

\* A request that moves keeps what it is unless it is new.
LEMMA MoverSame ==
  ASSUME IInv, IInv', NEW l \in Req \cup {NoReq}, NEW t \in Req, Moved(l, t)
  PROVE  /\ Outstanding(t) => reqPool'[t] = reqPool[t]
         /\ ~Outstanding(t) => NewOne(t) /\ ~Blocked(t) /\ Allocates(t) /\ (FastReuse \/ ~Lagging(reqPool'[t]))
         /\ Outstanding(t) /\ ~Blocked(t) => reqPool[t].reqCode = "READ"
<1>1. t # NoReq
  BY ReqAssumption
<1>2. Outstanding(t) => reqPool'[t] = reqPool[t]
  BY <1>1 DEF Moved
<1>3. ~Outstanding(t) => NewOne(t) /\ ~Blocked(t) /\ Allocates(t) /\ (FastReuse \/ ~Lagging(reqPool'[t]))
  BY <1>1 DEF Moved, NewOne, Blocked, Outstanding
<1>4. Outstanding(t) /\ ~Blocked(t) => reqPool[t].reqCode = "READ"
  <2>1. Outstanding(t) /\ ~Blocked(t) => t = syncReq
    BY <1>1 DEF Moved, ComesFrom, Blocked
  <2> QED BY <1>1, <2>1 DEF IInv, InHandOK
<1> QED BY <1>2, <1>3, <1>4

\* A step keeps the fields of the requests as their makers fill them in.
LEMMA StepFields ==
  ASSUME IInv, IInv', NEW l \in Req \cup {NoReq}, NEW t \in Req \cup {NoReq}, Moved(l, t), Fields
  PROVE  Fields'
<1> SUFFICES ASSUME NEW r \in Req, Outstanding(r)', NEW q, q = reqPool'[r]
             PROVE  /\ q.reqCode = "ERASE" => q.page = PagesPerBlock /\ q.buf = NoBuf
                    /\ q.reqCode \in DmaCode => q.block = NoBlock
  BY DEF Fields, Outstanding
<1>1. CASE r # t
  <2>1. Outstanding(r) /\ reqPool'[r] = reqPool[r]
    BY <1>1, MovedRequests
  <2> QED BY <2>1 DEF Fields
<1>2. CASE r = t /\ Outstanding(r)
  <2>1. reqPool'[r] = reqPool[r]
    BY <1>2, MoverSame
  <2> QED BY <1>2, <2>1 DEF Fields
<1>3. CASE r = t /\ ~Outstanding(r)
  <2>1. Allocates(r)
    BY <1>3, MoverSame
  <2> QED BY <2>1 DEF Allocates, DmaCode
<1> QED BY <1>1, <1>2, <1>3

\* No two requests wait to change a page.
LEMMA StepPendingOnce ==
  ASSUME IInv, IInv', NEW l \in Req \cup {NoReq}, NEW t \in Req \cup {NoReq}, Moved(l, t),
         Fields', PendingOnce, ~FastReuse
  PROVE  PendingOnce'
<1>1. ASSUME NEW s \in Req, NEW k \in Block, Waits(s, k)'
      PROVE  /\ s # t \/ Blocked(s) => Waits(s, k) /\ reqPool[s] = reqPool'[s]
             /\ s = t /\ ~Blocked(s) => ~Lagging(reqPool'[s])
  <2>1. CASE s # t
    BY <1>1, <2>1, StillWaits DEF Waits
  <2>2. CASE s = t /\ Blocked(s)
    <3>1. reqPool'[s] = reqPool[s]
      BY <2>2, MoverSame DEF Blocked, Outstanding
    <3> QED BY <1>1, <2>2, <3>1 DEF Waits
  <2>3. CASE s = t /\ ~Blocked(s)
    <3>1. ~Outstanding(s)
      BY <1>1, <2>3, MoverSame DEF Waits, Changing
    <3> QED BY <2>3, <3>1, MoverSame
  <2> QED BY <2>1, <2>2, <2>3
<1>2. \A s \in Req, k \in Block : Waits(s, k)' => 
        IF reqPool'[s].page = PagesPerBlock THEN reqPool'[s].reqCode = "ERASE" ELSE reqPool'[s].reqCode = "WRITE"
  <2> SUFFICES ASSUME NEW s \in Req, NEW k \in Block, Waits(s, k)', NEW q, q = reqPool'[s]
               PROVE  IF q.page = PagesPerBlock THEN q.reqCode = "ERASE" ELSE q.reqCode = "WRITE"
    OBVIOUS
  <2>1. q.reqCode \in Changing /\ Outstanding(s)'
    BY DEF Waits, Blocked, Outstanding
  <2>2. WellFormed(q) /\ (q.reqCode = "ERASE" => q.page = PagesPerBlock)
    BY <2>1 DEF Fields, IInv, RequestsOK, Outstanding
  <2> QED BY <2>1, <2>2, PageAssumption DEF WellFormed, Changing
<1>3. ASSUME NEW r \in Req, NEW s \in Req, NEW k \in Block, Waits(r, k)', Waits(s, k)',
             reqPool'[r].page = reqPool'[s].page, r # s, s # t \/ Blocked(s)
      PROVE  FALSE
  <2>1. Waits(s, k) /\ reqPool[s] = reqPool'[s]
    BY <1>1, <1>3
  <2>2. r = t /\ ~Blocked(r)
    <3>1. ~(r # t \/ Blocked(r))
      BY <1>1, <1>3, <2>1 DEF PendingOnce
    <3> QED BY <3>1
  <2>3. ~Lagging(reqPool'[r])
    BY <1>1, <1>3, <2>2
  <2>4. reqPool'[r].reqCode = reqPool'[s].reqCode /\ reqPool'[r].block = reqPool'[s].block
    BY <1>2, <1>3 DEF Waits
  <2> QED BY <1>3, <2>1, <2>3, <2>4 DEF Lagging, Waits, Changing
<1> SUFFICES ASSUME NEW r \in Req, NEW s \in Req, NEW k \in Block, Waits(r, k)', Waits(s, k)',
                    reqPool'[r].page = reqPool'[s].page, r # s
             PROVE  FALSE
  BY DEF PendingOnce, Waits
<1> QED BY <1>3

-----------------------------------------------------------------------------
(* The blocking queues of the buffers.                                     *)

\* An outstanding request is in the blocking queue of its buffer.
ChainFull == \A r \in Req : Outstanding(r) /\ reqPool[r].buf # NoBuf => r \in ToSet(blockingReq[reqPool[r].buf])

\* What waits for a buffer is not first in its queue.
BufWaits == \A r \in Req : reqQueueType[r] = "BLOCKED_BY_BUF_DEP" =>
              reqPool[r].buf # NoBuf /\ Head(blockingReq[reqPool[r].buf]) # r

\* The queue of a buffer loses its head, gains the new request, or stays.
ChainMoves(l, t, b, s, u) ==
  \/ /\ l # NoReq /\ s # <<>> /\ Head(s) = l /\ u = Tail(s) /\ ToSet(u) = ToSet(s) \ {l}
     /\ u # <<>> => reqQueueType'[Head(u)] # "BLOCKED_BY_BUF_DEP"
     /\ reqPool[l].buf = b
  \/ /\ NewOne(t) /\ reqPool'[t].buf = b /\ t \notin ToSet(s)
     /\ u = Append(s, t) /\ ToSet(u) = ToSet(s) \cup {t}
     /\ s # <<>> => Head(u) = Head(s)
  \/ /\ u = s /\ ~(NewOne(t) /\ reqPool'[t].buf = b)
     /\ l # NoReq => reqPool[l].buf # b

\* The chain of a buffer before and after a step.
LEMMA ChainAfter ==
  ASSUME IInv, IInv', NEW l \in Req \cup {NoReq}, NEW t \in Req \cup {NoReq}, Moved(l, t), NEW b \in Buf,
         NEW s, s = blockingReq[b], NEW u, u = blockingReq'[b]
  PROVE  s \in Seq(Req) /\ u \in Seq(Req) /\ NoDup(s) /\ NoDup(u) /\ ChainMoves(l, t, b, s, u)
<1>1. s \in Seq(Req) /\ u \in Seq(Req) /\ NoDup(s) /\ NoDup(u)
  BY DEF IInv, TypeOK, ChainsOK
<1>2. CASE l # NoReq /\ reqPool[l].buf = b
  <2>1. l \in Req /\ InQueue(l)
    BY <1>2, MovedRequests
  <2>2. s # <<>> /\ Head(s) = l
    BY <1>2, <2>1, BufAssumption DEF IInv, BufferExclusive
  <2>3. u = Tail(s) /\ (u # <<>> => reqQueueType'[Head(u)] # "BLOCKED_BY_BUF_DEP")
    BY <1>2 DEF Moved, ChainsMove
  <2>4. ToSet(u) = ToSet(s) \ {l}
    BY <1>1, <2>2, <2>3, TailQueue
  <2> QED BY <1>1, <1>2, <2>2, <2>3, <2>4 DEF ChainMoves
<1>3. CASE ~(l # NoReq /\ reqPool[l].buf = b) /\ NewOne(t) /\ reqPool'[t].buf = b
  <2>1. u = Append(s, t) /\ t \in Req
    BY <1>3 DEF Moved, ChainsMove, NewOne
  <2>2. t \notin ToSet(s)
    BY <1>3, <2>1 DEF IInv, ChainsOK, NewOne
  <2>3. ToSet(u) = ToSet(s) \cup {t}
    BY <1>1, <2>1, <2>2, AppendQueue
  <2>4. s # <<>> => Head(u) = Head(s)
    BY <1>1, <2>1
  <2> QED BY <1>1, <1>3, <2>1, <2>2, <2>3, <2>4 DEF ChainMoves
<1>4. CASE ~(l # NoReq /\ reqPool[l].buf = b) /\ ~(NewOne(t) /\ reqPool'[t].buf = b)
  <2>1. u = s
    BY <1>4 DEF Moved, ChainsMove
  <2> QED BY <1>1, <1>4, <2>1 DEF ChainMoves
<1> QED BY <1>2, <1>3, <1>4

\* Every outstanding request with a buffer is in its chain, and waits its turn.
ChainsFull == ChainFull /\ BufWaits

\* A step keeps the chains full.
LEMMA StepChainsFull ==
  ASSUME IInv, IInv', NEW l \in Req \cup {NoReq}, NEW t \in Req \cup {NoReq}, Moved(l, t), ChainsFull
  PROVE  ChainsFull'
<1>1. ASSUME NEW r \in Req, Outstanding(r)', NEW b, b = reqPool'[r].buf, b # NoBuf
      PROVE  b \in Buf /\ r \in ToSet(blockingReq'[b])
  <2>1. b \in Buf
    BY <1>1 DEF IInv, TypeOK, Request
  <2>2. PICK s, u : s = blockingReq[b] /\ u = blockingReq'[b]
    OBVIOUS
  <2>3. ChainMoves(l, t, b, s, u)
    BY <2>1, <2>2, ChainAfter
  <2>4. CASE Outstanding(r)
    <3>1. r # l /\ reqPool[r] = reqPool'[r]
      <4>1. r # l
        BY <1>1, MovedRequests, ReqAssumption
      <4> QED BY <1>1, <2>4, <4>1, MovedRequests, MoverSame
    <3>2. r \in ToSet(s)
      BY <1>1, <2>2, <2>4, <3>1 DEF ChainsFull, ChainFull
    <3> QED BY <2>1, <2>2, <2>3, <3>1, <3>2 DEF ChainMoves
  <2>5. CASE ~Outstanding(r)
    <3>1. r = t /\ NewOne(t)
      BY <1>1, <2>5, MovedRequests, ReqAssumption DEF NewOne
    <3>2. l = NoReq
      BY <3>1 DEF NewOne, Moved, ComesFrom, Outstanding
    <3> QED BY <1>1, <2>1, <2>2, <2>3, <3>1, <3>2 DEF ChainMoves
  <2> QED BY <2>4, <2>5
<1>2. ChainFull'
  BY <1>1 DEF ChainFull, Outstanding
<1>3. BufWaits'
  <2> SUFFICES ASSUME NEW r \in Req, reqQueueType'[r] = "BLOCKED_BY_BUF_DEP", NEW b, b = reqPool'[r].buf
               PROVE  b # NoBuf /\ Head(blockingReq'[b]) # r
    BY DEF BufWaits
  <2>1. CASE r = t
    BY <2>1, ReqAssumption DEF Moved, Enters
  <2>2. CASE r # t
    <3>1. Outstanding(r)'
      BY DEF Outstanding
    <3>2. Outstanding(r) /\ reqPool[r] = reqPool'[r] /\ reqQueueType[r] = "BLOCKED_BY_BUF_DEP"
      BY <2>2, <3>1, MovedRequests, ReqAssumption
    <3>3. b # NoBuf /\ Head(blockingReq[b]) # r
      BY <3>2 DEF ChainsFull, BufWaits
    <3>4. b \in Buf /\ r \in ToSet(blockingReq'[b]) /\ r \in ToSet(blockingReq[b])
      BY <1>1, <3>1, <3>2, <3>3 DEF ChainsFull, ChainFull
    <3>5. PICK s, u : s = blockingReq[b] /\ u = blockingReq'[b]
      OBVIOUS
    <3>6. s # <<>> /\ u # <<>>
      BY <3>4, <3>5, EmptyQueue
    <3>7. ChainMoves(l, t, b, s, u)
      BY <3>4, <3>5, ChainAfter
    <3> QED BY <3>3, <3>5, <3>6, <3>7 DEF ChainMoves
  <2> QED BY <2>1, <2>2
<1> QED BY <1>2, <1>3 DEF ChainsFull

\* The blocking queues hold what they should in every reachable state.
THEOREM ChainsFullHold == Spec => []ChainsFull
<1>1. Init => ChainsFull
  <2> SUFFICES ASSUME Init PROVE ChainsFull
    OBVIOUS
  <2>1. \A r \in Req : reqQueueType[r] = "FREE"
    BY DEF Init
  <2> QED BY <2>1 DEF ChainsFull, ChainFull, BufWaits, Outstanding
<1>2. IInv /\ ChainsFull /\ [Next]_vars => ChainsFull'
  <2> SUFFICES ASSUME IInv, ChainsFull, [Next]_vars PROVE ChainsFull'
    OBVIOUS
  <2> QED BY StepIInv, StepMoves, StepChainsFull
<1> QED BY <1>1, <1>2, IInvHolds, PTL DEF Spec

-----------------------------------------------------------------------------
(* The flag of a waiting erase.                                            *)

\* The flag of a waiting erase goes up and down with it.
LEMMA StepFlagUp ==
  ASSUME IInv, IInv', NEW l \in Req \cup {NoReq}, NEW t \in Req \cup {NoReq}, Moved(l, t),
         Fields', PendingOnce, FlagUp, ~FastReuse
  PROVE  FlagUp'
<1> SUFFICES ASSUME NEW k \in Block
             PROVE  blockedEraseReqFlag'[k] <=>
                      \E r \in Req : Waits(r, k)' /\ reqPool'[r].reqCode = "ERASE"
  BY DEF FlagUp, Waits
<1>1. \A s \in Req : s # t => /\ Waits(s, k)' <=> Waits(s, k)
                              /\ Waits(s, k) => reqPool'[s] = reqPool[s]
  BY StillWaits DEF Waits
<1>2. DepTypes
  BY DEF IInv, TypeOK, DepTypes
<1>3. CASE t = NoReq
  <2>1. blockedEraseReqFlag' = blockedEraseReqFlag
    BY <1>3 DEF Moved, depVars
  <2> QED BY <1>1, <1>3, <2>1, ReqAssumption DEF FlagUp
<1>4. CASE t # NoReq
  <2>1. PICK q : q = reqPool'[t]
    OBVIOUS
  <2>2. t \in Req /\ Enters(t) /\ WellFormed(q) /\ Outstanding(t)'
    BY <1>4, <2>1, MovedRequests DEF Moved
  <2>3. Blocked(t) => reqPool[t] = q
    BY <2>1, <2>2, MoverSame DEF Blocked, Outstanding
  <2>4. CASE q.reqCode # "ERASE"
    <3>1. blockedEraseReqFlag'[k] = blockedEraseReqFlag[k]
      BY <1>2, <2>1, <2>2, <2>4 DEF Enters, depVars, UpdateTablePassed, UpdateTableBlocked, DepTypes
    <3>2. ~(Waits(t, k) /\ reqPool[t].reqCode = "ERASE")
      BY <2>3, <2>4 DEF Waits
    <3> QED BY <1>1, <2>1, <2>2, <2>4, <3>1, <3>2 DEF FlagUp
  <2>5. CASE q.reqCode = "ERASE"
    <3>1. q.block \in Block /\ q.page = PagesPerBlock /\ q.buf = NoBuf
      BY <2>1, <2>2, <2>5 DEF WellFormed, NandCode, Fields
    <3>2. \/ reqQueueType'[t] = "NAND" /\ UpdateTablePassed(q, Blocked(t))
          \/ /\ reqQueueType'[t] = "BLOCKED_BY_ROW_ADDR_DEP"
             /\ IF Blocked(t) THEN UNCHANGED depVars ELSE UpdateTableBlocked(q)
      BY <2>1, <2>2, <2>5, <3>1 DEF Enters, DmaCode, MustSync
    <3>3. CASE q.block # k
      <4>1. blockedEraseReqFlag'[k] = blockedEraseReqFlag[k]
        BY <1>2, <3>1, <3>2, <3>3 DEF UpdateTablePassed, UpdateTableBlocked, depVars, DepTypes
      <4>2. ~Waits(t, k) /\ ~Waits(t, k)'
        BY <2>1, <2>3, <3>3 DEF Waits
      <4> QED BY <1>1, <4>1, <4>2 DEF FlagUp
    <3>4. CASE q.block = k /\ reqQueueType'[t] = "NAND" /\ UpdateTablePassed(q, Blocked(t))
      <4>1. blockedEraseReqFlag'[k] = FALSE
        BY <1>2, <2>5, <3>1, <3>4 DEF UpdateTablePassed, DepTypes
      <4>2. ASSUME NEW s \in Req, Waits(s, k)', reqPool'[s].reqCode = "ERASE"
            PROVE  FALSE
        <5>1. s # t
          BY <3>4, <4>2 DEF Waits, Blocked
        <5>2. Waits(s, k) /\ reqPool'[s] = reqPool[s]
          BY <1>1, <4>2, <5>1
        <5>3. reqPool[s].reqCode = "ERASE" /\ reqPool[s].page = PagesPerBlock
          BY <4>2, <5>2 DEF Fields, Waits, Blocked, Outstanding
        <5>4. CASE Blocked(t)
          BY <2>2, <2>3, <2>5, <3>1, <3>4, <5>1, <5>2, <5>3, <5>4 DEF PendingOnce, Waits, Changing
        <5>5. CASE ~Blocked(t)
          <6>1. ~Outstanding(t)
            <7>1. Outstanding(t) => reqPool[t] = q /\ reqPool[t].reqCode = "READ"
              BY <2>1, <2>2, <5>5, MoverSame
            <7> QED BY <2>5, <7>1
          <6>2. ~Lagging(q)
            BY <2>1, <2>2, <6>1, MoverSame
          <6> QED BY <2>5, <3>1, <3>4, <5>2, <5>3, <6>2 DEF Lagging, Waits
        <5> QED BY <5>4, <5>5
      <4> QED BY <4>1, <4>2
    <3>5. CASE /\ q.block = k /\ reqQueueType'[t] = "BLOCKED_BY_ROW_ADDR_DEP"
               /\ IF Blocked(t) THEN UNCHANGED depVars ELSE UpdateTableBlocked(q)
      <4>1. Waits(t, k)'
        BY <2>1, <2>5, <3>5 DEF Waits, Blocked, Changing
      <4>2. blockedEraseReqFlag'[k] = TRUE
        <5>1. CASE Blocked(t)
          <6>1. Waits(t, k) /\ reqPool[t].reqCode = "ERASE"
            BY <2>3, <2>5, <3>5, <5>1 DEF Waits, Changing
          <6> QED BY <1>2, <2>2, <3>5, <5>1, <6>1 DEF FlagUp, depVars, DepTypes
        <5>2. CASE ~Blocked(t)
          BY <1>2, <2>5, <3>1, <3>5, <5>2 DEF UpdateTableBlocked, DepTypes
        <5> QED BY <5>1, <5>2
      <4> QED BY <2>1, <2>2, <2>5, <4>1, <4>2
    <3> QED BY <3>2, <3>3, <3>4, <3>5
  <2> QED BY <2>4, <2>5
<1> QED BY <1>3, <1>4

\* The conjuncts about waiting requests.
WaitsOK == Fields /\ PendingOnce /\ FlagUp

\* A step keeps them.
LEMMA StepWaitsOK ==
  ASSUME IInv, WaitsOK, ~FastReuse, [Next]_vars
  PROVE  WaitsOK'
<1>1. IInv'
  BY StepIInv
<1>2. PICK l \in Req \cup {NoReq}, t \in Req \cup {NoReq} : Moved(l, t)
  BY StepMoves
<1>3. Fields'
  BY <1>1, <1>2, StepFields DEF WaitsOK
<1> QED BY <1>1, <1>2, <1>3, StepPendingOnce, StepFlagUp DEF WaitsOK

\* Without fast reuse the invariant on who waits holds in every reachable state.
THEOREM WaitsHold ==
  ASSUME ~FastReuse
  PROVE  Spec => []WaitsOK
<1>1. Init => WaitsOK
  <2> SUFFICES ASSUME Init PROVE WaitsOK
    OBVIOUS
  <2>1. /\ \A r \in Req : ~Blocked(r) /\ ~Outstanding(r)
        /\ \A k \in Block : blockedEraseReqFlag[k] = FALSE
    BY DEF Init, Blocked, Outstanding
  <2> QED BY <2>1 DEF WaitsOK, Fields, PendingOnce, FlagUp, Waits
<1>2. IInv /\ WaitsOK /\ [Next]_vars => WaitsOK'
  BY StepWaitsOK
<1> QED BY <1>1, <1>2, IInvHolds, PTL DEF Spec

\* Unless a flash address is used again while the same operation on its
\* previous generation waits, the flag SyncReleaseEraseReq polls is up exactly
\* while an erase of the block waits (blockedEraseReqFlag, CheckRowAddrDep).
THEOREM EraseFlagExactHolds ==
  ASSUME ~FastReuse
  PROVE  Spec => []EraseFlagExact
<1>1. IInv /\ WaitsOK /\ ChainsFull => EraseFlagExact
  <2> SUFFICES ASSUME IInv, WaitsOK, ChainsFull, NEW k \in Block
               PROVE  blockedEraseReqFlag[k] <=>
                        \E r \in Req : /\ reqQueueType[r] = "BLOCKED_BY_ROW_ADDR_DEP"
                                       /\ reqPool[r].reqCode = "ERASE"
                                       /\ reqPool[r].block = k
    BY DEF EraseFlagExact
  <2>1. ASSUME NEW r \in Req, reqPool[r].reqCode = "ERASE"
        PROVE  reqQueueType[r] # "BLOCKED_BY_BUF_DEP"
    BY <2>1 DEF ChainsFull, BufWaits, WaitsOK, Fields, Outstanding
  <2> QED BY <2>1 DEF WaitsOK, FlagUp, Waits, Blocked, Changing
<1> QED BY <1>1, WaitsHold, ChainsFullHold, IInvHolds, PTL

-----------------------------------------------------------------------------
(* The history variables.                                                  *)

\* p was made before q and both are outstanding.
Older(p, q) == Before(order, p, q)

\* What is recorded of a step that completes l and lets t enter a queue.
Recorded(l, t) ==
  /\ order' = IF l # NoReq THEN Without(order, l)
              ELSE IF NewOne(t) THEN Append(order, t) ELSE order
  /\ flash' = IF l # NoReq /\ reqQueueType[l] = "NAND" THEN Executed(reqPool[l]) ELSE flash

\* What Record records of it.
LEMMA RecordMoves ==
  ASSUME IInv, IInv', NEW l \in Req \cup {NoReq}, NEW t \in Req \cup {NoReq}, Moved(l, t), Record
  PROVE  Recorded(l, t)
<1>1. PICK done, new : /\ done = {r \in Req : Outstanding(r) /\ ~Outstanding(r)'}
                       /\ new = {r \in Req : ~Outstanding(r) /\ Outstanding(r)'}
  OBVIOUS
<1>2. /\ \A s \in Req : Outstanding(s)' <=> (Outstanding(s) /\ s # l) \/ s = t
      /\ l # NoReq => l \in Req /\ Outstanding(l) /\ l # t /\ ~NewOne(t)
      /\ t # NoReq => t \in Req
  <2>1. l # NoReq => ~NewOne(t)
    BY DEF NewOne, Moved, ComesFrom, Outstanding
  <2> QED BY <2>1, MovedRequests
<1>3. done = IF l # NoReq THEN {l} ELSE {}
  BY <1>1, <1>2, ReqAssumption
<1>4. new = IF NewOne(t) THEN {t} ELSE {}
  BY <1>1, <1>2, ReqAssumption DEF NewOne
<1>5. /\ order' = LET rest == IF done = {} THEN order ELSE Without(order, CHOOSE r \in done : TRUE)
                  IN IF new = {} THEN rest ELSE Append(rest, CHOOSE r \in new : TRUE)
      /\ flash' = IF \E r \in done : reqQueueType[r] = "NAND"
                  THEN Executed(reqPool[CHOOSE r \in done : reqQueueType[r] = "NAND"])
                  ELSE flash
  BY <1>1 DEF Record
<1>6. CASE l # NoReq
  <2>1. done = {l} /\ new = {}
    BY <1>2, <1>3, <1>4, <1>6
  <2>2. (CHOOSE r \in done : TRUE) = l
    BY <2>1
  <2>3. reqQueueType[l] = "NAND" => (CHOOSE r \in done : reqQueueType[r] = "NAND") = l
    BY <2>1
  <2> QED BY <1>2, <1>5, <1>6, <2>1, <2>2, <2>3 DEF Recorded
<1>7. CASE l = NoReq
  <2>1. done = {} /\ (NewOne(t) => (CHOOSE r \in new : TRUE) = t)
    BY <1>3, <1>4, <1>7
  <2> QED BY <1>4, <1>5, <1>7, <2>1 DEF Recorded
<1> QED BY <1>6, <1>7

\* Every step with its record.
LEMMA OrderMoves ==
  ASSUME IInv, [OrderNext]_orderVars
  PROVE  IInv' /\ \E l, t \in Req \cup {NoReq} : Moved(l, t) /\ Recorded(l, t)
<1>1. [Next]_vars /\ IInv'
  <2>1. [Next]_vars
    BY DEF OrderNext, orderVars
  <2> QED BY <2>1, StepIInv
<1>2. CASE OrderNext
  <2>1. PICK l \in Req \cup {NoReq}, t \in Req \cup {NoReq} : Moved(l, t)
    BY <1>1, StepMoves
  <2>2. Recorded(l, t)
    BY <1>1, <1>2, <2>1, RecordMoves DEF OrderNext
  <2> QED BY <1>1, <2>1, <2>2
<1>3. CASE UNCHANGED orderVars
  <2>1. UNCHANGED <<reqPool, reqQueueType, blockingReq, nandReqQ, depVars, currentPage, syncReq, order, flash>>
    BY <1>3 DEF orderVars, vars, poolVars, queueVars, depVars, ftlVars, loopVars
  <2>2. Moved(NoReq, NoReq)
    BY <2>1, QuietMoves DEF IInv
  <2>3. Recorded(NoReq, NoReq)
    BY <2>1 DEF Recorded, NewOne
  <2> QED BY <1>1, <2>2, <2>3
<1> QED BY <1>2, <1>3

\* The history variables change nothing of the program.
LEMMA OrderSpecIsSpec == OrderSpec => Spec
<1>1. OrderInit => Init
  BY DEF OrderInit
<1>2. [OrderNext]_orderVars => [Next]_vars
  BY DEF OrderNext, orderVars
<1> QED BY <1>1, <1>2, PTL DEF OrderSpec, Spec

\* order lists the outstanding requests, each once.
OrderOK ==
  /\ order \in Seq(Req) /\ NoDup(order)
  /\ \A r \in Req : r \in ToSet(order) <=> Outstanding(r)

\* A step removes the request it completes from the order of making, and adds the one it makes.
LEMMA StepOrderOK ==
  ASSUME IInv, IInv', OrderOK, NEW l \in Req \cup {NoReq}, NEW t \in Req \cup {NoReq},
         Moved(l, t), Recorded(l, t)
  PROVE  /\ OrderOK'
         /\ \A p, q \in Req :
              Older(p, q)' <=> /\ p # l /\ q # l
                               /\ Older(p, q) \/ (NewOne(t) /\ q = t /\ Outstanding(p))
<1>1. PICK s, u : s = order /\ u = order'
  OBVIOUS
<1>2. /\ s \in Seq(Req) /\ NoDup(s) /\ \A r \in Req : r \in ToSet(s) <=> Outstanding(r)
      /\ \A r \in Req : Outstanding(r)' <=> (Outstanding(r) /\ r # l) \/ r = t
      /\ l # NoReq => l \in Req /\ Outstanding(l) /\ l # t /\ ~NewOne(t)
      /\ t # NoReq => t \in Req
  <2>1. l # NoReq => ~NewOne(t)
    BY DEF NewOne, Moved, ComesFrom, Outstanding
  <2> QED BY <1>1, <2>1, MovedRequests DEF OrderOK
<1>3. ASSUME NEW p \in Req, NEW q \in Req
      PROVE  /\ Older(p, q) <=> Before(s, p, q)
             /\ Older(p, q)' <=> Before(u, p, q)
  BY <1>1 DEF Older
<1>4. CASE l # NoReq
  <2>1. u = RemoveAt(s, IndexOf(s, l)) /\ IndexOf(s, l) \in 1..Len(s) /\ s[IndexOf(s, l)] = l
    <3>1. l \in ToSet(s)
      BY <1>2, <1>4
    <3> QED BY <1>1, <1>4, <3>1 DEF Recorded, Without, IndexOf, ToSet
  <2>2. PICK k \in 1..Len(s) : k = IndexOf(s, l) /\ s[k] = l
    BY <2>1
  <2>3. u \in Seq(Req) /\ TakenOut(s, u, k)
    BY <1>2, <2>1, <2>2, RemoveAtTaken
  <2>4. NoDup(u) /\ ToSet(u) = ToSet(s) \ {l}
    BY <1>2, <2>2, <2>3, ShortQueue
  <2>5. \A p, q : p # l /\ q # l => (Before(u, p, q) <=> Before(s, p, q))
    BY <1>2, <2>2, <2>3, BeforeTakenOut
  <2>6. \A p, q : Before(u, p, q) => p # l /\ q # l
    BY <2>3, <2>4, BeforeIrreflexive
  <2>7. t # NoReq => Outstanding(t)
    BY <1>2, <1>4 DEF NewOne
  <2>8. ASSUME NEW r \in Req PROVE r \in ToSet(u) <=> Outstanding(r)'
    BY <1>2, <1>4, <2>4, <2>7, ReqAssumption
  <2>9. OrderOK'
    BY <1>1, <2>3, <2>4, <2>8 DEF OrderOK
  <2>10. ASSUME NEW p \in Req, NEW q \in Req
         PROVE  Older(p, q)' <=> /\ p # l /\ q # l
                                 /\ Older(p, q) \/ (NewOne(t) /\ q = t /\ Outstanding(p))
    BY <1>2, <1>4, <1>3, <2>5, <2>6
  <2> QED BY <2>9, <2>10
<1>5. CASE l = NoReq /\ NewOne(t)
  <2>1. u = Append(s, t) /\ t \in Req /\ t \notin ToSet(s)
    BY <1>1, <1>2, <1>5 DEF Recorded, NewOne
  <2>2. u \in Seq(Req) /\ NoDup(u) /\ ToSet(u) = ToSet(s) \cup {t}
    BY <1>2, <2>1, AppendQueue
  <2>3. \A p, q : Before(u, p, q) <=> Before(s, p, q) \/ (p \in ToSet(s) /\ q = t)
    BY <1>2, <2>1, BeforeAppend
  <2>4. ASSUME NEW r \in Req PROVE r \in ToSet(u) <=> Outstanding(r)'
    BY <1>2, <1>5, <2>2, ReqAssumption
  <2>5. OrderOK'
    BY <1>1, <2>2, <2>4 DEF OrderOK
  <2>6. ASSUME NEW p \in Req, NEW q \in Req
        PROVE  Before(u, p, q) <=> Before(s, p, q) \/ (q = t /\ Outstanding(p))
    BY <1>2, <2>3
  <2>7. \A r \in Req : r # l
    BY <1>5, ReqAssumption
  <2>8. ASSUME NEW p \in Req, NEW q \in Req
        PROVE  Older(p, q)' <=> /\ p # l /\ q # l
                                /\ Older(p, q) \/ (NewOne(t) /\ q = t /\ Outstanding(p))
    <3>1. p # l /\ q # l
      BY <2>7
    <3>2. Older(p, q)' <=> Before(s, p, q) \/ (q = t /\ Outstanding(p))
      BY <1>3, <2>6
    <3> QED BY <1>5, <1>3, <3>1, <3>2
  <2> QED BY <2>5, <2>8
<1>6. CASE l = NoReq /\ ~NewOne(t)
  <2>1. u = s
    BY <1>1, <1>6 DEF Recorded
  <2>2. t # NoReq => Outstanding(t)
    BY <1>6 DEF NewOne
  <2> QED BY <1>1, <1>2, <1>6, <2>1, <2>2, ReqAssumption DEF OrderOK, Older, Outstanding
<1> QED BY <1>4, <1>5, <1>6

\* The blocking queue of a buffer is in the order the requests were made in.
ChainOrder == \A b \in Buf, p, q \in Req : Before(blockingReq[b], p, q) => Older(p, q)

\* A step keeps the blocking queues in order.
LEMMA StepChainOrder ==
  ASSUME IInv, IInv', OrderOK, ChainOrder, NEW l \in Req \cup {NoReq}, NEW t \in Req \cup {NoReq},
         Moved(l, t), Recorded(l, t)
  PROVE  ChainOrder'
<1> SUFFICES ASSUME NEW b \in Buf, NEW p \in Req, NEW q \in Req,
                    NEW s, s = blockingReq[b], NEW u, u = blockingReq'[b], Before(u, p, q)
             PROVE  Older(p, q)'
  BY DEF ChainOrder
<1>1. Older(p, q)' <=> /\ p # l /\ q # l
                       /\ Older(p, q) \/ (NewOne(t) /\ q = t /\ Outstanding(p))
  BY StepOrderOK
<1>2. s \in Seq(Req) /\ u \in Seq(Req) /\ NoDup(s) /\ NoDup(u) /\ ChainMoves(l, t, b, s, u)
  BY ChainAfter
<1>3. p \in ToSet(u) /\ q \in ToSet(u)
  BY <1>2, BeforeIrreflexive
<1>4. Before(s, p, q) => Older(p, q)
  BY DEF ChainOrder
<1>5. \A e \in ToSet(s) : Outstanding(e) /\ reqPool[e].buf = b
  BY DEF IInv, ChainsOK
<1>6. CASE /\ l # NoReq /\ s # <<>> /\ Head(s) = l /\ u = Tail(s) /\ ToSet(u) = ToSet(s) \ {l}
  <2>1. p # Head(s) /\ q # Head(s)
    BY <1>3, <1>6
  <2>2. Before(s, p, q)
    BY <1>2, <1>6, <2>1, BeforeTail
  <2> QED BY <1>1, <1>4, <1>6, <2>1, <2>2
<1>7. CASE /\ NewOne(t) /\ reqPool'[t].buf = b /\ t \notin ToSet(s) /\ u = Append(s, t)
  <2>1. l = NoReq
    BY <1>7 DEF NewOne, Moved, ComesFrom, Outstanding
  <2>2. Before(s, p, q) \/ (p \in ToSet(s) /\ q = t)
    <3>1. t \in Req
      BY <1>7 DEF NewOne
    <3> QED BY <1>2, <1>7, <3>1, BeforeAppend
  <2> QED BY <1>1, <1>4, <1>5, <1>7, <2>1, <2>2, ReqAssumption
<1>8. CASE u = s /\ (l # NoReq => reqPool[l].buf # b)
  <2>1. p # l /\ q # l
    BY <1>3, <1>5, <1>8, ReqAssumption
  <2> QED BY <1>1, <1>4, <1>8, <2>1
<1> QED BY <1>2, <1>6, <1>7, <1>8 DEF ChainMoves

-----------------------------------------------------------------------------
(* The flash accepts what the queue of its die holds.                      *)

\* What the flash must have programmed for operation q, and has after it.
Accepts(q, x) == IF q.reqCode = "READ" THEN q.page < x ELSE q.page = x
After(q, x)   == CASE q.reqCode = "WRITE" -> x + 1 [] q.reqCode = "ERASE" -> 0 [] OTHER -> x

\* h is how far block k is programmed before and after each request of queue
\* s, when P holds the requests.
ReplayStep(q, k, x, y) == IF q.block = k THEN Accepts(q, x) /\ y = After(q, x) ELSE y = x
ReplayOf(P, s, k, h) ==
  /\ h \in [0..Len(s) -> 0..PagesPerBlock]
  /\ \A i \in 1..Len(s) : ReplayStep(P[s[i]], k, h[i - 1], h[i])

\* Replaying the queue of its die leads a block from what is programmed to
\* what the dependency table permits next.
Replayed(k) ==
  \E h : /\ ReplayOf(reqPool, nandReqQ[DieOf[k]], k, h)
         /\ h[0] = flash[k] /\ h[Len(nandReqQ[DieOf[k]])] = permittedProgPage[k]
ReplayOK == \A k \in Block : Replayed(k)

\* The queue without its head starts where the head leads.
LEMMA ReplayTail ==
  ASSUME NEW P, NEW s \in Seq(Req), s # <<>>, NEW k, NEW h, ReplayOf(P, s, k, h)
  PROVE  \E g : /\ ReplayOf(P, Tail(s), k, g) /\ g[Len(Tail(s))] = h[Len(s)]
                /\ ReplayStep(P[Head(s)], k, h[0], g[0])
<1> DEFINE t == Tail(s)
           g == [i \in 0..Len(t) |-> h[i + 1]]
<1>1. /\ t \in Seq(Req) /\ Len(t) = Len(s) - 1 /\ Len(t) \in Nat /\ Len(s) \in Nat
      /\ \A i \in 1..Len(t) : t[i] = s[i + 1]
      /\ Head(s) = s[1]
  OBVIOUS
<1> HIDE DEF t
<1>2. ReplayOf(P, t, k, g)
  <2>1. g \in [0..Len(t) -> 0..PagesPerBlock]
    BY <1>1 DEF ReplayOf
  <2>2. ASSUME NEW i \in 1..Len(t) PROVE ReplayStep(P[t[i]], k, g[i - 1], g[i])
    <3>1. i + 1 \in 1..Len(s) /\ g[i - 1] = h[(i + 1) - 1] /\ g[i] = h[i + 1] /\ t[i] = s[i + 1]
      BY <1>1
    <3> QED BY <3>1 DEF ReplayOf
  <2> QED BY <2>1, <2>2 DEF ReplayOf
<1>3. g[Len(t)] = h[Len(s)] /\ g[0] = h[1]
  BY <1>1
<1>4. ReplayStep(P[s[1]], k, h[1 - 1], h[1])
  BY <1>1 DEF ReplayOf, t
<1> QED BY <1>1, <1>2, <1>3, <1>4 DEF t

\* A request at the end leads on from where the queue ended.
LEMMA ReplayAppend ==
  ASSUME NEW P, NEW s \in Seq(Req), NEW e \in Req, NEW k, NEW h, ReplayOf(P, s, k, h),
         NEW y \in 0..PagesPerBlock, ReplayStep(P[e], k, h[Len(s)], y)
  PROVE  \E g : ReplayOf(P, Append(s, e), k, g) /\ g[0] = h[0] /\ g[Len(Append(s, e))] = y
<1> DEFINE u == Append(s, e)
           g == [i \in 0..Len(u) |-> IF i = Len(u) THEN y ELSE h[i]]
<1>1. /\ u \in Seq(Req) /\ Len(u) = Len(s) + 1 /\ Len(s) \in Nat
      /\ \A i \in 1..Len(s) : u[i] = s[i]
      /\ u[Len(s) + 1] = e
  OBVIOUS
<1> HIDE DEF u
<1>2. g \in [0..Len(u) -> 0..PagesPerBlock]
  BY <1>1 DEF ReplayOf
<1>3. ASSUME NEW i \in 1..Len(u) PROVE ReplayStep(P[u[i]], k, g[i - 1], g[i])
  <2>1. CASE i = Len(u)
    <3>1. g[i] = y /\ g[i - 1] = h[Len(s)] /\ u[i] = e
      BY <1>1, <2>1
    <3> QED BY <3>1
  <2>2. CASE i # Len(u)
    <3>1. i \in 1..Len(s) /\ g[i] = h[i] /\ g[i - 1] = h[i - 1] /\ u[i] = s[i]
      BY <1>1, <2>2
    <3> QED BY <3>1 DEF ReplayOf
  <2> QED BY <2>1, <2>2
<1>4. g[0] = h[0] /\ g[Len(u)] = y
  BY <1>1
<1>5. ReplayOf(P, u, k, g)
  BY <1>2, <1>3 DEF ReplayOf
<1> QED BY <1>4, <1>5 DEF u

\* Only what the pool holds of the requests in the queue matters.
LEMMA ReplayPool ==
  ASSUME NEW P, NEW Q, NEW s \in Seq(Req), NEW k, NEW h, ReplayOf(P, s, k, h),
         \A e \in ToSet(s) : Q[e] = P[e]
  PROVE  ReplayOf(Q, s, k, h)
<1>1. \A i \in 1..Len(s) : s[i] \in ToSet(s)
  BY DEF ToSet
<1> QED BY <1>1 DEF ReplayOf

\* What a request that enters a queue does to the row address table.
LEMMA TableMoves ==
  ASSUME IInv, IInv', NEW l \in Req \cup {NoReq}, NEW t \in Req \cup {NoReq}, Moved(l, t), NEW k \in Block
  PROVE  IF t # NoReq /\ reqQueueType'[t] = "NAND" /\ reqPool'[t].block = k
         THEN /\ reqPool'[t].reqCode \in NandCode
              /\ PassRowAddrDep(reqPool'[t])
              /\ permittedProgPage'[k] = After(reqPool'[t], permittedProgPage[k])
         ELSE permittedProgPage'[k] = permittedProgPage[k]
<1>1. permittedProgPage \in [Block -> 0..PagesPerBlock]
  BY DEF IInv, TypeOK
<1>2. CASE t = NoReq
  BY <1>2 DEF Moved, depVars
<1>3. CASE t # NoReq
  <2>1. PICK q : q = reqPool'[t]
    OBVIOUS
  <2>2. CASE reqQueueType'[t] = "NAND"
    <3>1. q.reqCode \in NandCode /\ PassRowAddrDep(q) /\ UpdateTablePassed(q, Blocked(t))
      BY <1>3, <2>1, <2>2 DEF Moved, Enters
    <3>2. q.block \in Block
      BY <1>3, <2>1, <3>1, MovedRequests DEF WellFormed
    <3>3. permittedProgPage' = [permittedProgPage EXCEPT ![q.block] =
             CASE q.reqCode = "WRITE" -> @ + 1 [] q.reqCode = "ERASE" -> 0 [] OTHER -> @]
      BY <3>1 DEF UpdateTablePassed
    <3>4. permittedProgPage'[k] = IF q.block = k THEN After(q, permittedProgPage[k]) ELSE permittedProgPage[k]
      BY <1>1, <3>2, <3>3 DEF After
    <3> QED BY <1>3, <2>1, <2>2, <3>1, <3>4
  <2>3. CASE reqQueueType'[t] # "NAND"
    <3>1. permittedProgPage' = permittedProgPage
      BY <1>3, <2>3 DEF Moved, Enters, UpdateTableBlocked, depVars
    <3> QED BY <2>3, <3>1
  <2> QED BY <2>2, <2>3
<1> QED BY <1>2, <1>3

\* What a completed request does to the flash.
LEMMA FlashMoves ==
  ASSUME IInv, flash \in [Block -> 0..PagesPerBlock],
         NEW l \in Req \cup {NoReq}, NEW t \in Req \cup {NoReq}, Moved(l, t), Recorded(l, t),
         NEW k \in Block
  PROVE  flash'[k] = IF l # NoReq /\ reqQueueType[l] = "NAND" /\ reqPool[l].block = k
                     THEN IF reqPool[l].reqCode = "WRITE" THEN reqPool[l].page + 1
                          ELSE IF reqPool[l].reqCode = "ERASE" THEN 0 ELSE flash[k]
                     ELSE flash[k]
<1>1. CASE l # NoReq /\ reqQueueType[l] = "NAND"
  <2>1. PICK q : q = reqPool[l]
    OBVIOUS
  <2>2. flash' = Executed(q)
    BY <1>1, <2>1 DEF Recorded
  <2> QED BY <1>1, <2>1, <2>2 DEF Executed
<1>2. CASE ~(l # NoReq /\ reqQueueType[l] = "NAND")
  BY <1>2 DEF Recorded
<1> QED BY <1>1, <1>2

\* The next pages of the flash, and what the queues will make of them.
FlashOK == flash \in [Block -> 0..PagesPerBlock] /\ ReplayOK

\* A step keeps the queue of every die acceptable.
LEMMA StepFlashOK ==
  ASSUME IInv, IInv', FlashOK, NEW l \in Req \cup {NoReq}, NEW t \in Req \cup {NoReq},
         Moved(l, t), Recorded(l, t)
  PROVE  FlashOK'
<1>1. ASSUME NEW k \in Block PROVE Replayed(k)'
  <2>1. PICK d : d = DieOf[k]
    OBVIOUS
  <2>2. PICK s, r, u : s = nandReqQ[d] /\ r = Rest(d, l) /\ u = nandReqQ'[d]
    OBVIOUS
  <2>3. /\ d \in Die /\ s \in Seq(Req) /\ u \in Seq(Req) /\ NoDup(s)
        /\ \A e \in ToSet(s) : reqQueueType[e] = "NAND" /\ DieOfReq(reqPool[e]) = d
        /\ flash \in [Block -> 0..PagesPerBlock]
        /\ permittedProgPage' \in [Block -> 0..PagesPerBlock]
    <3>1. d \in Die
      BY <2>1, BlockAssumption
    <3>2. s \in Seq(Req)
      BY <2>2, <3>1 DEF IInv, TypeOK
    <3>3. ToSet(s) \subseteq Req
      BY <3>2 DEF ToSet
    <3> QED BY <2>2, <3>1, <3>2, <3>3 DEF IInv, TypeOK, QueuesOK, NandQueuesOK, FlashOK
  <2>4. PICK h : ReplayOf(reqPool, s, k, h) /\ h[0] = flash[k] /\ h[Len(s)] = permittedProgPage[k]
    BY <2>1, <2>2 DEF FlashOK, ReplayOK, Replayed
  <2>5. PICK g : /\ ReplayOf(reqPool, r, k, g)
                 /\ g[0] = flash'[k] /\ g[Len(r)] = permittedProgPage[k]
    <3>1. CASE l # NoReq /\ reqQueueType[l] = "NAND" /\ DieOfReq(reqPool[l]) = d
      <4>1. s # <<>> /\ Head(s) = l /\ r = Tail(s)
        BY <2>2, <3>1 DEF Moved, Leaves, Rest
      <4>2. PICK g : /\ ReplayOf(reqPool, r, k, g) /\ g[Len(r)] = h[Len(s)]
                     /\ ReplayStep(reqPool[l], k, h[0], g[0])
        BY <2>3, <2>4, <4>1, ReplayTail
      <4>3. g[0] = flash'[k]
        <5>1. PICK q : q = reqPool[l]
          OBVIOUS
        <5>2. flash'[k] = IF q.block = k
                          THEN IF q.reqCode = "WRITE" THEN q.page + 1
                               ELSE IF q.reqCode = "ERASE" THEN 0 ELSE flash[k]
                          ELSE flash[k]
          BY <2>3, <3>1, <5>1, FlashMoves
        <5>3. ReplayStep(q, k, flash[k], g[0])
          BY <2>4, <4>2, <5>1
        <5> QED BY <5>2, <5>3 DEF ReplayStep, Accepts, After
      <4> QED BY <2>4, <4>2, <4>3
    <3>2. CASE ~(l # NoReq /\ reqQueueType[l] = "NAND" /\ DieOfReq(reqPool[l]) = d)
      <4>1. r = s
        <5>1. l \notin Req \/ l \notin ToSet(s)
          BY <2>3, <3>2, ReqAssumption
        <5>2. s # <<>> => Head(s) \in ToSet(s) /\ Head(s) \in Req
          <6>1. s # <<>> => 1 \in 1..Len(s) /\ Head(s) = s[1] /\ s[1] \in Req
            BY <2>3
          <6> QED BY <6>1 DEF ToSet
        <5> QED BY <2>2, <5>1, <5>2 DEF Rest
      <4>2. flash'[k] = flash[k]
        <5>1. ~(l # NoReq /\ reqQueueType[l] = "NAND" /\ reqPool[l].block = k)
          BY <2>1, <3>2 DEF DieOfReq
        <5> QED BY <2>3, <5>1, FlashMoves
      <4> QED BY <2>4, <4>1, <4>2
    <3> QED BY <3>1, <3>2
  <2>6. r \in Seq(Req) /\ ToSet(r) \subseteq ToSet(s) /\ l \notin ToSet(r)
    <3>1. CASE s # <<>> /\ Head(s) = l
      <4>1. r = Tail(s)
        BY <2>2, <3>1 DEF Rest
      <4> QED BY <2>3, <3>1, <4>1, TailQueue
    <3>2. CASE ~(s # <<>> /\ Head(s) = l)
      <4>1. r = s
        BY <2>2, <3>2 DEF Rest
      <4>2. l \notin ToSet(s)
        <5> SUFFICES ASSUME l \in ToSet(s) PROVE FALSE
          OBVIOUS
        <5>1. reqQueueType[l] = "NAND" /\ DieOfReq(reqPool[l]) = d /\ l # NoReq
          <6>1. l \in Req
            BY <2>3 DEF ToSet
          <6> QED BY <2>3, <6>1, ReqAssumption
        <5> QED BY <2>2, <3>2, <5>1 DEF Moved, Leaves
      <4> QED BY <2>3, <4>1, <4>2
    <3> QED BY <3>1, <3>2
  <2>7. ReplayOf(reqPool', r, k, g)
    <3>1. ASSUME NEW e \in ToSet(r) PROVE reqPool'[e] = reqPool[e]
      <4>1. e \in Req /\ e # l /\ reqQueueType[e] = "NAND"
        <5>1. e \in Req
          BY <2>6 DEF ToSet
        <5> QED BY <2>3, <2>6, <5>1
      <4>2. e # t
        BY <4>1, MovedRequests, ReqAssumption
      <4> QED BY <4>1, <4>2, MovedRequests DEF Outstanding
    <3> QED BY <2>5, <2>6, <3>1, ReplayPool
  <2>8. CASE t # NoReq /\ reqQueueType'[t] = "NAND" /\ DieOfReq(reqPool'[t]) = d
    <3>1. u = Append(r, t) /\ t \in Req
      BY <2>2, <2>3, <2>8 DEF Moved, NandQueuesMove
    <3>2. ReplayStep(reqPool'[t], k, permittedProgPage[k], permittedProgPage'[k])
      <4>1. PICK q : q = reqPool'[t]
        OBVIOUS
      <4>2. IF q.block = k
            THEN /\ q.reqCode \in NandCode /\ PassRowAddrDep(q)
                 /\ permittedProgPage'[k] = After(q, permittedProgPage[k])
            ELSE permittedProgPage'[k] = permittedProgPage[k]
        BY <2>8, <4>1, TableMoves
      <4>3. q.block = k => Accepts(q, permittedProgPage[k])
        BY <4>2 DEF PassRowAddrDep, Accepts, NandCode
      <4> QED BY <4>1, <4>2, <4>3 DEF ReplayStep
    <3>3. permittedProgPage'[k] \in 0..PagesPerBlock
      BY <2>3
    <3>4. PICK f : /\ ReplayOf(reqPool', u, k, f) /\ f[0] = g[0]
                   /\ f[Len(u)] = permittedProgPage'[k]
      BY <2>5, <2>6, <2>7, <3>1, <3>2, <3>3, ReplayAppend
    <3> QED BY <2>1, <2>2, <2>5, <3>4 DEF Replayed
  <2>9. CASE ~(t # NoReq /\ reqQueueType'[t] = "NAND" /\ DieOfReq(reqPool'[t]) = d)
    <3>1. u = r
      BY <2>2, <2>3, <2>9 DEF Moved, NandQueuesMove
    <3>2. permittedProgPage'[k] = permittedProgPage[k]
      <4>1. ~(t # NoReq /\ reqQueueType'[t] = "NAND" /\ reqPool'[t].block = k)
        BY <2>1, <2>9 DEF DieOfReq
      <4> QED BY <4>1, TableMoves
    <3> QED BY <2>1, <2>2, <2>5, <2>7, <3>1, <3>2 DEF Replayed
  <2> QED BY <2>8, <2>9
<1>2. flash' \in [Block -> 0..PagesPerBlock]
  <2>1. ASSUME NEW k \in Block PROVE flash'[k] \in 0..PagesPerBlock
    <3>1. PICK s, h : /\ ReplayOf(reqPool', s, k, h) /\ s \in Seq(Req) /\ h[0] = flash'[k]
      <4>1. DieOf[k] \in Die
        BY BlockAssumption
      <4> QED BY <1>1, <4>1 DEF Replayed, IInv, TypeOK
    <3>2. 0 \in 0..Len(s)
      BY <3>1
    <3> QED BY <3>1, <3>2 DEF ReplayOf
  <2>2. \/ flash' = flash
        \/ \E j, y : flash' = [flash EXCEPT ![j] = y]
    BY DEF Recorded, Executed
  <2> QED BY <2>1, <2>2 DEF FlashOK
<1> QED BY <1>1, <1>2 DEF FlashOK, ReplayOK

\* What the history variables say holds in every reachable state.
THEOREM HistoryHolds == OrderSpec => [](OrderOK /\ ChainOrder /\ FlashOK)
<1>1. OrderInit => OrderOK /\ ChainOrder /\ FlashOK
  <2> SUFFICES ASSUME OrderInit PROVE OrderOK /\ ChainOrder /\ FlashOK
    OBVIOUS
  <2>1. OrderOK
    BY EmptyQueue DEF OrderInit, Init, OrderOK, Outstanding
  <2>2. ChainOrder
    <3>1. ASSUME NEW p, NEW q PROVE ~Before(<<>>, p, q)
      BY DEF Before
    <3> QED BY <3>1 DEF OrderInit, Init, ChainOrder
  <2>3. flash \in [Block -> 0..PagesPerBlock]
    BY PageAssumption DEF OrderInit
  <2>4. ASSUME NEW k \in Block PROVE Replayed(k)
    <3> DEFINE h == [i \in 0..0 |-> 0]
    <3>1. nandReqQ[DieOf[k]] = <<>> /\ Len(<<>>) = 0 /\ flash[k] = 0 /\ permittedProgPage[k] = 0
      BY BlockAssumption DEF OrderInit, Init
    <3>2. ReplayOf(reqPool, <<>>, k, h) /\ h[0] = 0
      BY PageAssumption DEF ReplayOf
    <3> QED BY <3>1, <3>2 DEF Replayed
  <2> QED BY <2>1, <2>2, <2>3, <2>4 DEF FlashOK, ReplayOK
<1>2. IInv /\ (OrderOK /\ ChainOrder /\ FlashOK) /\ [OrderNext]_orderVars
        => (OrderOK /\ ChainOrder /\ FlashOK)'
  <2> SUFFICES ASSUME IInv, OrderOK, ChainOrder, FlashOK, [OrderNext]_orderVars
               PROVE  OrderOK' /\ ChainOrder' /\ FlashOK'
    OBVIOUS
  <2> QED BY OrderMoves, StepOrderOK, StepChainOrder, StepFlashOK
<1> QED BY <1>1, <1>2, OrderSpecIsSpec, IInvHolds, PTL DEF OrderSpec

\* Whatever stands at the head of the queue of a die, the flash accepts.
THEOREM FlashAcceptsHolds == OrderSpec => []FlashAccepts
<1>1. IInv /\ FlashOK => FlashAccepts
  <2> SUFFICES ASSUME IInv, FlashOK, NEW d \in Die, nandReqQ[d] # <<>>,
                      NEW s, s = nandReqQ[d], NEW q, q = reqPool[Head(s)]
               PROVE  IF q.reqCode = "READ" THEN q.page < flash[q.block] ELSE q.page = flash[q.block]
    BY DEF FlashAccepts
  <2>1. s \in Seq(Req) /\ 1 \in 1..Len(s) /\ Head(s) = s[1]
    BY DEF IInv, TypeOK
  <2>2. Head(s) \in Req /\ Head(s) \in ToSet(s)
    BY <2>1 DEF ToSet
  <2>3. reqQueueType[Head(s)] = "NAND" /\ DieOfReq(q) = d
    BY <2>2 DEF IInv, QueuesOK, NandQueuesOK
  <2>4. q.block \in Block /\ DieOf[q.block] = d
    BY <2>2, <2>3 DEF IInv, QueuesOK, NandCodesOK, RequestsOK, WellFormed, DieOfReq, Outstanding
  <2>5. PICK h : ReplayOf(reqPool, s, q.block, h) /\ h[0] = flash[q.block]
    BY <2>4 DEF FlashOK, ReplayOK, Replayed
  <2>6. ReplayStep(q, q.block, h[1 - 1], h[1])
    BY <2>1, <2>5 DEF ReplayOf
  <2> QED BY <2>5, <2>6 DEF ReplayStep, Accepts
<1> QED BY <1>1, HistoryHolds, OrderSpecIsSpec, IInvHolds, PTL

-----------------------------------------------------------------------------
(* The writes and the erases of a block that wait are those the FTL has     *)
(* made and the row address table has not passed, in that order.            *)

\* The page that follows, the erase of the block standing for page
\* PagesPerBlock; how far x is ahead of p in that cycle; the n pages from p
\* on, and the page behind them.
Succ(x)     == IF x = PagesPerBlock THEN 0 ELSE x + 1
Ahead(p, x) == IF x >= p THEN x - p ELSE x - p + PagesPerBlock + 1
Span(p, n)  == {x \in 0..PagesPerBlock : Ahead(p, x) < n}
Reach(p, n) == IF p + n > PagesPerBlock THEN p + n - PagesPerBlock - 1 ELSE p + n

\* A span grows at its end.
LEMMA SpanEnter ==
  ASSUME NEW p \in 0..PagesPerBlock, NEW n \in 0..(PagesPerBlock + 1),
         Reach(p, n) \notin Span(p, n)
  PROVE  /\ n + 1 \in 0..(PagesPerBlock + 1)
         /\ Span(p, n + 1) = Span(p, n) \cup {Reach(p, n)}
         /\ Reach(p, n + 1) = Succ(Reach(p, n))
<1>1. PagesPerBlock \in Nat
  BY PageAssumption
<1>2. Reach(p, n) \in 0..PagesPerBlock
  BY <1>1 DEF Reach
<1>3. n <= PagesPerBlock /\ Ahead(p, Reach(p, n)) = n
  BY <1>1, <1>2 DEF Reach, Span, Ahead
<1>4. \A x \in 0..PagesPerBlock : Ahead(p, x) = n => x = Reach(p, n)
  BY <1>1, <1>3 DEF Reach, Ahead
<1>5. \A x \in 0..PagesPerBlock : Ahead(p, x) \in Int
  BY <1>1 DEF Ahead
<1>6. Span(p, n + 1) = Span(p, n) \cup {Reach(p, n)}
  BY <1>2, <1>3, <1>4, <1>5 DEF Span
<1>7. Reach(p, n + 1) = Succ(Reach(p, n))
  BY <1>1, <1>3 DEF Reach, Succ
<1> QED BY <1>1, <1>3, <1>6, <1>7

\* A span loses its first page.
LEMMA SpanPass ==
  ASSUME NEW p \in 0..PagesPerBlock, NEW n \in 0..(PagesPerBlock + 1), p \in Span(p, n)
  PROVE  /\ n - 1 \in 0..(PagesPerBlock + 1)
         /\ Span(Succ(p), n - 1) = Span(p, n) \ {p}
         /\ Reach(Succ(p), n - 1) = Reach(p, n)
         /\ \A x \in 0..PagesPerBlock : x # p => Ahead(Succ(p), x) = Ahead(p, x) - 1
<1>1. PagesPerBlock \in Nat
  BY PageAssumption
<1>2. n >= 1
  BY <1>1 DEF Span, Ahead
<1>3. \A x \in 0..PagesPerBlock : Ahead(p, x) \in Int /\ (x # p => Ahead(Succ(p), x) = Ahead(p, x) - 1)
  BY <1>1 DEF Ahead, Succ
<1>4. Ahead(Succ(p), p) = PagesPerBlock
  BY <1>1 DEF Ahead, Succ
<1>5. Span(Succ(p), n - 1) = Span(p, n) \ {p}
  BY <1>1, <1>2, <1>3, <1>4 DEF Span
<1>6. Reach(Succ(p), n - 1) = Reach(p, n)
  BY <1>1, <1>2 DEF Reach, Succ
<1> QED BY <1>1, <1>2, <1>3, <1>5, <1>6

\* A span that ends where it starts holds its first page or nothing.
LEMMA SpanEmpty ==
  ASSUME NEW p \in 0..PagesPerBlock, NEW n \in 0..(PagesPerBlock + 1), p \notin Span(p, n)
  PROVE  n = 0 /\ Reach(p, 0) = p /\ Span(p, n) = {} /\ Span(Succ(p), 0) = {} /\ Reach(Succ(p), 0) = Succ(p)
<1>1. PagesPerBlock \in Nat
  BY PageAssumption
<1>2. n = 0
  BY <1>1 DEF Span, Ahead
<1>3. \A x \in 0..PagesPerBlock, y \in 0..PagesPerBlock : ~(Ahead(y, x) < 0)
  BY <1>1 DEF Ahead
<1>4. Succ(p) \in 0..PagesPerBlock
  BY <1>1 DEF Succ
<1>5. Reach(p, 0) = p /\ Reach(Succ(p), 0) = Succ(p)
  BY <1>1, <1>4 DEF Reach
<1> QED BY <1>2, <1>3, <1>4, <1>5 DEF Span

\* The pages of the writes and erases of block k that wait.
PendingPages(k) == {x \in 0..PagesPerBlock : \E r \in Req : Waits(r, k) /\ reqPool[r].page = x}

\* What a step does to block k: nothing; a new write or erase waits; a new one
\* passes at once; one that waited passes.
BlockStays(k) ==
  /\ permittedProgPage'[k] = permittedProgPage[k] /\ currentPage'[k] = currentPage[k]
  /\ \A r \in Req : Waits(r, k)' <=> Waits(r, k)
\* Request t is made to wait with the page allocated to it.
BlockWaits(k, t) ==
  /\ t \in Req /\ NewOne(t) /\ ~Waits(t, k) /\ Waits(t, k)' /\ reqPool'[t].page = currentPage[k]
  /\ currentPage[k] \notin PendingPages(k)
  /\ permittedProgPage'[k] = permittedProgPage[k] /\ currentPage'[k] = Succ(currentPage[k])
\* A page is allocated and its program may go at once.
BlockSkips(k) ==
  /\ currentPage[k] = permittedProgPage[k] /\ currentPage[k] \notin PendingPages(k)
  /\ permittedProgPage'[k] = Succ(permittedProgPage[k]) /\ currentPage'[k] = Succ(currentPage[k])
  /\ \A r \in Req : Waits(r, k)' <=> Waits(r, k)
\* The waiting request whose turn it is goes.
BlockPasses(k, t) ==
  /\ t \in Req /\ Waits(t, k) /\ ~Waits(t, k)' /\ reqPool[t].page = permittedProgPage[k]
  /\ permittedProgPage'[k] = Succ(permittedProgPage[k]) /\ currentPage'[k] = currentPage[k]

\* A write or an erase, as WellFormed and Fields have it.
LEMMA ChangingPage ==
  ASSUME NEW q, q.reqCode \in Changing, WellFormed(q), q.reqCode = "ERASE" => q.page = PagesPerBlock
  PROVE  /\ q.page \in 0..PagesPerBlock /\ q.block \in Block /\ q.reqCode \in NandCode
         /\ q.reqCode = "ERASE" <=> q.page = PagesPerBlock
         /\ After(q, q.page) = Succ(q.page)
         /\ PassRowAddrDep(q) => q.page = permittedProgPage[q.block]
<1>1. q.page \in 0..PagesPerBlock /\ q.block \in Block /\ PagesPerBlock \in Nat
  BY PageAssumption DEF WellFormed, Request, Changing, NandCode
<1>2. CASE q.reqCode = "WRITE"
  <2>1. q.page < PagesPerBlock
    BY <1>2 DEF WellFormed
  <2>2. After(q, q.page) = Succ(q.page)
    BY <1>1, <1>2, <2>1 DEF After, Succ
  <2> QED BY <1>1, <1>2, <2>1, <2>2 DEF NandCode, PassRowAddrDep
<1>3. CASE q.reqCode = "ERASE"
  BY <1>1, <1>3 DEF NandCode, After, Succ, PassRowAddrDep
<1> QED BY <1>2, <1>3 DEF Changing

\* What an outstanding request of Fields holds.
LEMMA ChangingFields ==
  ASSUME IInv, Fields, NEW r \in Req, Outstanding(r), reqPool[r].reqCode \in Changing
  PROVE  /\ WellFormed(reqPool[r])
         /\ reqPool[r].reqCode = "ERASE" => reqPool[r].page = PagesPerBlock
  BY DEF IInv, RequestsOK, Fields

\* The page of a request that waits; an erase has the page after the last.
LEMMA WaitingFields ==
  ASSUME IInv, Fields, NEW r \in Req, NEW k, Waits(r, k)
  PROVE  /\ reqPool[r].page \in 0..PagesPerBlock
         /\ reqPool[r].reqCode = "ERASE" <=> reqPool[r].page = PagesPerBlock
<1>1. Outstanding(r) /\ reqPool[r].reqCode \in Changing
  BY DEF Waits, Blocked, Outstanding
<1> QED BY <1>1, ChangingFields, ChangingPage

\* A new write or erase gets a page nothing waits for.
LEMMA FreshPage ==
  ASSUME IInv, Fields, NEW q, q.reqCode \in Changing, WellFormed(q), ~Lagging(q),
         q.reqCode = "ERASE" => q.page = PagesPerBlock
  PROVE  q.page \notin PendingPages(q.block)
<1> SUFFICES ASSUME NEW r \in Req, Waits(r, q.block), reqPool[r].page = q.page
             PROVE  FALSE
  BY DEF PendingPages
<1>1. reqPool[r].reqCode = "ERASE" <=> q.reqCode = "ERASE"
  BY WaitingFields, ChangingPage
<1>2. Blocked(r) /\ reqPool[r].reqCode \in {"WRITE", "ERASE"} /\ reqPool[r].block = q.block
  BY DEF Waits, Changing
<1>3. reqPool[r].reqCode = q.reqCode
  BY <1>1, <1>2 DEF Changing
<1> QED BY <1>2, <1>3 DEF Lagging

\* A step does one of these to a block.
LEMMA BlockMoves ==
  ASSUME IInv, IInv', Fields, Fields', NEW l \in Req \cup {NoReq}, NEW t \in Req \cup {NoReq},
         Moved(l, t), ~FastReuse, NEW k \in Block
  PROVE  BlockStays(k) \/ BlockWaits(k, t) \/ BlockSkips(k) \/ BlockPasses(k, t)
<1>1. \A r \in Req : r # t => (Waits(r, k)' <=> Waits(r, k))
  BY StillWaits
<1>2. currentPage \in [Block -> 0..PagesPerBlock]
  BY DEF IInv, TypeOK
<1>3. CASE t = NoReq
  <2>1. permittedProgPage'[k] = permittedProgPage[k]
    BY <1>3, TableMoves
  <2>2. currentPage' = currentPage
    BY <1>3 DEF Moved, NewOne
  <2> QED BY <1>1, <1>3, <2>1, <2>2, ReqAssumption DEF BlockStays
<1>4. CASE t \in Req
  <2>1. PICK q : q = reqPool'[t]
    OBVIOUS
  <2>2. t # NoReq /\ Outstanding(t)' /\ WellFormed(q)
    BY <1>4, <2>1, MovedRequests, ReqAssumption
  <2>3. q.reqCode = "ERASE" => q.page = PagesPerBlock
    BY <1>4, <2>1, <2>2 DEF Fields, Outstanding
  <2>4. Waits(t, k)' <=> reqQueueType'[t] \in {"BLOCKED_BY_BUF_DEP", "BLOCKED_BY_ROW_ADDR_DEP"}
                         /\ q.reqCode \in Changing /\ q.block = k
    BY <2>1 DEF Waits, Blocked
  <2>5. q.reqCode \in Changing => reqQueueType'[t] \in {"NAND", "BLOCKED_BY_BUF_DEP", "BLOCKED_BY_ROW_ADDR_DEP"}
    BY <2>1, <2>2 DEF Moved, Enters, MustSync, Changing, DmaCode
  <2>6. IF reqQueueType'[t] = "NAND" /\ q.block = k
        THEN /\ PassRowAddrDep(q) /\ q.reqCode \in NandCode
             /\ permittedProgPage'[k] = After(q, permittedProgPage[k])
        ELSE permittedProgPage'[k] = permittedProgPage[k]
    BY <2>1, <2>2, TableMoves
  <2>7. q.reqCode \notin Changing => permittedProgPage'[k] = permittedProgPage[k]
    BY <2>6 DEF After, Changing, NandCode
  <2>8. q.reqCode \in Changing =>
          /\ q.page \in 0..PagesPerBlock /\ q.block \in Block
          /\ After(q, q.page) = Succ(q.page)
          /\ PassRowAddrDep(q) => q.page = permittedProgPage[q.block]
    BY <2>2, <2>3, ChangingPage
  <2>9. CASE ~Outstanding(t)
    <3>1. NewOne(t) /\ ~Blocked(t) /\ Allocates(t) /\ ~Lagging(q)
      BY <1>4, <2>1, <2>9, MoverSame
    <3>2. ~Waits(t, k)
      BY <3>1 DEF Waits
    <3>3. CASE q.reqCode \notin Changing
      <4>1. currentPage' = currentPage
        BY <2>1, <3>1, <3>3 DEF Allocates, Changing
      <4> QED BY <1>1, <2>4, <2>7, <3>2, <3>3, <4>1 DEF BlockStays
    <3>4. CASE q.reqCode \in Changing
      <4>1. q.page = currentPage[q.block] /\ currentPage' = [currentPage EXCEPT ![q.block] = Succ(q.page)]
        BY <2>1, <2>3, <3>1, <3>4, PageAssumption DEF Allocates, Changing, Succ, DmaCode
      <4>2. CASE q.block # k
        BY <1>1, <1>2, <2>4, <2>6, <3>2, <4>1, <4>2 DEF BlockStays
      <4>3. CASE q.block = k
        <5>1. currentPage[k] \notin PendingPages(k)
          BY <2>2, <2>3, <3>1, <3>4, <4>1, <4>3, FreshPage
        <5>2. currentPage'[k] = Succ(currentPage[k]) /\ q.page = currentPage[k]
          BY <1>2, <4>1, <4>3
        <5>3. CASE reqQueueType'[t] = "NAND"
          BY <1>1, <2>4, <2>6, <2>8, <3>2, <3>4, <4>3, <5>1, <5>2, <5>3 DEF BlockSkips
        <5>4. CASE reqQueueType'[t] # "NAND"
          BY <1>4, <2>1, <2>4, <2>5, <2>6, <3>1, <3>2, <3>4, <4>3, <5>1, <5>2, <5>4 DEF BlockWaits
        <5> QED BY <5>3, <5>4
      <4> QED BY <4>2, <4>3
    <3> QED BY <3>3, <3>4
  <2>10. CASE Outstanding(t)
    <3>1. q = reqPool[t] /\ (~Blocked(t) => q.reqCode = "READ")
      BY <1>4, <2>1, <2>10, MoverSame
    <3>2. currentPage' = currentPage
      BY <2>10 DEF Moved, NewOne
    <3>3. Waits(t, k) <=> Blocked(t) /\ q.reqCode \in Changing /\ q.block = k
      BY <3>1 DEF Waits
    <3>4. CASE ~(q.reqCode \in Changing /\ q.block = k)
      BY <1>1, <2>4, <2>6, <2>7, <3>2, <3>3, <3>4 DEF BlockStays
    <3>5. CASE q.reqCode \in Changing /\ q.block = k
      <4>1. Waits(t, k)
        BY <3>1, <3>3, <3>5 DEF Changing
      <4>2. CASE reqQueueType'[t] = "NAND"
        BY <1>4, <2>4, <2>6, <2>8, <3>1, <3>2, <3>5, <4>1, <4>2 DEF BlockPasses
      <4>3. CASE reqQueueType'[t] # "NAND"
        BY <1>1, <2>4, <2>5, <2>6, <3>2, <3>5, <4>1, <4>3 DEF BlockStays
      <4> QED BY <4>2, <4>3
    <3> QED BY <3>4, <3>5
  <2> QED BY <2>9, <2>10
<1> QED BY <1>3, <1>4

\* A request that waits before and after a step is the same one.
LEMMA WaitsSame ==
  ASSUME IInv, IInv', NEW l \in Req \cup {NoReq}, NEW t \in Req \cup {NoReq}, Moved(l, t),
         NEW r \in Req, NEW k, Waits(r, k), r # t \/ Outstanding(t)
  PROVE  reqPool'[r] = reqPool[r] /\ r # l
<1>1. CASE r # t
  <2>1. reqPool'[r] = reqPool[r]
    BY <1>1, StillWaits DEF Waits
  <2>2. r # l
    BY ReqAssumption DEF Waits, Blocked, Moved, Leaves
  <2> QED BY <2>1, <2>2
<1>2. CASE r = t
  <2>1. reqPool'[r] = reqPool[r]
    BY <1>2, MoverSame DEF Waits
  <2>2. r # l
    BY <1>2, ReqAssumption DEF Moved
  <2> QED BY <2>1, <2>2
<1> QED BY <1>1, <1>2

\* The waiting pages after each kind of step.
LEMMA PagesMove ==
  ASSUME IInv, IInv', Fields, Fields', PendingOnce,
         NEW l \in Req \cup {NoReq}, NEW t \in Req \cup {NoReq}, Moved(l, t), NEW k \in Block,
         NEW X, X = PendingPages(k), NEW Y, Y = PendingPages(k)'
  PROVE  /\ BlockStays(k) \/ BlockSkips(k) => Y = X
         /\ BlockWaits(k, t) => Y = X \cup {currentPage[k]}
         /\ BlockPasses(k, t) => Y = X \ {permittedProgPage[k]} /\ permittedProgPage[k] \in X
<1> DEFINE Old(r, x) == Waits(r, k) /\ reqPool[r].page = x
           New(r, x) == Waits(r, k)' /\ reqPool'[r].page = x
<1>1. /\ \A x : x \in X <=> x \in 0..PagesPerBlock /\ \E r \in Req : Old(r, x)
      /\ \A x : x \in Y <=> x \in 0..PagesPerBlock /\ \E r \in Req : New(r, x)
  BY DEF PendingPages
<1>2. ASSUME NEW r \in Req, r # t, NEW x PROVE New(r, x) <=> Old(r, x)
  BY <1>2, StillWaits DEF Waits
<1>3. CASE BlockStays(k) \/ BlockSkips(k)
  <2>1. ASSUME NEW r \in Req, NEW x PROVE New(r, x) <=> Old(r, x)
    <3>1. Waits(r, k)' <=> Waits(r, k)
      BY <1>3 DEF BlockStays, BlockSkips
    <3>2. Waits(r, k) /\ r = t => reqPool'[r] = reqPool[r]
      BY MoverSame DEF Waits, Blocked, Outstanding
    <3> QED BY <1>2, <3>1, <3>2
  <2>2. Y = X
    BY <1>1, <2>1
  <2> QED BY <1>3, <2>2 DEF BlockStays, BlockSkips, BlockWaits, BlockPasses, NewOne, Waits, Blocked, Outstanding
<1>4. CASE BlockWaits(k, t)
  <2>1. currentPage[k] \in 0..PagesPerBlock
    BY DEF IInv, TypeOK
  <2>2. \A x : ~Old(t, x) /\ (New(t, x) <=> x = currentPage[k])
    BY <1>4 DEF BlockWaits
  <2>3. Y = X \cup {currentPage[k]}
    BY <1>1, <1>2, <1>4, <2>1, <2>2 DEF BlockWaits
  <2>4. ~BlockStays(k) /\ ~BlockSkips(k) /\ ~BlockPasses(k, t)
    BY <1>4 DEF BlockWaits, BlockStays, BlockSkips, BlockPasses
  <2> QED BY <2>3, <2>4
<1>5. CASE BlockPasses(k, t)
  <2>1. permittedProgPage[k] \in 0..PagesPerBlock
    BY DEF IInv, TypeOK
  <2>2. \A x : ~New(t, x) /\ (Old(t, x) <=> x = permittedProgPage[k])
    BY <1>5 DEF BlockPasses
  <2>3. ASSUME NEW r \in Req, r # t PROVE ~Old(r, permittedProgPage[k])
    BY <1>5, <2>3 DEF BlockPasses, PendingOnce
  <2>4. Y = X \ {permittedProgPage[k]} /\ permittedProgPage[k] \in X
    <3>1. t \in Req
      BY <1>5 DEF BlockPasses
    <3> HIDE DEF Old, New
    <3>2. permittedProgPage[k] \in X /\ permittedProgPage[k] \notin Y
      BY <1>1, <1>2, <2>1, <2>2, <2>3, <3>1
    <3>3. \A x : x # permittedProgPage[k] => (x \in X <=> x \in Y)
      BY <1>1, <1>2, <2>2
    <3> QED BY <3>2, <3>3
  <2>5. ~BlockStays(k) /\ ~BlockSkips(k) /\ ~BlockWaits(k, t)
    BY <1>5 DEF BlockWaits, BlockStays, BlockSkips, BlockPasses
  <2> QED BY <2>4, <2>5
<1> QED BY <1>3, <1>4, <1>5

\* What waits for block k is what lies between the page the table permits and
\* the page the FTL allocates next.
Window(k) ==
  \E n \in 0..(PagesPerBlock + 1) :
    PendingPages(k) = Span(permittedProgPage[k], n) /\ currentPage[k] = Reach(permittedProgPage[k], n)
\* So of every block.
Windows == \A k \in Block : Window(k)

\* Writes and erases of a block that wait were made in the order of their pages.
PendingOrder ==
  \A k \in Block, r, s \in Req :
    /\ Waits(r, k) /\ Waits(s, k)
    /\ Ahead(permittedProgPage[k], reqPool[r].page) < Ahead(permittedProgPage[k], reqPool[s].page)
    => Older(r, s)

\* The pages that wait stay without a gap, in a circle from the permitted one to the current one.
LEMMA StepWindow ==
  ASSUME IInv, IInv', Fields, Fields', PendingOnce, Windows,
         NEW l \in Req \cup {NoReq}, NEW t \in Req \cup {NoReq}, Moved(l, t), ~FastReuse
  PROVE  Windows'
<1> SUFFICES ASSUME NEW k \in Block, NEW X, X = PendingPages(k), NEW Y, Y = PendingPages(k)',
                    NEW p, p = permittedProgPage[k], NEW u, u = permittedProgPage'[k],
                    NEW c, c = currentPage[k], NEW e, e = currentPage'[k]
             PROVE  \E n \in 0..(PagesPerBlock + 1) : Y = Span(u, n) /\ e = Reach(u, n)
  BY DEF Windows, Window
<1>1. p \in 0..PagesPerBlock /\ PagesPerBlock \in Nat
  BY PageAssumption DEF IInv, TypeOK
<1>2. PICK n \in 0..(PagesPerBlock + 1) : X = Span(p, n) /\ c = Reach(p, n)
  BY DEF Windows, Window
<1>3. BlockStays(k) \/ BlockWaits(k, t) \/ BlockSkips(k) \/ BlockPasses(k, t)
  BY BlockMoves
<1>4. /\ BlockStays(k) \/ BlockSkips(k) => Y = X
      /\ BlockWaits(k, t) => Y = X \cup {c}
      /\ BlockPasses(k, t) => Y = X \ {p} /\ p \in X
  BY PagesMove
<1>5. CASE BlockStays(k)
  BY <1>2, <1>4, <1>5 DEF BlockStays
<1>6. CASE BlockWaits(k, t)
  <2>1. u = p /\ e = Succ(c) /\ c \notin X
    BY <1>6 DEF BlockWaits
  <2>2. n + 1 \in 0..(PagesPerBlock + 1) /\ Span(p, n + 1) = X \cup {c} /\ Reach(p, n + 1) = Succ(c)
    BY <1>1, <1>2, <2>1, SpanEnter
  <2> QED BY <1>4, <1>6, <2>1, <2>2
<1>7. CASE BlockSkips(k)
  <2>1. u = Succ(p) /\ e = Succ(c) /\ c = p /\ p \notin X
    BY <1>7 DEF BlockSkips
  <2>2. Span(Succ(p), 0) = {} /\ Reach(Succ(p), 0) = Succ(p) /\ X = {}
    BY <1>1, <1>2, <2>1, SpanEmpty
  <2>3. 0 \in 0..(PagesPerBlock + 1)
    BY <1>1
  <2> QED BY <1>4, <1>7, <2>1, <2>2, <2>3
<1>8. CASE BlockPasses(k, t)
  <2>1. u = Succ(p) /\ e = c
    BY <1>8 DEF BlockPasses
  <2>2. n - 1 \in 0..(PagesPerBlock + 1) /\ Span(Succ(p), n - 1) = X \ {p} /\ Reach(Succ(p), n - 1) = c
    BY <1>1, <1>2, <1>4, <1>8, SpanPass
  <2> QED BY <1>4, <1>8, <2>1, <2>2
<1> QED BY <1>3, <1>5, <1>6, <1>7, <1>8

\* They stay in the order they were allocated.
LEMMA StepPendingOrder ==
  ASSUME IInv, IInv', Fields, Fields', PendingOnce, Windows, OrderOK, PendingOrder,
         NEW l \in Req \cup {NoReq}, NEW t \in Req \cup {NoReq}, Moved(l, t), Recorded(l, t), ~FastReuse
  PROVE  PendingOrder'
<1> SUFFICES ASSUME NEW k \in Block, NEW r \in Req, NEW s \in Req, Waits(r, k)', Waits(s, k)',
                    NEW p, p = permittedProgPage[k], NEW u, u = permittedProgPage'[k],
                    NEW c, c = currentPage[k],
                    NEW x, x = reqPool'[r].page, NEW y, y = reqPool'[s].page,
                    Ahead(u, x) < Ahead(u, y)
             PROVE  Older(r, s)'
  BY DEF PendingOrder
<1>1. p \in 0..PagesPerBlock /\ PagesPerBlock \in Nat /\ x \in 0..PagesPerBlock /\ y \in 0..PagesPerBlock
  <2>1. reqPool'[r] \in Request /\ reqPool'[s] \in Request
    BY DEF IInv, TypeOK
  <2> QED BY <2>1, PageAssumption DEF IInv, TypeOK, Request
<1>2. PICK n \in 0..(PagesPerBlock + 1) : PendingPages(k) = Span(p, n) /\ c = Reach(p, n)
  BY DEF Windows, Window
<1>3. BlockStays(k) \/ BlockWaits(k, t) \/ BlockSkips(k) \/ BlockPasses(k, t)
  BY BlockMoves
<1>4. Older(r, s)' <=> /\ r # l /\ s # l
                       /\ Older(r, s) \/ (NewOne(t) /\ s = t /\ Outstanding(r))
  BY StepOrderOK
<1>5. ASSUME Waits(r, k), Waits(s, k), Ahead(p, x) < Ahead(p, y) PROVE Older(r, s)'
  <2>1. \A z \in Req : Waits(z, k) => z # t \/ Outstanding(t)
    BY DEF Waits, Blocked, Outstanding
  <2>2. reqPool'[r] = reqPool[r] /\ reqPool'[s] = reqPool[s] /\ r # l /\ s # l
    BY <1>5, <2>1, WaitsSame
  <2>3. Older(r, s)
    BY <1>5, <2>2 DEF PendingOrder
  <2> QED BY <1>4, <2>2, <2>3
<1>6. CASE BlockStays(k)
  BY <1>5, <1>6 DEF BlockStays
<1>7. CASE BlockWaits(k, t)
  <2>1. u = p /\ c \notin PendingPages(k) /\ reqPool'[t].page = c /\ NewOne(t) /\ t \in Req
    BY <1>7 DEF BlockWaits
  <2>2. \A z \in Req : z # t => (Waits(z, k)' => Waits(z, k) /\ reqPool'[z].page \in PendingPages(k))
    <3> SUFFICES ASSUME NEW z \in Req, z # t, Waits(z, k)'
                 PROVE  Waits(z, k) /\ reqPool'[z].page \in PendingPages(k)
      OBVIOUS
    <3>1. Waits(z, k) /\ reqPool'[z] = reqPool[z]
      BY StillWaits DEF Waits
    <3>2. reqPool[z].page \in 0..PagesPerBlock
      BY <3>1, WaitingFields
    <3> QED BY <3>1, <3>2 DEF PendingPages
  <2>3. CASE s = t
    <3>1. r # t
      <4>1. Ahead(p, x) \in Int
        BY <1>1 DEF Ahead
      <4> QED BY <2>1, <2>3, <4>1
    <3>2. Outstanding(r) /\ l = NoReq
      BY <2>1, <2>2, <3>1 DEF NewOne, Moved, ComesFrom, Outstanding, Waits, Blocked
    <3> QED BY <1>4, <2>1, <2>3, <3>2, ReqAssumption
  <2>4. CASE s # t /\ r = t
    <3>1. y \in Span(p, n) /\ x = Reach(p, n) /\ x \notin Span(p, n)
      BY <1>2, <2>1, <2>2, <2>4
    <3> QED BY <1>1, <1>2, <2>1, <3>1 DEF Span, Ahead
  <2>5. CASE s # t /\ r # t
    BY <1>5, <2>1, <2>2, <2>5
  <2> QED BY <2>3, <2>4, <2>5
<1>8. CASE BlockSkips(k)
  <2>1. PendingPages(k) = {}
    BY <1>1, <1>2, <1>8, SpanEmpty DEF BlockSkips
  <2>2. Waits(r, k) /\ reqPool[r].page \in 0..PagesPerBlock
    BY <1>8, WaitingFields DEF BlockSkips
  <2> QED BY <2>1, <2>2 DEF PendingPages
<1>9. CASE BlockPasses(k, t)
  <2>1. u = Succ(p) /\ t \in Req /\ Waits(t, k) /\ ~Waits(t, k)' /\ reqPool[t].page = p
    BY <1>9 DEF BlockPasses
  <2>2. r # t /\ s # t
    BY <2>1
  <2>3. /\ Waits(r, k) /\ reqPool'[r] = reqPool[r]
        /\ Waits(s, k) /\ reqPool'[s] = reqPool[s]
    BY <2>2, StillWaits DEF Waits
  <2>4. x # p /\ y # p
    BY <2>1, <2>2, <2>3 DEF PendingOnce
  <2>5. p \in Span(p, n)
    BY <1>1, <1>2, <2>1 DEF PendingPages
  <2>6. Ahead(u, x) = Ahead(p, x) - 1 /\ Ahead(u, y) = Ahead(p, y) - 1
    BY <1>1, <2>1, <2>4, <2>5, SpanPass
  <2>7. Ahead(p, x) \in Int /\ Ahead(p, y) \in Int
    BY <1>1 DEF Ahead
  <2> QED BY <1>5, <2>3, <2>6, <2>7
<1> QED BY <1>3, <1>6, <1>7, <1>8, <1>9

-----------------------------------------------------------------------------
(* The read SyncReleaseEraseReq holds up, and the reads that wait.          *)

\* Nothing is made while a request is held up, and its page stays allocated.
SyncLast ==
  syncReq # NoReq =>
    /\ \A p \in Req : Outstanding(p) /\ p # syncReq => Older(p, syncReq)
    /\ reqPool[syncReq].page < currentPage[reqPool[syncReq].block]

\* The request a transformation waits with stays the youngest.
LEMMA StepSyncLast ==
  ASSUME IInv, IInv', OrderOK, SyncLast, NEW l \in Req \cup {NoReq}, NEW t \in Req \cup {NoReq},
         Moved(l, t), Recorded(l, t)
  PROVE  SyncLast'
<1> SUFFICES ASSUME NEW y, y = syncReq', y # NoReq
             PROVE  /\ \A p \in Req : Outstanding(p)' /\ p # y => Older(p, y)'
                    /\ reqPool'[y].page < currentPage'[reqPool'[y].block]
  BY DEF SyncLast, Outstanding
<1>1. \A p, q \in Req : Older(p, q)' <=> /\ p # l /\ q # l
                                         /\ Older(p, q) \/ (NewOne(t) /\ q = t /\ Outstanding(p))
  BY StepOrderOK
<1>2. \A p \in Req : Outstanding(p)' <=> (Outstanding(p) /\ p # l) \/ p = t
  BY MovedRequests
<1>3. CASE t # NoReq /\ reqQueueType'[t] = "NONE"
  <2>1. y = t /\ t \in Req /\ NewOne(t) /\ l = NoReq
    BY <1>3 DEF Moved, SyncMoves, ComesFrom, NewOne
  <2>2. reqPool'[t].reqCode = "READ" /\ Allocates(t)
    BY <1>3, <2>1 DEF Moved, Enters, MustSync
  <2>3. reqPool'[t].page < currentPage'[reqPool'[t].block]
    BY <2>2 DEF Allocates, DmaCode
  <2>4. ASSUME NEW p \in Req, Outstanding(p)', p # y PROVE Older(p, y)'
    <3>1. Outstanding(p)
      BY <1>2, <2>1, <2>4
    <3> QED BY <1>1, <2>1, <2>4, <3>1, ReqAssumption
  <2> QED BY <2>1, <2>3, <2>4
<1>4. CASE ~(t # NoReq /\ reqQueueType'[t] = "NONE")
  <2>1. y = syncReq /\ y \in Req /\ y # t
    BY <1>4 DEF Moved, SyncMoves, IInv, TypeOK
  <2>2. ~NewOne(t)
    BY <2>1 DEF Moved, ComesFrom, NewOne, Outstanding
  <2>3. reqQueueType[y] = "NONE"
    BY <2>1 DEF IInv, InHandOK
  <2>4. Outstanding(y) /\ y # l
    BY <2>1, <2>3 DEF Outstanding, Moved, Leaves
  <2>5. reqPool'[y] = reqPool[y] /\ currentPage' = currentPage
    BY <2>1, <2>2, <2>4, MovedRequests DEF Moved
  <2>6. ASSUME NEW p \in Req, Outstanding(p)', p # y PROVE Older(p, y)'
    <3>1. Outstanding(p) /\ p # l
      <4>1. p = t => Outstanding(p)
        BY <2>2, ReqAssumption DEF NewOne
      <4>2. p = t => p # l
        BY ReqAssumption DEF Moved
      <4> QED BY <1>2, <2>6, <4>1, <4>2
    <3> QED BY <1>1, <2>1, <2>4, <2>6, <3>1 DEF SyncLast
  <2> QED BY <2>1, <2>5, <2>6 DEF SyncLast
<1> QED BY <1>3, <1>4

\* A read that has not waited goes on only when no erase of its block waits.
LEMMA ReadEnters ==
  ASSUME IInv, IInv', FlagUp, NEW l \in Req \cup {NoReq}, NEW t \in Req, Moved(l, t),
         ~Blocked(t), reqQueueType'[t] # "NONE", NEW q, q = reqPool'[t], q.reqCode = "READ"
  PROVE  \A e \in Req : Waits(e, q.block) => reqPool[e].reqCode # "ERASE"
<1>1. t # NoReq /\ q.block \in Block
  BY MovedRequests, ReqAssumption DEF WellFormed, NandCode
<1>2. blockedEraseReqFlag[q.block] = FALSE
  <2>1. blockedEraseReqFlag[q.block] \in BOOLEAN
    BY <1>1 DEF IInv, TypeOK
  <2>2. CASE ~Outstanding(t)
    BY <1>1, <2>1, <2>2 DEF Moved, ComesFrom, MustSync, Outstanding
  <2>3. CASE Outstanding(t)
    <3>1. q = reqPool[t]
      BY <1>1, <2>3 DEF Moved
    <3> QED BY <1>1, <2>1, <2>3, <3>1 DEF Moved, ComesFrom, Blocked
  <2> QED BY <2>2, <2>3
<1> QED BY <1>1, <1>2 DEF FlagUp

\* A read that waits is older than the erases of its block that wait, and
\* its page is programmed already or by an older write that waits.
ReadFirst(r) ==
  \A e \in Req : Waits(e, reqPool[r].block) /\ reqPool[e].reqCode = "ERASE" => Older(r, e)
\* The page it reads has been programmed, or its write waits before it.
ReadBacked(r) ==
  \/ reqPool[r].page < permittedProgPage[reqPool[r].block]
  \/ \E w \in Req : /\ Waits(w, reqPool[r].block) /\ reqPool[w].reqCode = "WRITE"
                    /\ reqPool[w].page = reqPool[r].page
                    /\ Older(w, r)
\* So of every read that waits.
ReadsOK == \A r \in Req : Blocked(r) /\ reqPool[r].reqCode = "READ" => ReadFirst(r) /\ ReadBacked(r)

\* Of an allocated page of a block without a waiting erase, the program is
\* done or waits.
LEMMA AllocatedPage ==
  ASSUME IInv, Fields, Windows, NEW k \in Block, NEW x \in 0..PagesPerBlock, x < currentPage[k],
         \A e \in Req : Waits(e, k) => reqPool[e].reqCode # "ERASE"
  PROVE  \/ x < permittedProgPage[k]
         \/ \E w \in Req : Waits(w, k) /\ reqPool[w].reqCode = "WRITE" /\ reqPool[w].page = x
<1>1. PICK p : p = permittedProgPage[k]
  OBVIOUS
<1>2. p \in 0..PagesPerBlock /\ PagesPerBlock \in Nat /\ currentPage[k] \in 0..PagesPerBlock
  BY <1>1, PageAssumption DEF IInv, TypeOK
<1>3. PICK n \in 0..(PagesPerBlock + 1) : PendingPages(k) = Span(p, n) /\ currentPage[k] = Reach(p, n)
  BY <1>1 DEF Windows, Window
<1>4. PagesPerBlock \notin PendingPages(k)
  BY WaitingFields DEF PendingPages
<1>5. ~(Ahead(p, PagesPerBlock) < n)
  BY <1>2, <1>3, <1>4 DEF Span
<1>6. x >= p => Ahead(p, x) < n
  BY <1>2, <1>3, <1>5 DEF Ahead, Reach
<1>7. CASE x >= p
  <2>1. x \in PendingPages(k)
    BY <1>3, <1>6, <1>7 DEF Span
  <2>2. PICK w \in Req : Waits(w, k) /\ reqPool[w].page = x
    BY <2>1 DEF PendingPages
  <2> QED BY <2>2 DEF Waits, Changing
<1> QED BY <1>1, <1>2, <1>7

\* The table says that no read of the block waits, and none does.
LEMMA NoReadWaits ==
  ASSUME CountsOK, NEW k \in Block, blockedReadReqCnt[k] = 0, NEW r \in Req, Blocked(r), reqPool[r].block = k
  PROVE  reqPool[r].reqCode # "READ"
<1>1. Cardinality(WaitingReads(k)) = 0 /\ IsFiniteSet(WaitingReads(k))
  BY CountedFinite DEF CountsOK
<1>2. WaitingReads(k) = {}
  BY <1>1, FS_EmptySet
<1> QED BY <1>2 DEF WaitingReads

\* An erase that passes leaves no read waiting.
LEMMA EraseEnters ==
  ASSUME IInv, IInv', CountsOK, NEW l \in Req \cup {NoReq}, NEW t \in Req, Moved(l, t),
         NEW q, q = reqPool'[t], q.reqCode = "ERASE", reqQueueType'[t] = "NAND",
         NEW r \in Req, Blocked(r), reqPool[r].block = q.block
  PROVE  reqPool[r].reqCode # "READ"
<1>1. t # NoReq /\ q.block \in Block
  BY MovedRequests, ReqAssumption DEF WellFormed, NandCode
<1>2. PassRowAddrDep(q)
  BY <1>1 DEF Moved, Enters
<1>3. blockedReadReqCnt[q.block] = 0
  BY <1>2 DEF PassRowAddrDep
<1> QED BY <1>1, <1>3, NoReadWaits

\* A step keeps the reads in their place.
LEMMA StepReadsOK ==
  ASSUME IInv, IInv', CountsOK, Fields, Fields', PendingOnce, FlagUp, Windows, OrderOK, SyncLast, ReadsOK,
         NEW l \in Req \cup {NoReq}, NEW t \in Req \cup {NoReq}, Moved(l, t), Recorded(l, t), ~FastReuse
  PROVE  ReadsOK'
<1> SUFFICES ASSUME NEW r \in Req, Blocked(r)', NEW q, q = reqPool'[r], q.reqCode = "READ",
                    NEW k, k = q.block
             PROVE  /\ \A e \in Req : Waits(e, k)' /\ reqPool'[e].reqCode = "ERASE" => Older(r, e)'
                    /\ \/ q.page < permittedProgPage'[k]
                       \/ \E w \in Req : /\ Waits(w, k)' /\ reqPool'[w].reqCode = "WRITE"
                                         /\ reqPool'[w].page = q.page
                                         /\ Older(w, r)'
  BY DEF ReadsOK, ReadFirst, ReadBacked, Blocked
<1>1. \A p, s \in Req : Older(p, s)' <=> /\ p # l /\ s # l
                                         /\ Older(p, s) \/ (NewOne(t) /\ s = t /\ Outstanding(p))
  BY StepOrderOK
<1>2. Outstanding(r)' /\ r # l /\ WellFormed(q) /\ k \in Block
  <2>1. Outstanding(r)'
    BY DEF Blocked, Outstanding
  <2>2. r # l
    BY ReqAssumption DEF Moved, Leaves, Blocked
  <2> QED BY <2>1, <2>2 DEF IInv, RequestsOK, Outstanding, WellFormed, NandCode
<1>3. /\ permittedProgPage[k] \in 0..PagesPerBlock /\ q.page \in 0..PagesPerBlock
      /\ PagesPerBlock \in Nat
  BY <1>2, PageAssumption DEF IInv, TypeOK, WellFormed, Request
<1>4. \A e \in Req : Waits(e, k) /\ (e # t \/ Outstanding(t)) => reqPool'[e] = reqPool[e] /\ e # l
  BY WaitsSame
<1>5. \A e \in Req : e # t => (Waits(e, k)' <=> Waits(e, k))
  BY StillWaits
<1>6. CASE Blocked(r)
  <2>1. q = reqPool[r] /\ ReadFirst(r) /\ ReadBacked(r) /\ Outstanding(r)
    <3>1. r # t => q = reqPool[r]
      BY <1>6, StillWaits
    <3>2. r = t => q = reqPool[r]
      BY <1>6, MoverSame DEF Blocked, Outstanding
    <3>3. q = reqPool[r] /\ Outstanding(r)
      BY <1>6, <3>1, <3>2 DEF Blocked, Outstanding
    <3> QED BY <1>6, <3>3 DEF ReadsOK
  <2>2. ASSUME NEW e \in Req, Waits(e, k)', reqPool'[e].reqCode = "ERASE" PROVE Older(r, e)'
    <3>1. CASE e = t /\ ~Outstanding(t)
      <4>1. NewOne(t) /\ l = NoReq
        BY <3>1, ReqAssumption DEF NewOne, Moved, ComesFrom, Outstanding
      <4> QED BY <1>1, <1>2, <2>1, <3>1, <4>1, ReqAssumption
    <3>2. CASE e # t \/ Outstanding(t)
      <4>1. Waits(e, k)
        <5>1. CASE e = t /\ Outstanding(t)
          <6>1. reqPool'[e] = reqPool[e] /\ (~Blocked(e) => reqPool[e].reqCode = "READ")
            BY <5>1, MoverSame
          <6> QED BY <2>2, <6>1 DEF Waits
        <5> QED BY <1>5, <2>2, <3>2, <5>1
      <4>2. reqPool'[e] = reqPool[e] /\ e # l
        BY <1>4, <3>2, <4>1
      <4>3. Older(r, e)
        BY <2>1, <2>2, <4>1, <4>2 DEF ReadFirst
      <4> QED BY <1>1, <1>2, <4>2, <4>3
    <3> QED BY <3>1, <3>2
  <2>3. BlockStays(k) \/ BlockWaits(k, t) \/ BlockSkips(k) \/ BlockPasses(k, t)
    BY <1>2, BlockMoves
  <2>4. CASE q.page < permittedProgPage[k]
    <3>1. CASE permittedProgPage'[k] = permittedProgPage[k]
      BY <2>2, <2>4, <3>1
    <3>2. CASE permittedProgPage'[k] # permittedProgPage[k]
      <4>1. permittedProgPage'[k] = Succ(permittedProgPage[k])
        BY <2>3, <3>2 DEF BlockStays, BlockWaits, BlockSkips, BlockPasses
      <4>2. permittedProgPage[k] # PagesPerBlock
        <5> SUFFICES ASSUME permittedProgPage[k] = PagesPerBlock PROVE FALSE
          OBVIOUS
        <5>1. PICK s : s = reqPool'[t]
          OBVIOUS
        <5>2. /\ t # NoReq /\ reqQueueType'[t] = "NAND" /\ s.block = k
              /\ s.reqCode \in NandCode /\ PassRowAddrDep(s)
              /\ permittedProgPage'[k] = After(s, permittedProgPage[k])
          BY <1>2, <3>2, <5>1, TableMoves
        <5>3. t \in Req /\ WellFormed(s)
          BY <5>1, <5>2, MovedRequests
        <5>4. s.reqCode # "READ"
          BY <3>2, <5>2 DEF After
        <5>5. s.reqCode # "WRITE"
          <6> SUFFICES ASSUME s.reqCode = "WRITE" PROVE FALSE
            OBVIOUS
          <6>1. s.page < PagesPerBlock /\ s.page = permittedProgPage[k]
            BY <5>2, <5>3 DEF WellFormed, PassRowAddrDep
          <6> QED BY <1>3, <6>1
        <5>6. s.reqCode = "ERASE"
          BY <5>2, <5>4, <5>5 DEF NandCode
        <5> QED BY <1>6, <2>1, <5>1, <5>2, <5>3, <5>6, EraseEnters
      <4>3. q.page < permittedProgPage'[k]
        BY <1>3, <2>4, <4>1, <4>2 DEF Succ
      <4> QED BY <2>2, <4>3
    <3> QED BY <3>1, <3>2
  <2>5. CASE ~(q.page < permittedProgPage[k])
    <3>1. PICK w \in Req : /\ Waits(w, k) /\ reqPool[w].reqCode = "WRITE"
                           /\ reqPool[w].page = q.page /\ Older(w, r)
      BY <2>1, <2>5 DEF ReadBacked
    <3>2. w # t \/ Outstanding(t)
      BY <3>1 DEF Waits, Blocked, Outstanding
    <3>3. reqPool'[w] = reqPool[w] /\ w # l /\ Older(w, r)'
      BY <1>1, <1>2, <1>4, <3>1, <3>2
    <3>4. CASE Waits(w, k)'
      BY <2>2, <3>1, <3>3, <3>4
    <3>5. CASE ~Waits(w, k)'
      <4>1. w = t
        BY <1>5, <3>1, <3>5
      <4>2. BlockPasses(k, t)
        BY <2>3, <3>1, <3>5, <4>1 DEF BlockStays, BlockSkips, BlockWaits
      <4>3. permittedProgPage[k] = q.page /\ permittedProgPage'[k] = Succ(q.page)
        BY <3>1, <4>1, <4>2 DEF BlockPasses
      <4>4. q.page # PagesPerBlock
        BY <3>1, WaitingFields
      <4>5. q.page < permittedProgPage'[k]
        BY <1>3, <4>3, <4>4 DEF Succ
      <4> QED BY <2>2, <4>5
    <3> QED BY <3>4, <3>5
  <2> QED BY <2>4, <2>5
<1>7. CASE ~Blocked(r)
  <2>1. r = t /\ t # NoReq /\ reqQueueType'[t] # "NONE" /\ reqQueueType'[t] # "NAND"
    BY <1>7, StillWaits, ReqAssumption DEF Blocked
  <2>2. \A e \in Req : Waits(e, k) => reqPool[e].reqCode # "ERASE"
    BY <1>7, <2>1, ReadEnters
  <2>3. \A e \in Req : Waits(e, k)' => e # t
    BY <2>1 DEF Waits, Changing
  <2>4. \A e \in Req : ~(Waits(e, k)' /\ reqPool'[e].reqCode = "ERASE")
    BY <1>4, <1>5, <2>2, <2>3
  <2>5. /\ q.page < currentPage[k]
        /\ \A w \in Req : Waits(w, k) => Older(w, r)'
    <3>1. CASE ~Outstanding(t)
      <4>1. NewOne(t) /\ Allocates(t) /\ l = NoReq
        BY <2>1, <3>1 DEF NewOne, Moved, ComesFrom, Outstanding
      <4>2. q.page < currentPage[k]
        BY <2>1, <4>1 DEF Allocates, DmaCode
      <4>3. ASSUME NEW w \in Req, Waits(w, k) PROVE Older(w, r)'
        BY <1>1, <2>1, <4>1, <4>3, ReqAssumption DEF Waits, Blocked, Outstanding
      <4> QED BY <4>2, <4>3
    <3>2. CASE Outstanding(t)
      <4>1. t = syncReq /\ q = reqPool[t] /\ syncReq # NoReq
        BY <1>7, <2>1, <3>2 DEF Moved, ComesFrom, Blocked
      <4>2. q.page < currentPage[k]
        BY <4>1 DEF SyncLast
      <4>3. ASSUME NEW w \in Req, Waits(w, k) PROVE Older(w, r)'
        <5>1. Outstanding(w) /\ w # r /\ w # l
          BY <1>4, <1>7, <3>2, <4>3 DEF Waits, Blocked, Outstanding
        <5>2. Older(w, r)
          BY <2>1, <4>1, <5>1 DEF SyncLast
        <5> QED BY <1>1, <1>2, <5>1, <5>2
      <4> QED BY <4>2, <4>3
    <3> QED BY <3>1, <3>2
  <2>6. permittedProgPage'[k] = permittedProgPage[k]
    BY <1>2, <2>1, TableMoves
  <2>7. \/ q.page < permittedProgPage[k]
        \/ \E w \in Req : Waits(w, k) /\ reqPool[w].reqCode = "WRITE" /\ reqPool[w].page = q.page
    BY <1>2, <1>3, <2>2, <2>5, AllocatedPage
  <2>8. \A w \in Req : Waits(w, k) => w # t
    BY <1>7, <2>1 DEF Waits
  <2> QED BY <1>4, <1>5, <2>4, <2>5, <2>6, <2>7, <2>8
<1> QED BY <1>6, <1>7

-----------------------------------------------------------------------------
(* Conflicting requests reach the flash in the order they were made in.     *)

\* Two accesses to the flash that must keep their order.
RowConflict(p, q) ==
  /\ p.block # NoBlock /\ p.block = q.block
  /\ \/ "ERASE" \in {p.reqCode, q.reqCode}
     \/ "WRITE" \in {p.reqCode, q.reqCode} /\ p.page = q.page
     \/ {p.reqCode, q.reqCode} = {"WRITE"}

\* All that is known of the requests that wait.
PendingOK == /\ CountsOK /\ WaitsOK /\ OrderOK /\ Windows /\ PendingOrder /\ SyncLast /\ ReadsOK

\* A write or erase that passes: those of its block that wait are younger.
LEMMA ChangingPasses ==
  ASSUME IInv, IInv', PendingOK, Fields', NEW l \in Req \cup {NoReq}, NEW t \in Req, Moved(l, t),
         ~FastReuse, NEW q, q = reqPool'[t], q.reqCode \in Changing, reqQueueType'[t] = "NAND",
         NEW p \in Req, p # t, Waits(p, q.block)
  PROVE  Outstanding(t) /\ Older(t, p)
<1>1. /\ t # NoReq /\ WellFormed(q) /\ PassRowAddrDep(q) /\ Outstanding(t)'
      /\ q.reqCode = "ERASE" => q.page = PagesPerBlock
  <2>1. t # NoReq /\ Outstanding(t)' /\ WellFormed(q)
    BY MovedRequests, ReqAssumption
  <2> QED BY <2>1 DEF Moved, Enters, Fields, Outstanding
<1>2. PICK k : k = q.block
  OBVIOUS
<1>3. k \in Block /\ q.page = permittedProgPage[k] /\ q.page \in 0..PagesPerBlock
  BY <1>1, <1>2, ChangingPage
<1>4. PICK n \in 0..(PagesPerBlock + 1) : /\ PendingPages(k) = Span(q.page, n)
                                          /\ currentPage[k] = Reach(q.page, n)
  BY <1>3 DEF PendingOK, Windows, Window
<1>5. reqPool[p].page \in PendingPages(k) /\ reqPool[p].page \in 0..PagesPerBlock
  BY <1>2, WaitingFields DEF PendingPages, PendingOK, WaitsOK
<1>6. Outstanding(t)
  <2> SUFFICES ASSUME ~Outstanding(t) PROVE FALSE
    OBVIOUS
  <2>1. ~Lagging(q) /\ Allocates(t)
    BY MoverSame
  <2>2. q.page = currentPage[k]
    BY <1>1, <1>2, <2>1 DEF Allocates, Changing, DmaCode
  <2>3. q.page \notin PendingPages(k)
    BY <1>1, <1>2, <2>1, FreshPage DEF PendingOK, WaitsOK
  <2> QED BY <1>3, <1>4, <1>5, <2>3, SpanEmpty
<1>7. Waits(t, k) /\ q = reqPool[t]
  <2>1. q = reqPool[t] /\ (~Blocked(t) => q.reqCode = "READ")
    BY <1>6, MoverSame
  <2> QED BY <1>2, <2>1 DEF Waits, Changing
<1>8. reqPool[p].page # q.page
  BY <1>2, <1>3, <1>7 DEF PendingOK, WaitsOK, PendingOnce
<1>9. Ahead(permittedProgPage[k], q.page) < Ahead(permittedProgPage[k], reqPool[p].page)
  BY <1>3, <1>5, <1>8, PageAssumption DEF Ahead
<1> QED BY <1>2, <1>3, <1>6, <1>7, <1>9 DEF PendingOK, PendingOrder

\* The erase that lies between a page the table permits and a lower page.
LEMMA EraseBetween ==
  ASSUME IInv, PendingOK, NEW k \in Block, NEW w \in Req, Waits(w, k),
         reqPool[w].page < permittedProgPage[k]
  PROVE  \E e \in Req : /\ Waits(e, k) /\ reqPool[e].reqCode = "ERASE"
                        /\ e = w \/ Older(e, w)
<1>1. PICK p, x : p = permittedProgPage[k] /\ x = reqPool[w].page
  OBVIOUS
<1>2. p \in 0..PagesPerBlock /\ x \in 0..PagesPerBlock /\ x \in PendingPages(k) /\ PagesPerBlock \in Nat
  BY <1>1, PageAssumption, WaitingFields DEF PendingPages, PendingOK, WaitsOK, IInv, TypeOK
<1>3. PICK n \in 0..(PagesPerBlock + 1) : PendingPages(k) = Span(p, n)
  BY <1>1 DEF PendingOK, Windows, Window
<1>4. Ahead(p, PagesPerBlock) < Ahead(p, x) /\ PagesPerBlock \in Span(p, n)
  BY <1>1, <1>2, <1>3 DEF Ahead, Span
<1>5. PICK e \in Req : Waits(e, k) /\ reqPool[e].page = PagesPerBlock
  BY <1>3, <1>4 DEF PendingPages
<1>6. reqPool[e].reqCode = "ERASE"
  BY <1>5, WaitingFields DEF PendingOK, WaitsOK
<1>7. Older(e, w)
  BY <1>1, <1>4, <1>5 DEF PendingOK, PendingOrder
<1> QED BY <1>5, <1>6, <1>7

\* A read that passes: the writes and erases of its block it conflicts with
\* that wait are younger.
LEMMA ReadPasses ==
  ASSUME IInv, IInv', PendingOK, NEW l \in Req \cup {NoReq}, NEW t \in Req, Moved(l, t),
         NEW q, q = reqPool'[t], q.reqCode = "READ", reqQueueType'[t] = "NAND",
         NEW p \in Req, Waits(p, q.block), reqPool[p].reqCode = "WRITE" => reqPool[p].page = q.page
  PROVE  Outstanding(t) /\ Older(t, p)
<1>1. t # NoReq /\ WellFormed(q) /\ PassRowAddrDep(q)
  <2>1. t # NoReq /\ WellFormed(q)
    BY MovedRequests, ReqAssumption
  <2> QED BY <2>1 DEF Moved, Enters
<1>2. PICK k : k = q.block
  OBVIOUS
<1>3. k \in Block /\ q.page < permittedProgPage[k]
  BY <1>1, <1>2 DEF WellFormed, NandCode, PassRowAddrDep
<1>4. PICK e \in Req : /\ Waits(e, k) /\ reqPool[e].reqCode = "ERASE"
                       /\ e = p \/ Older(e, p)
  <2>1. CASE reqPool[p].reqCode = "ERASE"
    BY <1>2, <2>1
  <2>2. CASE reqPool[p].reqCode # "ERASE"
    <3>1. reqPool[p].page = q.page
      BY <2>2 DEF Waits, Changing
    <3> QED BY <1>2, <1>3, <3>1, EraseBetween
  <2> QED BY <2>1, <2>2
<1>5. Blocked(t)
  BY <1>2, <1>4, ReadEnters DEF PendingOK, WaitsOK
<1>6. Outstanding(t) /\ reqPool[t] = q
  BY <1>5, MoverSame DEF Blocked, Outstanding
<1>7. Older(t, e)
  BY <1>2, <1>4, <1>5, <1>6 DEF PendingOK, ReadsOK, ReadFirst
<1>8. Older(t, p)
  BY <1>4, <1>7, BeforeTransitive DEF Older, PendingOK, OrderOK
<1> QED BY <1>6, <1>8

\* A request that goes to the flash finds the older ones it conflicts with
\* there.
LEMMA PassesInOrder ==
  ASSUME IInv, IInv', PendingOK, DmaCodesOK, Fields', OrderOK', ~FastReuse,
         NEW l \in Req \cup {NoReq}, NEW t \in Req, Moved(l, t), Recorded(l, t),
         reqQueueType'[t] = "NAND",
         NEW p \in Req, Older(p, t)', RowConflict(reqPool'[p], reqPool'[t])
  PROVE  reqQueueType'[p] = "NAND" /\ p # t
<1>1. PICK q, o : q = reqPool'[t] /\ o = reqPool'[p]
  OBVIOUS
<1>2. /\ t # NoReq /\ WellFormed(q) /\ q.reqCode \in NandCode /\ PassRowAddrDep(q)
  <2>1. t # NoReq /\ WellFormed(q)
    BY <1>1, MovedRequests, ReqAssumption
  <2> QED BY <1>1, <2>1 DEF Moved, Enters
<1>3. /\ p # l /\ t # l
      /\ Older(p, t) \/ (NewOne(t) /\ Outstanding(p))
  BY StepOrderOK DEF PendingOK
<1>4. p # t
  <2>1. order' \in Seq(Req) /\ NoDup(order')
    BY DEF OrderOK
  <2> QED BY <2>1, BeforeIrreflexive DEF Older
<1>5. Older(p, t) => Outstanding(p) /\ Outstanding(t) /\ ~Older(t, p)
  <2> SUFFICES ASSUME Older(p, t) PROVE Outstanding(p) /\ Outstanding(t) /\ ~Older(t, p)
    OBVIOUS
  <2>1. order \in Seq(Req) /\ NoDup(order) /\ \A r \in Req : r \in ToSet(order) <=> Outstanding(r)
    BY DEF PendingOK, OrderOK
  <2> QED BY <2>1, BeforeIrreflexive DEF Older
<1>6. Outstanding(p) /\ o = reqPool[p] /\ reqQueueType'[p] = reqQueueType[p] /\ WellFormed(o)
  <2>1. Outstanding(p)
    BY <1>3, <1>5
  <2> QED BY <1>1, <1>3, <1>4, <2>1, MovedRequests DEF IInv, RequestsOK
<1>7. ~(Outstanding(t) /\ Older(t, p))
  BY <1>3, <1>5 DEF NewOne
<1>8. reqQueueType[p] # "NVME_DMA"
  <2> SUFFICES ASSUME reqQueueType[p] = "NVME_DMA" PROVE FALSE
    OBVIOUS
  <2>1. o.block = NoBlock
    BY <1>6 DEF DmaCodesOK, PendingOK, WaitsOK, Fields
  <2> QED BY <1>1, <2>1 DEF RowConflict
<1>9. reqQueueType[p] # "NONE"
  <2> SUFFICES ASSUME reqQueueType[p] = "NONE" PROVE FALSE
    OBVIOUS
  <2>1. p = syncReq /\ syncReq # NoReq
    BY ReqAssumption DEF IInv, InHandOK
  <2>2. Outstanding(t)
    BY <1>2, <2>1 DEF Moved, ComesFrom, Outstanding
  <2> QED BY <1>4, <1>7, <2>1, <2>2 DEF PendingOK, SyncLast
<1>10. ~Blocked(p)
  <2> SUFFICES ASSUME Blocked(p) PROVE FALSE
    OBVIOUS
  <2>1. o.block = q.block
    BY <1>1 DEF RowConflict
  <2>2. o.reqCode \in NandCode
    BY <1>1, <1>6 DEF RowConflict, PendingOK, WaitsOK, Fields, WellFormed, Request, DmaCode, NandCode
  <2>3. CASE q.reqCode = "READ"
    <3>1. o.reqCode \in Changing /\ (o.reqCode = "WRITE" => o.page = q.page)
      BY <1>1, <2>2, <2>3 DEF RowConflict, NandCode, Changing
    <3>2. Waits(p, q.block)
      BY <1>6, <2>1, <3>1 DEF Waits
    <3> QED BY <1>1, <1>6, <1>7, <2>3, <3>1, <3>2, ReadPasses
  <2>4. CASE q.reqCode \in Changing /\ o.reqCode \in Changing
    <3>1. Waits(p, q.block)
      BY <1>6, <2>1, <2>4 DEF Waits
    <3> QED BY <1>1, <1>4, <1>7, <2>4, <3>1, ChangingPasses
  <2>5. CASE q.reqCode = "ERASE" /\ o.reqCode = "READ"
    BY <1>1, <1>6, <2>1, <2>5, EraseEnters DEF PendingOK
  <2>6. CASE q.reqCode = "WRITE" /\ o.reqCode = "READ"
    <3>1. o.page = q.page
      BY <1>1, <2>6 DEF RowConflict
    <3>2. ~(o.page < permittedProgPage[o.block])
      <4>1. q.page = permittedProgPage[q.block] /\ q.block \in Block
        BY <1>2, <2>6 DEF PassRowAddrDep, WellFormed
      <4>2. permittedProgPage[q.block] \in 0..PagesPerBlock /\ PagesPerBlock \in Nat
        BY <4>1, PageAssumption DEF IInv, TypeOK
      <4> QED BY <2>1, <3>1, <4>1, <4>2
    <3>3. PICK w \in Req : Waits(w, q.block) /\ reqPool[w].page = q.page /\ Older(w, p)
      BY <1>6, <2>1, <2>6, <3>1, <3>2 DEF PendingOK, ReadsOK, ReadBacked
    <3>4. w = t
      <4> SUFFICES ASSUME w # t PROVE FALSE
        OBVIOUS
      <4>1. Outstanding(t)
        BY <1>1, <2>6, <3>3, ChangingPasses DEF Changing
      <4>2. reqPool[t] = q /\ Blocked(t)
        BY <1>1, <2>6, <4>1, MoverSame
      <4>3. Waits(t, q.block)
        BY <2>6, <4>2 DEF Waits, Changing
      <4>4. q.block \in Block
        BY <1>2 DEF WellFormed
      <4> QED BY <3>3, <4>2, <4>3, <4>4 DEF PendingOK, WaitsOK, PendingOnce
    <3> QED BY <1>7, <3>3, <3>4 DEF Waits, Blocked, Outstanding
  <2> QED BY <1>2, <2>2, <2>3, <2>4, <2>5, <2>6 DEF NandCode, Changing
<1>11. reqQueueType[p] \in QueueType
  BY DEF IInv, TypeOK
<1> QED BY <1>4, <1>6, <1>8, <1>9, <1>10, <1>11 DEF QueueType, Blocked, Outstanding

\* The queue of a die when a request has left it.
LEMMA RestQueue ==
  ASSUME TypeOK, NandQueuesOK, NEW d \in Die, NEW l, NEW s, s = nandReqQ[d], NEW r, r = Rest(d, l)
  PROVE  /\ s \in Seq(Req) /\ r \in Seq(Req) /\ NoDup(s) /\ NoDup(r)
         /\ ToSet(r) \subseteq ToSet(s)
         /\ \A p, q : p # l /\ q # l => (Before(r, p, q) <=> Before(s, p, q))
<1>1. s \in Seq(Req) /\ NoDup(s)
  BY DEF TypeOK, NandQueuesOK
<1>2. CASE s # <<>> /\ Head(s) = l
  <2>1. r = Tail(s)
    BY <1>2 DEF Rest
  <2>2. r \in Seq(Req) /\ NoDup(r) /\ ToSet(r) \subseteq ToSet(s)
    BY <1>1, <1>2, <2>1, TailQueue
  <2>3. \A p, q : p # l /\ q # l => (Before(r, p, q) <=> Before(s, p, q))
    BY <1>1, <1>2, <2>1, BeforeTail
  <2> QED BY <1>1, <2>2, <2>3
<1>3. CASE ~(s # <<>> /\ Head(s) = l)
  <2>1. r = s
    BY <1>3 DEF Rest
  <2> QED BY <1>1, <2>1
<1> QED BY <1>2, <1>3

\* A request in the queue of a die has the older ones it conflicts with in
\* front of it there, or they are finished.
NandOrder ==
  \A p, q \in Req :
    Older(p, q) /\ reqQueueType[q] = "NAND" /\ RowConflict(reqPool[p], reqPool[q]) =>
      reqQueueType[p] = "NAND" /\ Before(nandReqQ[DieOfReq(reqPool[q])], p, q)

\* A step keeps conflicting requests of a die in the order they were made.
LEMMA StepNandOrder ==
  ASSUME IInv, IInv', PendingOK, DmaCodesOK, Fields', OrderOK', ~FastReuse, NandOrder,
         NEW l \in Req \cup {NoReq}, NEW t \in Req \cup {NoReq}, Moved(l, t), Recorded(l, t)
  PROVE  NandOrder'
<1> SUFFICES ASSUME NEW p \in Req, NEW q \in Req, Older(p, q)', reqQueueType'[q] = "NAND",
                    RowConflict(reqPool'[p], reqPool'[q]),
                    NEW d, d = DieOfReq(reqPool'[q]), NEW u, u = nandReqQ'[d]
             PROVE  reqQueueType'[p] = "NAND" /\ Before(u, p, q)
  BY DEF NandOrder, RowConflict, DieOfReq
<1>1. /\ p # l /\ q # l
      /\ Older(p, q) \/ (NewOne(t) /\ q = t /\ Outstanding(p))
  BY StepOrderOK DEF PendingOK
<1>2. d \in Die /\ DieOfReq(reqPool'[p]) = d
  <2>1. reqPool'[q] \in Request /\ reqPool'[q].block \in Block
    BY DEF IInv, TypeOK, Request, RowConflict
  <2> QED BY <2>1, BlockAssumption DEF DieOfReq, RowConflict
<1>3. PICK s, r : s = nandReqQ[d] /\ r = Rest(d, l)
  OBVIOUS
<1>4. /\ s \in Seq(Req) /\ r \in Seq(Req) /\ NoDup(s) /\ NoDup(r) /\ ToSet(r) \subseteq ToSet(s)
      /\ \A x, y : x # l /\ y # l => (Before(r, x, y) <=> Before(s, x, y))
  BY <1>2, <1>3, RestQueue DEF IInv, QueuesOK
<1>5. \A x \in Req : x \in ToSet(s) => reqQueueType[x] = "NAND"
  BY <1>2, <1>3 DEF IInv, QueuesOK, NandQueuesOK
<1>6. u = IF t # NoReq /\ reqQueueType'[t] = "NAND" /\ DieOfReq(reqPool'[t]) = d THEN Append(r, t) ELSE r
  BY <1>2, <1>3 DEF Moved, NandQueuesMove
<1>7. t # NoReq => t \in Req /\ t \notin ToSet(r)
  <2>1. t # NoReq => t \in Req /\ reqQueueType[t] # "NAND"
    BY MovedRequests
  <2> QED BY <1>4, <1>5, <2>1
<1>8. CASE q = t
  <2>1. t # NoReq /\ t \in Req /\ u = Append(r, t)
    BY <1>6, <1>8, ReqAssumption
  <2>2. reqQueueType'[p] = "NAND" /\ p # t
    BY <1>8, PassesInOrder
  <2>3. p \in ToSet(u)
    BY <1>2, <2>2 DEF IInv, QueuesOK, NandQueuesOK
  <2>4. p \in ToSet(r)
    BY <1>4, <1>7, <2>1, <2>2, <2>3, AppendQueue
  <2>5. Before(Append(r, t), p, t)
    BY <1>4, <1>7, <2>1, <2>4, BeforeAppend
  <2>6. Before(u, p, q)
    BY <1>8, <2>1, <2>5
  <2> QED BY <2>2, <2>6
<1>9. CASE q # t
  <2>1. Older(p, q)
    BY <1>1, <1>9
  <2>2. Outstanding(p) /\ Outstanding(q)
    <3>1. order \in Seq(Req) /\ NoDup(order) /\ \A x \in Req : x \in ToSet(order) <=> Outstanding(x)
      BY DEF PendingOK, OrderOK
    <3> QED BY <2>1, <3>1, BeforeIrreflexive DEF Older
  <2>3. reqPool'[q] = reqPool[q] /\ reqQueueType[q] = "NAND"
    BY <1>1, <1>9, <2>2, MovedRequests
  <2>4. reqPool'[p] = reqPool[p]
    <3>1. p # t => reqPool'[p] = reqPool[p]
      BY <1>1, <2>2, MovedRequests
    <3>2. p = t => reqPool'[p] = reqPool[p]
      BY <2>2, MoverSame
    <3> QED BY <3>1, <3>2
  <2>5. reqQueueType[p] = "NAND" /\ Before(s, p, q)
    BY <1>3, <2>1, <2>3, <2>4 DEF NandOrder
  <2>6. p # t
    BY <2>5, MovedRequests, ReqAssumption
  <2>7. reqQueueType'[p] = "NAND"
    BY <1>1, <2>2, <2>5, <2>6, MovedRequests
  <2>8. Before(r, p, q)
    BY <1>1, <1>4, <2>5
  <2>9. Before(u, p, q)
    <3>1. CASE u = r
      BY <2>8, <3>1
    <3>2. CASE u = Append(r, t) /\ t # NoReq
      BY <1>4, <1>7, <2>8, <3>2, BeforeAppend
    <3> QED BY <1>6, <3>1, <3>2
  <2> QED BY <2>7, <2>9
<1> QED BY <1>8, <1>9

-----------------------------------------------------------------------------
(* In every reachable state.                                                *)

\* What the order of the requests is worth.
OrderedOK == Windows /\ PendingOrder /\ SyncLast /\ ReadsOK /\ NandOrder

\* A step keeps the conjuncts about the order.
LEMMA StepOrderedOK ==
  ASSUME IInv, CountsOK, WaitsOK, WaitsOK', DmaOK, OrderOK, OrderedOK, ~FastReuse, [OrderNext]_orderVars
  PROVE  OrderedOK'
<1>1. PICK l \in Req \cup {NoReq}, t \in Req \cup {NoReq} : IInv' /\ Moved(l, t) /\ Recorded(l, t)
  BY OrderMoves
<1>2. OrderOK'
  BY <1>1, StepOrderOK
<1>3. Fields /\ Fields' /\ PendingOnce /\ FlagUp /\ DmaCodesOK
  BY DEF WaitsOK, DmaOK
<1>4. Windows'
  BY <1>1, <1>3, StepWindow DEF OrderedOK
<1>5. PendingOrder'
  BY <1>1, <1>3, StepPendingOrder DEF OrderedOK
<1>6. SyncLast'
  BY <1>1, StepSyncLast DEF OrderedOK
<1>7. ReadsOK'
  BY <1>1, <1>3, StepReadsOK DEF OrderedOK
<1>8. NandOrder'
  BY <1>1, <1>2, <1>3, StepNandOrder DEF OrderedOK, PendingOK
<1> QED BY <1>4, <1>5, <1>6, <1>7, <1>8 DEF OrderedOK

\* Without fast reuse, what is known of the order of the requests holds in
\* every reachable state.
THEOREM OrderedHolds ==
  ASSUME ~FastReuse
  PROVE  OrderSpec => []OrderedOK
<1>1. OrderInit => OrderedOK
  <2> SUFFICES ASSUME OrderInit PROVE OrderedOK
    OBVIOUS
  <2>1. /\ order = <<>> /\ syncReq = NoReq
        /\ \A r \in Req : ~Blocked(r) /\ reqQueueType[r] # "NAND"
        /\ \A k \in Block : permittedProgPage[k] = 0 /\ currentPage[k] = 0
    BY DEF OrderInit, Init, Blocked
  <2>2. \A k : PendingPages(k) = {} /\ \A r \in Req : ~Waits(r, k)
    BY <2>1 DEF PendingPages, Waits
  <2>3. Span(0, 0) = {} /\ Reach(0, 0) = 0 /\ 0 \in 0..(PagesPerBlock + 1)
    BY PageAssumption DEF Span, Reach, Ahead
  <2>4. Windows
    BY <2>1, <2>2, <2>3 DEF Windows, Window
  <2> QED BY <2>1, <2>2, <2>4 DEF OrderedOK, PendingOrder, SyncLast, ReadsOK, NandOrder
<1>2. /\ IInv /\ CountsOK /\ WaitsOK /\ WaitsOK' /\ DmaOK /\ (OrderOK /\ ChainOrder /\ FlashOK) /\ OrderedOK
      /\ [OrderNext]_orderVars
      => OrderedOK'
  BY StepOrderedOK
<1> QED BY <1>1, <1>2, OrderSpecIsSpec, IInvHolds, CountsHold, WaitsHold, DmaHolds, HistoryHolds, PTL
        DEF OrderSpec

\* Two outstanding requests that share a buffer: the younger is in no queue of
\* a device.
LEMMA BufferOrder ==
  ASSUME IInv, ChainsFull, OrderOK, ChainOrder, NEW p \in Req, NEW q \in Req, Older(p, q), InQueue(q)
  PROVE  ~(reqPool[p].buf # NoBuf /\ reqPool[p].buf = reqPool[q].buf)
<1> SUFFICES ASSUME NEW b, b = reqPool[p].buf, b # NoBuf, b = reqPool[q].buf PROVE FALSE
  OBVIOUS
<1>1. order \in Seq(Req) /\ NoDup(order) /\ \A x \in Req : x \in ToSet(order) <=> Outstanding(x)
  BY DEF OrderOK
<1>2. Outstanding(p) /\ p # q /\ ~Older(q, p)
  BY <1>1, BeforeIrreflexive DEF Older
<1>3. PICK s : s = blockingReq[b]
  OBVIOUS
<1>4. b \in Buf
  BY DEF IInv, TypeOK, Request
<1>5. s \in Seq(Req) /\ NoDup(s) /\ s # <<>> /\ Head(s) = q
  BY <1>3, <1>4 DEF IInv, TypeOK, ChainsOK, BufferExclusive
<1>6. p \in ToSet(s)
  BY <1>2, <1>3 DEF ChainsFull, ChainFull
<1>7. Before(s, q, p)
  BY <1>2, <1>5, <1>6, BeforeHead
<1> QED BY <1>2, <1>3, <1>4, <1>7 DEF ChainOrder

\* A request in the queue of its die has every older one it conflicts with in
\* front of it there.
THEOREM NoOvertakingHolds ==
  ASSUME ~FastReuse
  PROVE  OrderSpec => []NoOvertaking
<1>1. IInv /\ ChainsFull /\ (OrderOK /\ ChainOrder /\ FlashOK) /\ OrderedOK => NoOvertaking
  <2> SUFFICES ASSUME IInv, ChainsFull, OrderOK, ChainOrder, OrderedOK,
                      NEW i \in 1..Len(order), NEW j \in 1..Len(order), i < j,
                      NEW p, p = order[i], NEW q, q = order[j],
                      NEW d, d = DieOf[reqPool[q].block],
                      reqQueueType[q] = "NAND", Conflict(reqPool[p], reqPool[q])
               PROVE  /\ reqQueueType[p] = "NAND"
                      /\ IndexOf(nandReqQ[d], p) < IndexOf(nandReqQ[d], q)
    BY DEF NoOvertaking
  <2>1. p \in Req /\ q \in Req /\ Older(p, q)
    BY DEF OrderOK, Older, Before
  <2>2. RowConflict(reqPool[p], reqPool[q])
    <3>1. InQueue(q)
      BY DEF InQueue
    <3> QED BY <2>1, <3>1, BufferOrder DEF Conflict, RowConflict
  <2>3. reqQueueType[p] = "NAND" /\ Before(nandReqQ[d], p, q)
    BY <2>1, <2>2 DEF OrderedOK, NandOrder, DieOfReq
  <2>4. d \in Die
    BY <2>1, <2>2, BlockAssumption DEF RowConflict, IInv, TypeOK, Request
  <2>5. PICK s : s = nandReqQ[d] /\ s \in Seq(Req) /\ NoDup(s)
    BY <2>4 DEF IInv, TypeOK, QueuesOK, NandQueuesOK
  <2>6. PICK m \in 1..Len(s), n \in 1..Len(s) : m < n /\ s[m] = p /\ s[n] = q
    BY <2>3, <2>5 DEF Before
  <2>7. IndexOf(s, p) = m /\ IndexOf(s, q) = n
    <3>1. ASSUME NEW a \in 1..Len(s) PROVE (s[a] = p <=> a = m) /\ (s[a] = q <=> a = n)
      <4>1. (s[a] = s[m] => a = m) /\ (s[a] = s[n] => a = n)
        BY <2>5 DEF NoDup
      <4> QED BY <2>6, <4>1
    <3>2. IndexOf(s, p) = m
      BY <2>6, <3>1 DEF IndexOf
    <3>3. IndexOf(s, q) = n
      BY <2>6, <3>1 DEF IndexOf
    <3> QED BY <3>2, <3>3
  <2> QED BY <2>3, <2>5, <2>6, <2>7
<1> QED BY <1>1, OrderSpecIsSpec, IInvHolds, ChainsFullHold, HistoryHolds, OrderedHolds, PTL

\* The oldest outstanding request only waits for a device, or may pass.
LEMMA OldestRuns ==
  ASSUME IInv, CountsOK, WaitsOK, ChainsFull, OrderOK, ChainOrder, OrderedOK,
         NEW h \in Req, Outstanding(h), \A p \in Req : ~Older(p, h)
  PROVE  \/ InQueue(h) /\ reqQueueType[h] # "BLOCKED_BY_ROW_ADDR_DEP"
         \/ reqQueueType[h] = "BLOCKED_BY_ROW_ADDR_DEP" /\ PassRowAddrDep(reqPool[h])
         \/ h = syncReq /\ \A p \in Req : Outstanding(p) => p = h
<1>1. PICK q : q = reqPool[h]
  OBVIOUS
<1>2. WellFormed(q)
  BY <1>1 DEF IInv, RequestsOK, Outstanding
<1>3. reqQueueType[h] # "BLOCKED_BY_BUF_DEP"
  <2> SUFFICES ASSUME reqQueueType[h] = "BLOCKED_BY_BUF_DEP" PROVE FALSE
    OBVIOUS
  <2>1. PICK b, s : b = q.buf /\ s = blockingReq[b]
    OBVIOUS
  <2>2. b # NoBuf /\ Head(s) # h /\ h \in ToSet(s)
    BY <1>1, <2>1 DEF ChainsFull, BufWaits, ChainFull, Outstanding
  <2>3. b \in Buf
    BY <1>1, <2>1, <2>2 DEF IInv, TypeOK, Request
  <2>4. s \in Seq(Req) /\ NoDup(s) /\ s # <<>>
    BY <2>1, <2>2, <2>3, EmptyQueue DEF IInv, TypeOK, ChainsOK
  <2>5. Before(s, Head(s), h) /\ Head(s) \in Req
    <3>1. Head(s) \in Req
      BY <2>4
    <3> QED BY <2>2, <2>4, <3>1, BeforeHead
  <2> QED BY <2>1, <2>3, <2>5 DEF ChainOrder
<1>4. CASE reqQueueType[h] = "NONE"
  <2>1. h = syncReq /\ syncReq # NoReq
    BY <1>4, ReqAssumption DEF IInv, InHandOK
  <2>2. ASSUME NEW p \in Req, Outstanding(p), p # h PROVE FALSE
    BY <2>1, <2>2 DEF OrderedOK, SyncLast
  <2> QED BY <2>1, <2>2
<1>5. CASE reqQueueType[h] = "BLOCKED_BY_ROW_ADDR_DEP"
  <2>1. PICK k, p : k = q.block /\ p = permittedProgPage[k]
    OBVIOUS
  <2>2. /\ q.reqCode \in NandCode /\ k \in Block /\ Blocked(h)
        /\ p \in 0..PagesPerBlock /\ q.page \in 0..PagesPerBlock /\ PagesPerBlock \in Nat
    BY <1>1, <1>2, <1>5, <2>1, PageAssumption
    DEF IInv, QueuesOK, NandCodesOK, TypeOK, WellFormed, Request, Blocked
  <2>3. CASE q.reqCode = "READ"
    <3>1. ReadBacked(h)
      BY <1>1, <2>2, <2>3 DEF OrderedOK, ReadsOK
    <3> QED BY <1>1, <1>5, <2>3, <3>1 DEF ReadBacked, PassRowAddrDep
  <2>4. CASE q.reqCode \in Changing
    <3>1. Waits(h, k)
      BY <1>1, <2>1, <2>2, <2>4 DEF Waits
    <3>2. q.page = p
      <4> SUFFICES ASSUME q.page # p PROVE FALSE
        OBVIOUS
      <4>1. PICK n \in 0..(PagesPerBlock + 1) : PendingPages(k) = Span(p, n)
        BY <2>1, <2>2 DEF OrderedOK, Windows, Window
      <4>2. q.page \in PendingPages(k)
        BY <1>1, <2>2, <3>1 DEF PendingPages
      <4>3. p \in PendingPages(k) /\ Ahead(p, p) < Ahead(p, q.page)
        BY <2>2, <4>1, <4>2 DEF Span, Ahead
      <4>4. PICK r \in Req : Waits(r, k) /\ reqPool[r].page = p
        BY <4>3 DEF PendingPages
      <4> QED BY <1>1, <2>1, <2>2, <3>1, <4>3, <4>4 DEF OrderedOK, PendingOrder
    <3>3. CASE q.reqCode = "WRITE"
      BY <1>1, <1>5, <2>1, <3>2, <3>3 DEF PassRowAddrDep
    <3>4. CASE q.reqCode = "ERASE"
      <4>1. ASSUME NEW r \in WaitingReads(k) PROVE FALSE
        <5>1. r \in Req /\ Blocked(r) /\ reqPool[r].reqCode = "READ" /\ reqPool[r].block = k
          BY <4>1 DEF WaitingReads
        <5>2. Older(r, h)
          BY <1>1, <3>1, <3>4, <5>1 DEF OrderedOK, ReadsOK, ReadFirst
        <5> QED BY <5>1, <5>2
      <4>2. WaitingReads(k) = {}
        BY <4>1
      <4>3. blockedReadReqCnt[k] = 0
        BY <2>2, <4>2, FS_EmptySet DEF CountsOK
      <4> QED BY <1>1, <1>5, <2>1, <3>2, <3>4, <4>3 DEF PassRowAddrDep
    <3> QED BY <2>4, <3>3, <3>4 DEF Changing
  <2> QED BY <2>2, <2>3, <2>4 DEF NandCode, Changing
<1>6. reqQueueType[h] \in QueueType
  BY DEF IInv, TypeOK
<1> QED BY <1>3, <1>4, <1>5, <1>6 DEF QueueType, InQueue, Outstanding

\* While a request is blocked, something can go on.
THEOREM SomeoneRunsHolds ==
  ASSUME ~FastReuse
  PROVE  OrderSpec => []SomeoneRuns
<1>1. IInv /\ CountsOK /\ WaitsOK /\ ChainsFull /\ (OrderOK /\ ChainOrder /\ FlashOK) /\ OrderedOK
        => SomeoneRuns
  <2> SUFFICES ASSUME IInv, CountsOK, WaitsOK, ChainsFull, OrderOK, ChainOrder, OrderedOK,
                      NEW b \in Req, Blocked(b)
               PROVE  \/ nvmeDmaReqQ # <<>>
                      \/ \E d \in Die : \/ nandReqQ[d] # <<>>
                                        \/ \E r \in ToSet(rowAddrDepReqQ[d]) : PassRowAddrDep(reqPool[r])
    BY DEF SomeoneRuns
  <2>1. order \in Seq(Req) /\ NoDup(order) /\ b \in ToSet(order) /\ order # <<>>
    BY EmptyQueue DEF OrderOK, Blocked, Outstanding
  <2>2. PICK h : h = Head(order)
    OBVIOUS
  <2>3. h \in Req /\ Outstanding(h) /\ \A p \in Req : ~Older(p, h)
    <3>1. h \in Req /\ h = order[1] /\ 1 \in 1..Len(order)
      BY <2>1, <2>2
    <3>2. h \in ToSet(order)
      BY <3>1 DEF ToSet
    <3> QED BY <2>1, <2>2, <3>1, <3>2, BeforeHead DEF OrderOK, Older
  <2>4. \/ InQueue(h) /\ reqQueueType[h] # "BLOCKED_BY_ROW_ADDR_DEP"
        \/ reqQueueType[h] = "BLOCKED_BY_ROW_ADDR_DEP" /\ PassRowAddrDep(reqPool[h])
        \/ h = syncReq /\ \A p \in Req : Outstanding(p) => p = h
    BY <2>3, OldestRuns
  <2>5. CASE reqQueueType[h] = "NVME_DMA"
    BY <2>3, <2>5, EmptyQueue DEF IInv, QueuesOK, DmaQueueOK
  <2>6. CASE reqQueueType[h] = "NAND" \/ (reqQueueType[h] = "BLOCKED_BY_ROW_ADDR_DEP" /\ PassRowAddrDep(reqPool[h]))
    <3>1. PICK d : d = DieOfReq(reqPool[h])
      OBVIOUS
    <3>2. d \in Die
      <4>1. reqPool[h].block \in Block
        BY <2>3, <2>6 DEF IInv, QueuesOK, NandCodesOK, RequestsOK, WellFormed, Outstanding
      <4> QED BY <3>1, <4>1, BlockAssumption DEF DieOfReq
    <3>3. CASE reqQueueType[h] = "NAND"
      BY <2>3, <3>1, <3>2, <3>3, EmptyQueue DEF IInv, QueuesOK, NandQueuesOK
    <3>4. CASE reqQueueType[h] = "BLOCKED_BY_ROW_ADDR_DEP" /\ PassRowAddrDep(reqPool[h])
      BY <2>3, <3>1, <3>2, <3>4 DEF IInv, QueuesOK, RowAddrQueuesOK
    <3> QED BY <2>6, <3>3, <3>4
  <2>7. CASE h = syncReq /\ \A p \in Req : Outstanding(p) => p = h
    <3>1. b = h /\ syncReq # NoReq
      BY <2>3, <2>7, ReqAssumption DEF Blocked, Outstanding
    <3> QED BY <2>7, <3>1 DEF IInv, InHandOK, Blocked
  <2> QED BY <2>4, <2>5, <2>6, <2>7 DEF InQueue
<1> QED BY <1>1, OrderSpecIsSpec, IInvHolds, CountsHold, WaitsHold, ChainsFullHold, HistoryHolds,
           OrderedHolds, PTL

-----------------------------------------------------------------------------
(* The request layer implements InOrderExec.                                *)

\* The operations of the outstanding requests, oldest first.
Operations == [i \in 1..Len(order) |-> reqPool[order[i]]]

\* Of the requests older than one that completes none conflicts with it.
LEMMA CompletesInOrder ==
  ASSUME IInv, WaitsOK, DmaOK, ChainsFull, OrderOK, ChainOrder, OrderedOK,
         NEW l \in Req, NEW t \in Req \cup {NoReq}, Moved(l, t),
         NEW p \in Req, Older(p, l)
  PROVE  ~Conflict(reqPool[p], reqPool[l])
<1>1. Leaves(l)
  BY ReqAssumption DEF Moved
<1>2. InQueue(l) /\ Outstanding(l)
  BY <1>1 DEF Leaves, InQueue, Outstanding
<1>3. ~(reqPool[p].buf # NoBuf /\ reqPool[p].buf = reqPool[l].buf)
  BY <1>2, BufferOrder
<1>4. ASSUME RowConflict(reqPool[p], reqPool[l]) PROVE FALSE
  <2>1. CASE reqQueueType[l] = "NVME_DMA"
    <3>1. reqPool[l].block = NoBlock
      BY <1>2, <2>1 DEF DmaOK, DmaCodesOK, WaitsOK, Fields
    <3> QED BY <1>4, <3>1 DEF RowConflict
  <2>2. CASE reqQueueType[l] = "NAND"
    <3>1. PICK d, s : d = DieOfReq(reqPool[l]) /\ s = nandReqQ[d]
      OBVIOUS
    <3>2. s # <<>> /\ Head(s) = l
      BY <1>1, <2>2, <3>1 DEF Leaves
    <3>3. Before(s, p, l)
      BY <1>4, <2>2, <3>1 DEF OrderedOK, NandOrder
    <3>4. d \in Die
      BY <1>4, <3>1, BlockAssumption DEF RowConflict, DieOfReq, IInv, TypeOK, Request
    <3>5. s \in Seq(Req) /\ NoDup(s)
      BY <3>1, <3>4 DEF IInv, TypeOK, QueuesOK, NandQueuesOK
    <3> QED BY <3>2, <3>3, <3>5, BeforeHead
  <2> QED BY <1>1, <2>1, <2>2 DEF Leaves
<1> QED BY <1>3, <1>4 DEF Conflict, RowConflict

\* What the elements of a queue stand for, when one is appended.
LEMMA MapAppend ==
  ASSUME NEW S, NEW T, NEW s \in Seq(S), NEW e \in S, NEW u, u = Append(s, e), NEW A, NEW B,
         \A x \in S : A[x] \in T /\ B[x] \in T,
         \A i \in 1..Len(s) : B[s[i]] = A[s[i]],
         NEW P, P = [i \in 1..Len(s) |-> A[s[i]]], NEW Q, Q = [i \in 1..Len(u) |-> B[u[i]]]
  PROVE  Q = Append(P, B[e])
<1>1. /\ u \in Seq(S) /\ Len(u) = Len(s) + 1 /\ Len(s) \in Nat
      /\ \A i \in 1..Len(s) : u[i] = s[i]
      /\ u[Len(s) + 1] = e
  BY AppendProperties
<1>2. P \in Seq(T) /\ Len(P) = Len(s)
  BY <1>1
<1>3. Q \in Seq(T) /\ Len(Q) = Len(s) + 1
  BY <1>1
<1>4. PICK R : R = Append(P, B[e])
  OBVIOUS
<1>5. /\ R \in Seq(T) /\ Len(R) = Len(s) + 1
      /\ \A i \in 1..Len(s) : R[i] = P[i]
      /\ R[Len(s) + 1] = B[e]
  BY <1>2, <1>4, AppendProperties
<1>6. ASSUME NEW i \in 1..Len(Q) PROVE Q[i] = R[i]
  <2>1. CASE i \in 1..Len(s)
    <3>1. Q[i] = B[u[i]] /\ P[i] = A[s[i]]
      BY <1>6, <2>1
    <3> QED BY <1>1, <1>5, <2>1, <3>1
  <2>2. CASE i = Len(s) + 1
    <3>1. Q[i] = B[u[i]]
      BY <1>6
    <3> QED BY <1>1, <1>5, <2>2, <3>1
  <2> QED BY <1>1, <1>3, <2>1, <2>2
<1>7. Q = R
  BY <1>3, <1>5, <1>6, SeqEqual
<1> QED BY <1>4, <1>7

\* P is the image of the sequence s under A.
IsImage(P, A, s) ==
  P = [i \in 1..Len(s) |-> A[s[i]]]

\* A and B agree on every element of s but the one at k.
SameBut(s, k, A, B) ==
  \A i \in 1..Len(s) : i # k => B[s[i]] = A[s[i]]

\* What they stand for, when one is taken out.
LEMMA MapTaken ==
  ASSUME NEW s \in Seq(Req), NEW u \in Seq(Req), NEW k \in 1..Len(s),
         TakenOut(s, u, k), NEW A, NEW B,
         A \in [Req -> Request], B \in [Req -> Request], SameBut(s, k, A, B), NEW P, IsImage(P, A, s), NEW Q, IsImage(Q, B, u)
  PROVE  Q = RemoveAt(P, k)
<1> USE DEF SameBut, IsImage
<1>1. /\ k \in 1..Len(s) /\ Len(s) \in Nat /\ Len(u) = Len(s) - 1
      /\ \A i \in 1..(Len(s) - 1) : u[i] = IF i < k THEN s[i] ELSE s[i + 1]
  BY DEF TakenOut
<1>2. P \in Seq(Request) /\ Len(P) = Len(s) /\ \A i \in 1..Len(s) : P[i] \in Request
  BY <1>1
<1>3. Q \in Seq(Request) /\ Len(Q) = Len(s) - 1
  BY <1>1
<1>4. PICK R : R = RemoveAt(P, k)
  OBVIOUS
<1>5. R \in Seq(Request) /\ TakenOut(P, R, k)
  BY <1>1, <1>2, <1>4, RemoveAtTaken
<1>6. /\ Len(R) = Len(s) - 1
      /\ \A i \in 1..(Len(s) - 1) : R[i] = IF i < k THEN P[i] ELSE P[i + 1]
  BY <1>2, <1>5 DEF TakenOut
<1>7. ASSUME NEW i \in 1..Len(Q) PROVE Q[i] = R[i]
  <2>1. i \in 1..(Len(s) - 1) /\ i \in 1..Len(u) /\ Q[i] = B[u[i]]
    BY <1>1, <1>3, <1>7
  <2>2. CASE i < k
    <3>1. i \in 1..Len(s) /\ i # k /\ P[i] = A[s[i]] /\ B[s[i]] = A[s[i]]
      BY <1>1, <2>1, <2>2
    <3>2. u[i] = s[i] /\ R[i] = P[i]
      BY <1>1, <1>6, <2>1, <2>2
    <3> QED BY <2>1, <3>1, <3>2
  <2>3. CASE ~(i < k)
    <3>1. i + 1 \in 1..Len(s) /\ i + 1 # k /\ P[i + 1] = A[s[i + 1]] /\ B[s[i + 1]] = A[s[i + 1]]
      BY <1>1, <2>1, <2>3
    <3>2. u[i] = s[i + 1] /\ R[i] = P[i + 1]
      BY <1>1, <1>6, <2>1, <2>3
    <3> QED BY <2>1, <3>1, <3>2
  <2> QED BY <2>2, <2>3
<1>8. Q \in Seq(Request) /\ R \in Seq(Request) /\ Len(Q) = Len(R) /\ \A i \in 1..Len(Q) : Q[i] = R[i]
  BY <1>3, <1>5, <1>6, <1>7
<1>9. Q = R
  BY <1>8, SeqEqual
<1> QED BY <1>4, <1>9

\* Every step is one of InOrderExec, or changes none of its state.
LEMMA StepInOrder ==
  ASSUME IInv, IInv', WaitsOK, DmaOK, ChainsFull, OrderOK, OrderOK', ChainOrder, OrderedOK,
         NEW l \in Req \cup {NoReq}, NEW t \in Req \cup {NoReq}, Moved(l, t), Recorded(l, t)
  PROVE  InOrder!Next \/ Operations' = Operations
<1>1. PICK s, u, A, B : s = order /\ u = order' /\ A = reqPool /\ B = reqPool'
  OBVIOUS
<1>2. /\ s \in Seq(Req) /\ NoDup(s) /\ \A r \in Req : r \in ToSet(s) <=> Outstanding(r)
      /\ u \in Seq(Req) /\ \A r \in Req : r \in ToSet(u) <=> Outstanding(r)'
  BY <1>1 DEF OrderOK
<1>3. PICK P, Q : /\ P = [i \in 1..Len(s) |-> A[s[i]]] /\ Q = [i \in 1..Len(u) |-> B[u[i]]]
                  /\ P = Operations /\ Q = Operations'
  BY <1>1 DEF Operations
<1>4. ASSUME NEW r \in Req, r # l, r # t \/ ~NewOne(t), r \in ToSet(s) PROVE B[r] = A[r]
  <2>1. Outstanding(r)
    BY <1>2, <1>4
  <2>2. CASE r # t
    BY <1>1, <1>4, <2>1, <2>2, MovedRequests
  <2>3. CASE r = t
    BY <1>1, <2>1, <2>3, MoverSame
  <2> QED BY <2>2, <2>3
<1>5. \A i \in 1..Len(s) : s[i] \in Req /\ s[i] \in ToSet(s)
  BY <1>2 DEF ToSet
<1>6. /\ A \in [Req -> Request] /\ B \in [Req -> Request]
      /\ \A r \in Req : A[r] \in Request /\ B[r] \in Request
  BY <1>1 DEF IInv, TypeOK
<1>7. CASE l # NoReq
  <2>1. l \in Req /\ Outstanding(l) /\ ~NewOne(t)
    BY <1>7, MovedRequests DEF NewOne, Moved, ComesFrom, Outstanding
  <2>2. u = RemoveAt(s, IndexOf(s, l)) /\ IndexOf(s, l) \in 1..Len(s) /\ s[IndexOf(s, l)] = l
    <3>1. l \in ToSet(s)
      BY <1>2, <2>1
    <3> QED BY <1>1, <1>7, <3>1 DEF Recorded, Without, IndexOf, ToSet
  <2>3. PICK k \in 1..Len(s) : k = IndexOf(s, l) /\ s[k] = l
    BY <2>2
  <2>4. TakenOut(s, u, k)
    BY <1>2, <2>2, <2>3, RemoveAtTaken
  <2>5. ASSUME NEW i \in 1..Len(s), i # k PROVE B[s[i]] = A[s[i]]
    <3>1. s[i] # l
      BY <1>2, <2>3, <2>5 DEF NoDup
    <3> QED BY <1>4, <1>5, <2>1, <3>1
  <2>6. Q = RemoveAt(P, k)
    <3>1. /\ s \in Seq(Req) /\ u \in Seq(Req) /\ TakenOut(s, u, k)
          /\ A \in [Req -> Request] /\ B \in [Req -> Request]
      BY <1>2, <1>6, <2>4
    <3>2. SameBut(s, k, A, B)
      BY <2>5 DEF SameBut
    <3>3. IsImage(P, A, s) /\ IsImage(Q, B, u)
      BY <1>3 DEF IsImage
    <3> QED BY <3>1, <3>2, <3>3, MapTaken
  <2>7. ASSUME NEW j \in 1..(k - 1) PROVE ~Conflict(P[j], P[k])
    <3>1. j \in 1..Len(s) /\ j < k /\ P[j] = A[s[j]] /\ P[k] = A[l]
      BY <1>2, <1>3, <2>3
    <3>2. Older(s[j], l)
      BY <1>1, <2>3, <3>1 DEF Older, Before
    <3> QED BY <1>1, <1>5, <2>1, <3>1, <3>2, CompletesInOrder
  <2>8. InOrder!Complete(k)
    BY <1>3, <2>6, <2>7 DEF InOrder!Complete, Operations, RemoveAt
  <2>9. k \in 1..Len(Operations)
    BY <1>2, <1>3
  <2> QED BY <2>8, <2>9 DEF InOrder!Next, Operations
<1>8. CASE l = NoReq /\ NewOne(t)
  <2>1. u = Append(s, t) /\ t \in Req /\ t \notin ToSet(s) /\ B[t] \in Request
    BY <1>1, <1>2, <1>8 DEF Recorded, NewOne, IInv, TypeOK
  <2>2. \A i \in 1..Len(s) : B[s[i]] = A[s[i]]
    BY <1>4, <1>5, <1>8, <2>1, ReqAssumption
  <2>3. Q = Append(P, B[t])
    BY <1>2, <1>3, <1>6, <2>1, <2>2, MapAppend
  <2>4. InOrder!Submit(B[t])
    BY <1>3, <2>3 DEF InOrder!Submit, Operations
  <2> QED BY <2>1, <2>4 DEF InOrder!Next
<1>9. CASE l = NoReq /\ ~NewOne(t)
  <2>1. u = s
    BY <1>1, <1>9 DEF Recorded
  <2>2. \A i \in 1..Len(s) : B[s[i]] = A[s[i]]
    BY <1>4, <1>5, <1>9, ReqAssumption
  <2> QED BY <1>3, <2>1, <2>2
<1> QED BY <1>7, <1>8, <1>9

\* The request layer executes conflicting operations in the order they were
\* made: it implements InOrderExec.
THEOREM ImplementsInOrderHolds ==
  ASSUME ~FastReuse
  PROVE  OrderSpec => ImplementsInOrder
<1>1. OrderInit => InOrder!Init
  BY DEF OrderInit, InOrder!Init
<1>2. /\ IInv /\ IInv' /\ WaitsOK /\ DmaOK /\ ChainsFull /\ (OrderOK /\ ChainOrder /\ FlashOK)
      /\ (OrderOK /\ ChainOrder /\ FlashOK)' /\ OrderedOK
      /\ [OrderNext]_orderVars
      => [InOrder!Next]_Operations
  <2> SUFFICES ASSUME IInv, IInv', WaitsOK, DmaOK, ChainsFull, OrderOK, OrderOK', ChainOrder, OrderedOK,
                      [OrderNext]_orderVars
               PROVE  InOrder!Next \/ Operations' = Operations
    OBVIOUS
  <2>1. PICK l \in Req \cup {NoReq}, t \in Req \cup {NoReq} : Moved(l, t) /\ Recorded(l, t)
    BY OrderMoves
  <2> QED BY <2>1, StepInOrder
<1> QED BY <1>1, <1>2, OrderSpecIsSpec, IInvHolds, WaitsHold, DmaHolds, ChainsFullHold, HistoryHolds,
           OrderedHolds, PTL DEF OrderSpec, ImplementsInOrder, InOrder!Spec, Operations
=============================================================================
