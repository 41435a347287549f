------------------------------ MODULE HostDma ------------------------------
(***************************************************************************)
(* The driver of the host DMA engine (nvme/host_lld.c) and its two users:  *)
(* the transfers of request_transform.c and the identify command.          *)
(*                                                                         *)
(* The engine takes transfers of 4 KB from a FIFO per channel and counts   *)
(* the finished ones in a register of 8 bits.  The firmware counts those   *)
(* it has put there in 8 bits too, and how often that count wrapped.  It   *)
(* must tell from these which request is done.                             *)
(***************************************************************************)
EXTENDS Integers, Sequences, SequencesExt

CONSTANTS
  W,           \* 256, the values of a counter of the FIFOs
  AutoChan,        \* the channels autoDmaRx and autoDmaTx
  DirectTx,    \* the channel directDmaTx
  MaxBlocks,   \* NVME_BLOCKS_PER_SLICE, the transfers of one request
  MaxTransfers \* bound on the transfers of each channel

Chan == AutoChan \cup {DirectTx}

ASSUME SizeAssumption    == W \in Nat /\ W > 2 /\ MaxBlocks \in Nat \ {0} /\ MaxTransfers \in [Chan -> Nat]
ASSUME ChannelAssumption == DirectTx \notin AutoChan

VARIABLES
  issued,      \* transfers put into the FIFO of each channel so far
  done,        \* transfers the engine has finished so far
  fifoHead,    \* HOST_DMA_FIFO_CNT_REG, the counts of the engine
  seenHead,    \* g_hostDmaStatus.fifoHead.directDmaTx, the last copy of that count;
               \* the others are read again before they are looked at
  fifoTail,    \* g_hostDmaStatus.fifoTail
  overFlowCnt, \* g_hostDmaAssistStatus
  nvmeDmaReqQ, \* the requests whose transfers are in a FIFO
  toIssue,     \* the transfers IssueNvmeDmaReq has yet to issue on each channel
  identify,    \* does the identify command wait for its transfers?
  walk,        \* the requests CheckDoneNvmeDmaReq has not come to
  doneSeen     \* rxDone and txDone: the channels with a request found done

counters == <<issued, done, fifoHead, fifoTail, overFlowCnt>>
walkVars == <<walk, doneSeen>>
vars     == <<counters, seenHead, nvmeDmaReqQ, toIssue, identify, walkVars>>

\* last is the number of the last transfer of the request, counted without end.
DmaInfo == [chan : AutoChan, reqTail : 0..(W - 1), overFlowCnt : Nat, last : Nat]

-----------------------------------------------------------------------------
\* The engine finishes the oldest transfer of a channel.
Engine(c) ==
  /\ done[c] < issued[c]
  /\ done' = [done EXCEPT ![c] = @ + 1]
  /\ fifoHead' = [fifoHead EXCEPT ![c] = (@ + 1) % W]
  /\ UNCHANGED <<issued, fifoTail, overFlowCnt, seenHead, nvmeDmaReqQ, toIssue, identify, walkVars>>

NotIssuing == \A c \in AutoChan : toIssue[c] = 0

\* IssueNvmeDmaReq starts; a request that CheckDoneNvmeDmaReq releases may lead
\* to this in the middle of its walk.
IssueNvmeDmaReq(c, n) ==
  /\ NotIssuing /\ ~identify
  /\ issued[c] + n <= MaxTransfers[c]
  /\ toIssue' = [toIssue EXCEPT ![c] = n]
  /\ UNCHANGED <<counters, seenHead, nvmeDmaReqQ, identify, walkVars>>

\* The FIFO has room: one more transfer must not make it look empty.
FifoFree(c) == (fifoTail[c] + 1) % W # fifoHead[c]

CountWrap(before, after, n) == IF before > after THEN n + 1 ELSE n

\* set_auto_rx_dma and set_auto_tx_dma: one transfer, once the FIFO has room.
\* After the last one the request notes the counts and is queued.
SetAutoDma(c) ==
  LET t == (fifoTail[c] + 1) % W
      n == CountWrap(fifoTail[c], t, overFlowCnt[c])
  IN
  /\ toIssue[c] > 0
  /\ FifoFree(c)
  /\ seenHead' = fifoHead[DirectTx]
  /\ issued' = [issued EXCEPT ![c] = @ + 1]
  /\ fifoTail' = [fifoTail EXCEPT ![c] = t]
  /\ overFlowCnt' = [overFlowCnt EXCEPT ![c] = n]
  /\ toIssue' = [toIssue EXCEPT ![c] = @ - 1]
  /\ nvmeDmaReqQ' =
       IF toIssue[c] > 1 THEN nvmeDmaReqQ
       ELSE Append(nvmeDmaReqQ, [chan |-> c, reqTail |-> t, overFlowCnt |-> n, last |-> issued[c] + 1])
  /\ UNCHANGED <<done, fifoHead, identify, walkVars>>

-----------------------------------------------------------------------------
\* check_auto_rx_dma_partial_done and check_auto_tx_dma_partial_done: is the
\* transfer that made the counts i and k done?
\* Mutant: the wrap between it and now is forgotten.
PartialDoneForgetWrap(c, i, k) ==
  LET h == fifoHead[c]
      t == fifoTail[c]
  IN
  \/ h = t \/ h = i
  \/ h < i /\ t < i /\ (t > h \/ overFlowCnt[c] # k)
  \/ h < i /\ t >= i /\ overFlowCnt[c] # k
  \/ h > i /\ (t < i \/ t > h \/ overFlowCnt[c] # k)
PartialDone(c, i, k) ==
  LET h == fifoHead[c]
      t == fifoTail[c]
  IN
  \/ h = t \/ h = i
  \/ h < i /\ t < i /\ (t > h \/ overFlowCnt[c] # k + 1)
  \/ h < i /\ t >= i /\ overFlowCnt[c] # k
  \/ h > i /\ (t < i \/ t > h \/ overFlowCnt[c] # k)

\* CheckDoneNvmeDmaReq walks the queue from its tail.
CheckDoneNvmeDmaReq ==
  /\ NotIssuing /\ ~identify /\ walk = 0
  /\ nvmeDmaReqQ # <<>>
  /\ walk' = Len(nvmeDmaReqQ)
  /\ UNCHANGED <<counters, seenHead, nvmeDmaReqQ, toIssue, identify, doneSeen>>

\* A request of the walk is done if a younger one of its channel is.
\* Mutant: one flag serves both channels.
FinishedOneFlag(q) == doneSeen # {} \/ PartialDone(q.chan, q.reqTail, q.overFlowCnt)
Finished(q) == q.chan \in doneSeen \/ PartialDone(q.chan, q.reqTail, q.overFlowCnt)

\* Mutant: the walk ends before the oldest request.
ToVisitButOldest == walk > 1
ToVisit == walk > 0

\* The older neighbour, which is looked up before the request is released.
AfterVisit == walk - 1

\* One request of the walk.
VisitNvmeDmaReq ==
  LET q == nvmeDmaReqQ[walk] IN
  /\ NotIssuing /\ ToVisit
  /\ seenHead' = IF q.chan \in doneSeen THEN seenHead ELSE fifoHead[DirectTx]
  /\ walk' = AfterVisit
  /\ doneSeen' = IF walk = 1 THEN {} ELSE IF Finished(q) THEN doneSeen \cup {q.chan} ELSE doneSeen
  /\ nvmeDmaReqQ' = IF Finished(q) THEN RemoveAt(nvmeDmaReqQ, walk) ELSE nvmeDmaReqQ
  /\ UNCHANGED <<counters, toIssue, identify>>

-----------------------------------------------------------------------------
\* handle_identify sends its data with one or two direct transfers, for which
\* it does not look for room.
HandleIdentify(n) ==
  /\ NotIssuing /\ ~identify /\ walk = 0
  /\ issued[DirectTx] + n <= MaxTransfers[DirectTx]
  /\ issued' = [issued EXCEPT ![DirectTx] = @ + n]
  /\ fifoTail' = [fifoTail EXCEPT ![DirectTx] = (@ + n) % W]
  /\ identify' = TRUE
  /\ UNCHANGED <<done, fifoHead, overFlowCnt, seenHead, nvmeDmaReqQ, toIssue, walkVars>>

\* check_direct_tx_dma_done compares the last copy of the count, and reads a
\* new one only while it differs.
\* Mutant: it does not wait.
CheckDirectTxDmaDoneAtOnce ==
  /\ identify
  /\ identify' = FALSE
  /\ UNCHANGED <<counters, seenHead, nvmeDmaReqQ, toIssue, walkVars>>
CheckDirectTxDmaDone ==
  /\ identify
  /\ \/ /\ seenHead = fifoTail[DirectTx]
        /\ identify' = FALSE
        /\ UNCHANGED seenHead
     \/ /\ seenHead # fifoTail[DirectTx]
        /\ seenHead' = fifoHead[DirectTx]
        /\ UNCHANGED identify
  /\ UNCHANGED <<counters, nvmeDmaReqQ, toIssue, walkVars>>

-----------------------------------------------------------------------------
Init ==
  /\ issued = [c \in Chan |-> 0]
  /\ done = [c \in Chan |-> 0]
  /\ fifoHead = [c \in Chan |-> 0]
  /\ seenHead = 0
  /\ fifoTail = [c \in Chan |-> 0]
  /\ overFlowCnt = [c \in Chan |-> 0]
  /\ nvmeDmaReqQ = <<>>
  /\ toIssue = [c \in AutoChan |-> 0]
  /\ identify = FALSE
  /\ walk = 0
  /\ doneSeen = {}

\* The steps of the firmware that need no new work.
Continue == (\E c \in AutoChan : SetAutoDma(c)) \/ CheckDoneNvmeDmaReq \/ VisitNvmeDmaReq \/ CheckDirectTxDmaDone

Next ==
  \/ \E c \in Chan : Engine(c)
  \/ \E c \in AutoChan, n \in 1..MaxBlocks : IssueNvmeDmaReq(c, n)
  \/ \E n \in 1..2 : HandleIdentify(n)
  \/ Continue

Spec == Init /\ [][Next]_vars

\* The engine finishes what it is given, and the main loop goes on.
FairSpec == Spec /\ WF_vars(Continue) /\ \A c \in Chan : WF_vars(Engine(c))

-----------------------------------------------------------------------------
\* The state functions keep to their sets.
TypeOK ==
  /\ issued \in [Chan -> Nat]
  /\ done \in [Chan -> Nat]
  /\ fifoHead \in [Chan -> 0..(W - 1)]
  /\ seenHead \in 0..(W - 1)
  /\ fifoTail \in [Chan -> 0..(W - 1)]
  /\ overFlowCnt \in [Chan -> Nat]
  /\ nvmeDmaReqQ \in Seq(DmaInfo)
  /\ toIssue \in [AutoChan -> 0..MaxBlocks]
  /\ identify \in BOOLEAN
  /\ walk \in 0..Len(nvmeDmaReqQ)
  /\ doneSeen \subseteq AutoChan

\* However often the counts of 8 bits wrapped, the driver finds a request done
\* exactly when the engine has finished its last transfer.
PartialDoneExact ==
  \A i \in 1..Len(nvmeDmaReqQ) : LET q == nvmeDmaReqQ[i] IN
    PartialDone(q.chan, q.reqTail, q.overFlowCnt) <=> done[q.chan] >= q.last

\* CheckDoneNvmeDmaReq takes no request from the queue whose transfers are not
\* all finished, also where it does not ask the driver.
OnlyDoneReleased ==
  [][\A i \in 1..Len(nvmeDmaReqQ) : LET q == nvmeDmaReqQ[i] IN
       done[q.chan] < q.last => \E j \in 1..Len(nvmeDmaReqQ') : nvmeDmaReqQ'[j] = q]_vars

\* The identify command is completed when its data is sent: the old copy of the
\* count never equals the tail by having been left behind a whole turn.
IdentifySent == [][identify /\ ~identify' => done[DirectTx] = issued[DirectTx]]_vars

\* Every request of the queue is released, whatever its channel and however
\* the walks and new requests interleave.
RequestsReleased == nvmeDmaReqQ # <<>> ~> nvmeDmaReqQ = <<>>
=============================================================================
