----------------------------- MODULE MCReqLive -----------------------------
(***************************************************************************)
(* Liveness of ReqSched, without symmetry: the host asks for a bounded     *)
(* number of transfers, those of Script in that order, and a new request   *)
(* takes the lowest free slot, slots being interchangeable.                *)
(***************************************************************************)
EXTENDS ReqSched

CONSTANTS d1, k1, k2, b1, b2

MCDieOf1 == k1 :> d1 @@ k2 :> d1

\* Two buffers are made dirty and evicted; the last two requests read a slice
\* back from the flash, and one of them sends it to the host.
Script == <<[buf |-> b1, code |-> "RxDMA", fill |-> FALSE],
            [buf |-> b1, code |-> "RxDMA", fill |-> FALSE],
            [buf |-> b2, code |-> "RxDMA", fill |-> FALSE],
            [buf |-> b2, code |-> "TxDMA", fill |-> TRUE],
            [buf |-> b1, code |-> "RxDMA", fill |-> TRUE]>>

VARIABLE asked  \* the requests of Script made so far

LowestSlot ==
  \A r \in Req : reqQueueType[r] = "FREE" /\ reqQueueType'[r] # "FREE"
                   => \A s \in FreeReq : r <= s

Ask == /\ asked < Len(Script)
       /\ \E r \in Req : LET q == Script[asked + 1] IN
                      SliceRequest(r, q.buf, q.code, FALSE, q.fill)
       /\ asked' = asked + 1

\* Every step but a new slice request.
Other(A) == A /\ ~(sliceReq = NoReq /\ sliceReq' # NoReq) /\ UNCHANGED asked

LiveNext == (Ask \/ Other(Next)) /\ LowestSlot

IssueSubReqs ==
  \E r \in Req, a \in (Block \cup {NoBlock}) \X (0..PagesPerBlock) : IssueSubReq(r, a)
GarbageCollections ==
  \E d \in Die, t \in TempBuf, n \in 0..MaxGcCopies : GarbageCollection(d, t, n)

LiveInit == Init /\ asked = 0

LiveSpec ==
  /\ LiveInit
  /\ [][LiveNext]_<<vars, asked>>
  /\ WF_vars(Other(Hardware))
  /\ WF_vars(Other(Poll))
  /\ WF_vars(Other(IssueSubReqs) /\ LowestSlot)
  /\ WF_vars(Other(GarbageCollections))
  /\ WF_vars(Other(SyncReleaseEraseReqDone))
  /\ WF_vars(Other(SyncAllReturns))

\* SyncReleaseEraseReq returns: the erase it waits for is passed although the
\* waiting request holds its place in the queue of its buffer.
SyncReleaseEraseReqReturns == syncReq # NoReq ~> syncReq = NoReq

\* SyncAllLowLevelReqDone returns: every outstanding request completes once
\* no new one is made.
SyncAllLowLevelReqDoneReturns == syncAll ~> ~syncAll

\* An operation that was begun makes all its low-level requests: the wait for
\* a free slot (SyncAvailFreeReq) and for a flash page ends.
OperationCompletes == plan # <<>> ~> plan = <<>>
=============================================================================
