----------------------------- MODULE MCReqOrder -----------------------------
EXTENDS ReqOrder

CONSTANTS d1, d2, k1, k2, k3, k4

MCDieOf1 == k1 :> d1 @@ k2 :> d1
MCDieOf2 == k1 :> d1 @@ k2 :> d1 @@ k3 :> d2 @@ k4 :> d2

BufSymmetry == Permutations(HostBuf)

\* Slots are interchangeable: a state is told apart from another only by what
\* is in its slots, each slot being named by its age.
Age(r)   == IF r \in ToSet(order) THEN IndexOf(order, r) ELSE 0
Aged(s)  == [i \in 1..Len(s) |-> Age(s[i])]
AgedQs(f) == [x \in DOMAIN f |-> Aged(f[x])]
View ==
  <<[i \in 1..Len(order) |-> <<reqPool[order[i]], reqQueueType[order[i]], order[i] \in dmaDone>>],
    Aged(nvmeDmaReqQ), AgedQs(nandReqQ), AgedQs(rowAddrDepReqQ), AgedQs(blockingReq),
    depVars, blockedReqCnt, notCompletedNandReqCnt, dirty, currentPage, plan,
    sliceReq = NoReq, Age(syncReq), syncReq = NoReq, syncAll,
    [dmaWalk EXCEPT !.todo = Aged(@)], Aged(rowAddrWalk), flash>>

=============================================================================
