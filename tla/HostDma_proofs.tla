--------------------------- MODULE HostDma_proofs ---------------------------
(***************************************************************************)
(* HostDma: the driver tells finished transfers from others for any width  *)
(* of the counters and any number of transfers.                            *)
(***************************************************************************)
EXTENDS HostDma, CommonLemmas, SequenceTheorems, TLAPS

-----------------------------------------------------------------------------
(* The inductive invariant.                                                *)

\* The counts of the engine and of the firmware are those of the transfers.
Counts ==
  \A c \in Chan : /\ done[c] <= issued[c]
                  /\ fifoHead[c] = done[c] % W
                  /\ fifoTail[c] = issued[c] % W

\* A FIFO never holds a whole turn, and wraps are counted.
AutoCounts ==
  \A c \in AutoChan : /\ overFlowCnt[c] = issued[c] \div W
                  /\ issued[c] < done[c] + W

\* The copy of the direct count is at most two transfers behind the tail, and
\* exact while no identify command waits.
DirectCounts ==
  /\ ~identify => issued[DirectTx] = done[DirectTx] /\ seenHead = fifoHead[DirectTx]
  /\ \E s \in Nat : s <= done[DirectTx] /\ issued[DirectTx] <= s + 2 /\ seenHead = s % W

\* A request holds the counts of its last transfer.
Mark(q, iss) ==
  /\ q.reqTail = q.last % W
  /\ q.overFlowCnt = q.last \div W
  /\ q.last <= iss[q.chan]
QueueMarks == \A i \in 1..Len(nvmeDmaReqQ) : Mark(nvmeDmaReqQ[i], issued)

\* The queue is in the order of issue.
QueueOrder ==
  \A i, j \in 1..Len(nvmeDmaReqQ) :
    i < j /\ nvmeDmaReqQ[i].chan = nvmeDmaReqQ[j].chan => nvmeDmaReqQ[i].last <= nvmeDmaReqQ[j].last

\* The rest of the walk is done for a channel that has its flag.
WalkInv ==
  /\ walk = 0 => doneSeen = {}
  /\ \A i \in 1..walk :
       nvmeDmaReqQ[i].chan \in doneSeen => nvmeDmaReqQ[i].last <= done[nvmeDmaReqQ[i].chan]

\* The conjuncts about one queue.
QueueInv == QueueMarks /\ QueueOrder /\ WalkInv

\* The inductive invariant.
IInv == TypeOK /\ Counts /\ AutoCounts /\ DirectCounts /\ QueueInv

\* The driver's comparison of counts, as numbers of transfers.
LEMMA PartialDoneMeaning ==
  ASSUME TypeOK, Counts, AutoCounts, NEW c \in AutoChan, NEW n \in Nat, n <= issued[c]
  PROVE  PartialDone(c, n % W, n \div W) <=> done[c] >= n
<1> DEFINE H == done[c]    T == issued[c]
           h == fifoHead[c]  t == fifoTail[c]  i == n % W
           a == H \div W   o == overFlowCnt[c]  k == n \div W
<1>1. W \in Nat /\ W > 0 /\ H \in Nat /\ T \in Nat /\ n \in Nat
  BY SizeAssumption DEF TypeOK, Chan
<1>2. h = H % W /\ t = T % W /\ H <= T /\ T < H + W /\ o = T \div W /\ n <= T
  BY DEF Counts, AutoCounts, Chan
<1> DEFINE Divided(x) == x % W \in 0..(W - 1) /\ x \div W \in Nat /\ x = W * (x \div W) + (x % W)
<1>0. \A x \in Nat : Divided(x)
  <2> SUFFICES ASSUME NEW x \in Nat PROVE Divided(x)
    OBVIOUS
  <2>1. W \in Nat /\ W > 0
    BY <1>1
  <2> QED BY <2>1, Division
<1>3. h \in 0..(W - 1) /\ a \in Nat /\ H = W * a + h
  <2>1. Divided(H)
    <3> HIDE DEF Divided
    <3> QED BY <1>0, <1>1
  <2>2. h = H % W
    BY <1>2
  <2> HIDE DEF H, h
  <2> QED BY <2>1, <2>2
<1>4. t \in 0..(W - 1) /\ o \in Nat /\ T = W * o + t
  <2>1. Divided(T)
    <3> HIDE DEF Divided
    <3> QED BY <1>0, <1>1
  <2>2. t = T % W /\ o = T \div W
    BY <1>2
  <2> HIDE DEF T, t, o
  <2> QED BY <2>1, <2>2
<1>5. i \in 0..(W - 1) /\ k \in Nat /\ n = W * k + i
  BY <1>1, Division
<1>6. PartialDone(c, n % W, n \div W) <=>
        \/ h = t \/ h = i
        \/ h < i /\ t < i /\ (t > h \/ o # k + 1)
        \/ h < i /\ t >= i /\ o # k
        \/ h > i /\ (t < i \/ t > h \/ o # k)
  BY DEF PartialDone
<1> HIDE DEF H, T, h, t, i, a, o, k
<1>7. /\ ~(o < a)
      /\ k <= o
      /\ o = a \/ o = a + 1
  <2>1. ~(o < a)
    BY <1>1, <1>2, <1>3, <1>4, NextTurn, SMT
  <2>2. ~(o < k)
    BY <1>1, <1>2, <1>5, <1>4, NextTurn, SMT
  <2>3. ~(a + 1 < o)
    <3>1. SUFFICES ASSUME a + 1 < o PROVE FALSE
      OBVIOUS
    <3>2. W * (a + 1) + W <= W * o
      BY <3>1, <1>1, <1>3, <1>4, NextTurn, SMT
    <3> QED BY <3>2, <1>1, <1>2, <1>3, <1>4, SMT
  <2> QED BY <2>1, <2>2, <2>3, <1>3, <1>4, <1>5, SMT
<1>8. k < a => W * k + W <= W * a
  BY <1>1, <1>3, <1>5, NextTurn
<1>9. a < k => W * a + W <= W * k
  BY <1>1, <1>3, <1>5, NextTurn
<1>10. o = a + 1 => W * o = W * a + W
  BY <1>1, <1>3, SMT
<1>11. k = a => W * k = W * a
  OBVIOUS
<1>12. o = a => W * o = W * a
  OBVIOUS
<1> DEFINE wk == W * k  wa == W * a  wo == W * o
<1> HIDE DEF wk, wa, wo
<1>13. /\ W \in Nat /\ wk \in Nat /\ wa \in Nat /\ wo \in Nat
       /\ H = wa + h /\ T = wo + t /\ n = wk + i
       /\ k < a => wk + W <= wa
       /\ a < k => wa + W <= wk
       /\ o = a + 1 => wo = wa + W
       /\ k = a => wk = wa
       /\ o = a => wo = wa
  BY <1>1, <1>3, <1>4, <1>5, <1>8, <1>9, <1>10, <1>11, <1>12 DEF wk, wa, wo
<1>14. H >= n <=>
        \/ h = t \/ h = i
        \/ h < i /\ t < i /\ (t > h \/ o # k + 1)
        \/ h < i /\ t >= i /\ o # k
        \/ h > i /\ (t < i \/ t > h \/ o # k)
  BY <1>2, <1>3, <1>4, <1>5, <1>7, <1>13, SMT
<1> QED BY <1>6, <1>14 DEF H

-----------------------------------------------------------------------------
(* The steps.                                                              *)

\* The initial state satisfies it.
LEMMA InitIInv == Init => IInv
<1> SUFFICES ASSUME Init PROVE IInv
  OBVIOUS
<1>1. 0 % W = 0 /\ 0 \div W = 0 /\ 0 \in 0..(W - 1)
  <2>1. W * 0 + 0 = W * (0 \div W) + (0 % W) /\ 0 % W \in 0..(W - 1) /\ 0 \div W \in Nat
    BY Division, SizeAssumption, SMT
  <2> QED BY <2>1, DivisionUnique, SizeAssumption
<1>2. TypeOK
  <2>1. W \in Nat /\ MaxBlocks \in Nat /\ 0 \in Nat
    BY SizeAssumption
  <2>2. /\ issued \in [Chan -> Nat] /\ done \in [Chan -> Nat] /\ overFlowCnt \in [Chan -> Nat]
        /\ fifoHead \in [Chan -> 0..(W - 1)] /\ fifoTail \in [Chan -> 0..(W - 1)]
        /\ seenHead \in 0..(W - 1)
    BY <1>1 DEF Init
  <2>3. toIssue \in [AutoChan -> 0..MaxBlocks]
    BY <2>1 DEF Init
  <2>4. nvmeDmaReqQ \in Seq(DmaInfo) /\ walk \in 0..Len(nvmeDmaReqQ)
    <3>1. <<>> \in Seq(DmaInfo) /\ Len(<<>>) = 0
      OBVIOUS
    <3> QED BY <3>1 DEF Init
  <2> QED BY <2>2, <2>3, <2>4 DEF Init, TypeOK
<1>3. Counts /\ AutoCounts
  BY <1>1, SizeAssumption DEF Init, Counts, AutoCounts, Chan
<1>4. DirectCounts
  <2>1. DirectTx \in Chan
    BY DEF Chan
  <2>2. 0 \in Nat /\ 0 <= done[DirectTx] /\ issued[DirectTx] <= 0 + 2 /\ seenHead = 0 % W
    BY <1>1, <2>1 DEF Init
  <2> QED BY <2>1, <2>2 DEF Init, DirectCounts
<1>5. QueueInv
  BY DEF Init, QueueInv, QueueMarks, QueueOrder, WalkInv
<1> QED BY <1>2, <1>3, <1>4, <1>5 DEF IInv

\* A place in the counts of the channels.
LEMMA Place ==
  ASSUME TypeOK, NEW c \in Chan
  PROVE  /\ W \in Nat /\ W > 2
         /\ issued[c] \in Nat /\ done[c] \in Nat
         /\ fifoHead[c] \in 0..(W - 1) /\ fifoTail[c] \in 0..(W - 1)
BY SizeAssumption DEF TypeOK

\* What a step leaves of the counts of the queue.
LEMMA QueueKept ==
  ASSUME IInv, UNCHANGED <<nvmeDmaReqQ, walk, doneSeen>>,
         \A c \in AutoChan : issued[c] <= issued'[c] /\ done[c] <= done'[c],
         issued' \in [Chan -> Nat], done' \in [Chan -> Nat]
  PROVE  QueueInv'
<1>1. /\ \A i \in 1..Len(nvmeDmaReqQ) : nvmeDmaReqQ[i] \in DmaInfo
      /\ walk \in 0..Len(nvmeDmaReqQ) /\ Len(nvmeDmaReqQ) \in Nat
      /\ issued \in [Chan -> Nat] /\ done \in [Chan -> Nat]
  BY DEF IInv, TypeOK
<1>2. QueueMarks'
  <2>1. ASSUME NEW i \in 1..Len(nvmeDmaReqQ) PROVE Mark(nvmeDmaReqQ[i], issued')
    <3> DEFINE q == nvmeDmaReqQ[i]
    <3>1. q.chan \in AutoChan /\ q.last \in Nat /\ Mark(q, issued)
      BY <1>1 DEF IInv, QueueInv, QueueMarks, DmaInfo
    <3>2. issued[q.chan] <= issued'[q.chan] /\ issued[q.chan] \in Nat /\ issued'[q.chan] \in Nat
      BY <1>1, <3>1 DEF Chan
    <3>3. q.last <= issued'[q.chan]
      BY <3>1, <3>2 DEF Mark
    <3> QED BY <3>1, <3>3 DEF Mark
  <2> QED BY <2>1 DEF QueueMarks
<1>3. QueueOrder'
  BY DEF IInv, QueueInv, QueueOrder
<1>4. WalkInv'
  <2> SUFFICES ASSUME NEW i \in 1..walk, nvmeDmaReqQ[i].chan \in doneSeen
               PROVE  nvmeDmaReqQ[i].last <= done'[nvmeDmaReqQ[i].chan]
    BY DEF WalkInv, IInv, QueueInv
  <2> DEFINE q == nvmeDmaReqQ[i]
  <2>1. i \in 1..Len(nvmeDmaReqQ)
    BY <1>1
  <2>2. q.chan \in AutoChan /\ q.last \in Nat
    BY <1>1, <2>1 DEF DmaInfo
  <2>3. q.last <= done[q.chan]
    BY DEF IInv, QueueInv, WalkInv
  <2>4. done[q.chan] <= done'[q.chan] /\ done[q.chan] \in Nat /\ done'[q.chan] \in Nat
    BY <1>1, <2>2 DEF Chan
  <2> QED BY <2>2, <2>3, <2>4
<1> QED BY <1>2, <1>3, <1>4 DEF QueueInv

\* The engine finishes a transfer.
LEMMA EngineStep == ASSUME IInv, NEW c \in Chan, Engine(c) PROVE IInv'
<1> USE DEF IInv
<1>1. /\ issued[c] \in Nat /\ done[c] \in Nat /\ W \in Nat /\ W > 2
      /\ done[c] < issued[c] /\ fifoHead[c] = done[c] % W
  BY Place DEF Engine, Counts
<1>2. (done[c] + 1) % W = (fifoHead[c] + 1) % W /\ (done[c] + 1) % W \in 0..(W - 1)
  <2> DEFINE n == done[c] + 1
  <2>1. n \in Nat /\ W > 0
    BY <1>1
  <2>2. n % W \in 0..(W - 1)
    BY <2>1, <1>1, Division
  <2> DEFINE x == done[c]  y == fifoHead[c]
  <2>3. x \in Nat /\ y = x % W
    BY <1>1
  <2> HIDE DEF x, y
  <2>4. (x + 1) % W = ((x % W) + 1) % W
    BY <2>3, <2>1, <1>1, CountOne
  <2> QED BY <2>2, <2>3, <2>4 DEF x, y
<1>3. /\ done' = [done EXCEPT ![c] = done[c] + 1]
      /\ fifoHead' = [fifoHead EXCEPT ![c] = (done[c] + 1) % W]
  BY <1>2 DEF Engine
<1>4. TypeOK'
  <2>1. done' \in [Chan -> Nat] /\ fifoHead' \in [Chan -> 0..(W - 1)]
    <3> DEFINE n == done[c] + 1  h == (done[c] + 1) % W
    <3>1. n \in Nat /\ h \in 0..(W - 1)
      BY <1>1, <1>2
    <3> HIDE DEF n, h
    <3>2. [done EXCEPT ![c] = n] \in [Chan -> Nat] /\ [fifoHead EXCEPT ![c] = h] \in [Chan -> 0..(W - 1)]
      BY <3>1 DEF TypeOK
    <3> QED BY <3>2, <1>3 DEF n, h
  <2> QED BY <2>1 DEF Engine, TypeOK, walkVars
<1>5. Counts'
  <2> SUFFICES ASSUME NEW d \in Chan
               PROVE  (done[d] <= issued[d] /\ fifoHead[d] = done[d] % W /\ fifoTail[d] = issued[d] % W)'
    BY DEF Counts
  <2>1. CASE d = c
    <3>1. done'[c] = done[c] + 1 /\ fifoHead'[c] = (done[c] + 1) % W
      BY <1>3 DEF TypeOK
    <3>2. done[c] + 1 <= issued[c]
      BY <1>1
    <3> QED BY <2>1, <3>1, <3>2 DEF Counts, Engine
  <2>2. CASE d # c
    <3>1. done'[d] = done[d] /\ fifoHead'[d] = fifoHead[d]
      BY <2>2, <1>3 DEF TypeOK
    <3> QED BY <3>1 DEF Counts, Engine
  <2> QED BY <2>1, <2>2
<1>6. AutoCounts'
  <2> SUFFICES ASSUME NEW d \in AutoChan
               PROVE  (overFlowCnt[d] = issued[d] \div W /\ issued[d] < done[d] + W)'
    BY DEF AutoCounts
  <2>1. done[d] \in Nat /\ issued[d] \in Nat /\ issued[d] < done[d] + W /\ done'[d] \in {done[d], done[d] + 1}
    BY <1>3 DEF AutoCounts, TypeOK, Chan
  <2> QED BY <1>1, <2>1 DEF AutoCounts, Engine
<1>7. DirectCounts'
  <2>0. DirectTx \in Chan
    BY DEF Chan
  <2>1. PICK s \in Nat : s <= done[DirectTx] /\ issued[DirectTx] <= s + 2 /\ seenHead = s % W
    BY DEF DirectCounts
  <2>2. done'[DirectTx] \in {done[DirectTx], done[DirectTx] + 1} /\ done[DirectTx] \in Nat
    BY <1>3, <2>0 DEF TypeOK
  <2>3. s <= done'[DirectTx] /\ issued'[DirectTx] <= s + 2 /\ seenHead' = s % W
    BY <2>1, <2>2 DEF Engine
  <2>4. ~identify' => issued'[DirectTx] = done'[DirectTx] /\ seenHead' = fifoHead'[DirectTx]
    <3>1. ~identify => c # DirectTx
      BY <1>1 DEF DirectCounts
    <3> QED BY <3>1, <1>3, <2>0 DEF DirectCounts, Engine, TypeOK
  <2> QED BY <2>3, <2>4 DEF DirectCounts
<1>8. QueueInv'
  <2>1. \A d \in AutoChan : issued[d] <= issued'[d] /\ done[d] <= done'[d]
    <3> SUFFICES ASSUME NEW d \in AutoChan PROVE issued[d] <= issued'[d] /\ done[d] <= done'[d]
      OBVIOUS
    <3>1. done[d] \in Nat /\ issued[d] \in Nat /\ done'[d] \in {done[d], done[d] + 1} /\ issued' = issued
      BY <1>3 DEF TypeOK, Chan, Engine
    <3> QED BY <3>1
  <2> QED BY <2>1, <1>4, QueueKept DEF Engine, walkVars, TypeOK
<1> QED BY <1>4, <1>5, <1>6, <1>7, <1>8

\* A count of 8 bits advanced by n is the count of n more.
LEMMA CountMore ==
  ASSUME NEW x \in Nat, NEW n \in Nat, NEW w \in Nat, w > 0
  PROVE  (x + n) % w = ((x % w) + n) % w
<1> DEFINE p == x \div w  r == x % w
<1>1. p \in Nat /\ r \in 0..(w - 1) /\ x = w * p + r
  BY Division
<1> DEFINE y == r + n  q == y \div w  s == y % w
<1>2. y \in Nat
  BY <1>1
<1>3. q \in Nat /\ s \in 0..(w - 1) /\ y = w * q + s
  BY <1>2, Division
<1> DEFINE z == x + n  a == z \div w  b == z % w
<1>4. z \in Nat
  OBVIOUS
<1>5. a \in Nat /\ b \in 0..(w - 1) /\ z = w * a + b
  BY <1>4, Division
<1> HIDE DEF p, r, y, q, s, z, a, b
<1> DEFINE u == p + q
<1>6. u \in Nat /\ w * u + s = w * a + b
  <2>1. w * (p + q) = w * p + w * q
    BY <1>1, <1>3, SMT
  <2>2. w * p + w * q + s = z
    BY <1>1, <1>3, SMT DEF y, z
  <2> QED BY <2>1, <2>2, <1>1, <1>3, <1>5
<1> HIDE DEF u
<1>7. s = b
  BY <1>3, <1>5, <1>6, DivisionUnique
<1> QED BY <1>7 DEF s, b, y, z, r

\* A request begins to be issued: nothing the invariant speaks of changes.
LEMMA IssueNvmeDmaReqStep ==
  ASSUME IInv, NEW c \in AutoChan, NEW n \in 1..MaxBlocks, IssueNvmeDmaReq(c, n)
  PROVE  IInv'
<1> USE DEF IInv, IssueNvmeDmaReq, counters, walkVars
<1>1. TypeOK'
  <2>1. [toIssue EXCEPT ![c] = n] \in [AutoChan -> 0..MaxBlocks]
    BY SizeAssumption DEF TypeOK
  <2> QED BY <2>1 DEF TypeOK
<1>2. Counts' /\ AutoCounts' /\ DirectCounts'
  BY DEF Counts, AutoCounts, DirectCounts
<1>3. QueueInv'
  BY DEF QueueInv, QueueMarks, QueueOrder, WalkInv, Mark
<1> QED BY <1>1, <1>2, <1>3

\* A walk begins, with no channel found done.
LEMMA CheckDoneNvmeDmaReqStep ==
  ASSUME IInv, CheckDoneNvmeDmaReq
  PROVE  IInv'
<1> USE DEF IInv, CheckDoneNvmeDmaReq, counters
<1>1. TypeOK'
  <2>1. Len(nvmeDmaReqQ) \in 0..Len(nvmeDmaReqQ)
    BY DEF TypeOK
  <2> QED BY <2>1 DEF TypeOK
<1>2. Counts' /\ AutoCounts' /\ DirectCounts'
  BY DEF Counts, AutoCounts, DirectCounts
<1>3. QueueInv'
  BY DEF QueueInv, QueueMarks, QueueOrder, WalkInv, Mark
<1> QED BY <1>1, <1>2, <1>3

\* The identify command puts its data into the direct channel.
LEMMA HandleIdentifyStep ==
  ASSUME IInv, NEW n \in 1..2, HandleIdentify(n)
  PROVE  IInv'
<1> USE DEF IInv
<1> DEFINE D == DirectTx
<1>1. /\ D \in Chan /\ D \notin AutoChan
      /\ issued[D] \in Nat /\ done[D] \in Nat /\ W \in Nat /\ W > 2
      /\ issued[D] = done[D] /\ seenHead = done[D] % W
      /\ fifoTail[D] = issued[D] % W
  BY Place, ChannelAssumption DEF HandleIdentify, Counts, DirectCounts, Chan
<1> DEFINE m == issued[D] + n  t == (issued[D] + n) % W
<1>2. m \in Nat /\ t \in 0..(W - 1) /\ t = (fifoTail[D] + n) % W
  <2>1. m \in Nat /\ W > 0
    BY <1>1
  <2>2. m % W \in 0..(W - 1)
    BY <2>1, <1>1, Division
  <2> DEFINE x == issued[D]  y == fifoTail[D]
  <2>3. x \in Nat /\ y = x % W /\ n \in Nat
    BY <1>1
  <2> HIDE DEF x, y
  <2>4. (x + n) % W = ((x % W) + n) % W
    BY <2>1, <2>3, <1>1, CountMore
  <2> QED BY <2>1, <2>2, <2>3, <2>4 DEF x, y
<1>3. issued' = [issued EXCEPT ![D] = m] /\ fifoTail' = [fifoTail EXCEPT ![D] = t]
  BY <1>2 DEF HandleIdentify
<1> HIDE DEF t
<1>4. TypeOK'
  <2>1. [issued EXCEPT ![D] = m] \in [Chan -> Nat] /\ [fifoTail EXCEPT ![D] = t] \in [Chan -> 0..(W - 1)]
    <3> HIDE DEF m
    <3> QED BY <1>2 DEF TypeOK
  <2> QED BY <2>1, <1>3 DEF HandleIdentify, TypeOK, walkVars
<1>5. Counts'
  <2> SUFFICES ASSUME NEW d \in Chan
               PROVE  (done[d] <= issued[d] /\ fifoHead[d] = done[d] % W /\ fifoTail[d] = issued[d] % W)'
    BY DEF Counts
  <2>1. CASE d = D
    <3>1. issued'[d] = m /\ fifoTail'[d] = t
      BY <2>1, <1>1, <1>3 DEF TypeOK
    <3>2. done[d] <= m
      BY <2>1, <1>1
    <3> QED BY <2>1, <3>1, <3>2 DEF Counts, HandleIdentify, t
  <2>2. CASE d # D
    <3>1. issued'[d] = issued[d] /\ fifoTail'[d] = fifoTail[d]
      BY <2>2, <1>3 DEF TypeOK
    <3> QED BY <3>1 DEF Counts, HandleIdentify
  <2> QED BY <2>1, <2>2
<1>6. AutoCounts'
  <2>1. \A d \in AutoChan : issued'[d] = issued[d]
    BY <1>1, <1>3 DEF TypeOK, Chan
  <2> QED BY <2>1 DEF AutoCounts, HandleIdentify
<1>7. DirectCounts'
  <2>1. issued'[D] = m /\ done' = done /\ seenHead' = seenHead /\ identify'
    BY <1>1, <1>3 DEF HandleIdentify, TypeOK
  <2>2. done[D] <= done'[D] /\ issued'[D] <= done[D] + 2 /\ seenHead' = done[D] % W
    BY <2>1, <1>1
  <2> QED BY <2>1, <2>2, <1>1 DEF DirectCounts
<1>8. QueueInv'
  <2>1. \A d \in AutoChan : issued[d] <= issued'[d] /\ done[d] <= done'[d]
    <3> SUFFICES ASSUME NEW d \in AutoChan PROVE issued[d] <= issued'[d] /\ done[d] <= done'[d]
      OBVIOUS
    <3>1. done[d] \in Nat /\ issued[d] \in Nat /\ issued'[d] = issued[d] /\ done' = done
      BY <1>1, <1>3 DEF TypeOK, Chan, HandleIdentify
    <3> QED BY <3>1
  <2> QED BY <2>1, <1>4, QueueKept DEF HandleIdentify, walkVars, TypeOK
<1> QED BY <1>4, <1>5, <1>6, <1>7, <1>8

\* The identify command leaves only when its copy of the count has come to the
\* tail, and then the engine has.
LEMMA CheckDirectTxDmaDoneStep ==
  ASSUME IInv, CheckDirectTxDmaDone
  PROVE  IInv' /\ (~identify' => done[DirectTx] = issued[DirectTx])
<1> USE DEF IInv
<1> DEFINE D == DirectTx
<1>1. /\ D \in Chan
      /\ issued[D] \in Nat /\ done[D] \in Nat /\ W \in Nat /\ W > 2 /\ done[D] <= issued[D]
      /\ fifoHead[D] \in 0..(W - 1) /\ fifoHead[D] = done[D] % W /\ fifoTail[D] = issued[D] % W
  BY Place DEF Counts, Chan
<1>2. PICK s \in Nat : s <= done[D] /\ issued[D] <= s + 2 /\ seenHead = s % W
  BY DEF DirectCounts
<1>3. TypeOK' /\ Counts' /\ AutoCounts' /\ QueueInv'
  <2>1. seenHead' \in 0..(W - 1) /\ identify' \in BOOLEAN
    BY <1>1 DEF CheckDirectTxDmaDone, TypeOK
  <2>2. TypeOK'
    BY <2>1 DEF TypeOK, CheckDirectTxDmaDone, counters, walkVars
  <2>3. Counts' /\ AutoCounts' /\ QueueInv'
    BY DEF Counts, AutoCounts, CheckDirectTxDmaDone, counters, walkVars, QueueInv, QueueMarks, QueueOrder, WalkInv, Mark
  <2> QED BY <2>2, <2>3
<1>4. CASE seenHead = fifoTail[D] /\ ~identify' /\ UNCHANGED seenHead
  <2>1. s = issued[D]
    <3>1. s % W = issued[D] % W /\ s <= issued[D] /\ issued[D] < s + W /\ W > 0
      BY <1>1, <1>2, <1>4
    <3> QED BY <3>1, <1>1, SameRemainder
  <2>2. done[D] = issued[D]
    BY <2>1, <1>1, <1>2
  <2>3. done' = done /\ issued' = issued /\ fifoHead' = fifoHead /\ seenHead' = seenHead
    BY <1>4 DEF CheckDirectTxDmaDone, counters
  <2>4. DirectCounts'
    BY <2>2, <2>3, <1>1, <1>2, <1>4 DEF DirectCounts
  <2> QED BY <1>3, <2>2, <2>4
<1>5. CASE identify' /\ seenHead' = fifoHead[D]
  <2>1. done' = done /\ issued' = issued
    BY DEF CheckDirectTxDmaDone, counters
  <2>2. issued[D] <= done[D] + 2 /\ done[D] <= done[D]
    BY <1>1, <1>2
  <2>3. DirectCounts'
    BY <2>1, <2>2, <1>1, <1>5 DEF DirectCounts
  <2> QED BY <1>3, <2>3, <1>5
<1> QED BY <1>4, <1>5 DEF CheckDirectTxDmaDone

\* A turn later the remainder is the same.
LEMMA TurnLater ==
  ASSUME NEW n \in Nat, NEW w \in Nat, w > 0
  PROVE  (n + w) % w = n % w
<1> DEFINE p == n \div w  r == n % w  m == n + w  q == m \div w  s == m % w
<1>1. p \in Nat /\ r \in 0..(w - 1) /\ n = w * p + r
  BY Division
<1>2. m \in Nat /\ m = n + w
  OBVIOUS
<1>3. q \in Nat /\ s \in 0..(w - 1) /\ m = w * q + s
  BY <1>2, Division
<1> HIDE DEF p, r, m, q, s
<1> DEFINE p1 == p + 1
<1>4. p1 \in Nat /\ w * p1 + r = w * q + s
  <2>1. w * (p + 1) = w * p + w
    BY <1>1, SMT
  <2> QED BY <2>1, <1>1, <1>2, <1>3
<1> HIDE DEF p1
<1>5. r = s
  BY <1>1, <1>3, <1>4, DivisionUnique
<1> QED BY <1>5 DEF r, s, m

\* A transfer is put into the FIFO of an automatic channel.
LEMMA SetAutoDmaStep == ASSUME IInv, NEW c \in AutoChan, SetAutoDma(c) PROVE IInv'
<1> USE DEF IInv
<1> DEFINE T == issued[c]  H == done[c]  y == fifoTail[c]  o == overFlowCnt[c]
           t == (y + 1) % W  n == CountWrap(y, t, o)
           q == [chan |-> c, reqTail |-> t, overFlowCnt |-> n, last |-> T + 1]
<1>1. /\ c \in Chan /\ c # DirectTx
      /\ T \in Nat /\ H \in Nat /\ W \in Nat /\ W > 2 /\ W > 0
      /\ H <= T /\ T < H + W
      /\ fifoHead[c] = H % W /\ y = T % W /\ o = T \div W
      /\ y \in 0..(W - 1) /\ o \in Nat
  <2>1. c \in Chan /\ c # DirectTx /\ W > 0
    BY ChannelAssumption, SizeAssumption DEF Chan
  <2>2. T \in Nat /\ H \in Nat /\ W \in Nat /\ W > 2 /\ y \in 0..(W - 1) /\ o \in Nat
    BY <2>1, Place DEF TypeOK
  <2>3. H <= T /\ fifoHead[c] = H % W /\ y = T % W
    BY <2>1 DEF Counts
  <2>4. o = T \div W /\ T < H + W
    BY DEF AutoCounts
  <2> QED BY <2>1, <2>2, <2>3, <2>4
<1>2. t = (T + 1) % W /\ n = (T + 1) \div W /\ t \in 0..(W - 1) /\ n \in Nat
  <2> HIDE DEF T, H, y, o
  <2>1. T + 1 \in Nat
    BY <1>1
  <2> DEFINE T1 == T + 1
  <2>2. T1 % W \in 0..(W - 1) /\ T1 \div W \in Nat
    <3> HIDE DEF T1
    <3> QED BY <2>1, <1>1, Division DEF T1
  <2>3. /\ (T + 1) % W = ((T % W) + 1) % W
        /\ (T + 1) \div W = IF T % W > ((T % W) + 1) % W \/ W = 1 THEN (T \div W) + 1 ELSE T \div W
    BY <1>1, CountOne
  <2>4. (T + 1) % W = t
    BY <2>3, <1>1
  <2>5. (T + 1) \div W = IF y > t THEN o + 1 ELSE o
    BY <2>3, <1>1
  <2> QED BY <2>2, <2>4, <2>5 DEF CountWrap
<1>3. T + 1 < H + W
  <2>1. T + 1 # H + W
    <3>1. SUFFICES ASSUME T + 1 = H + W PROVE FALSE
      OBVIOUS
    <3>2. (H + W) % W = H % W
      BY <1>1, TurnLater
    <3>3. t = fifoHead[c]
      BY <3>1, <3>2, <1>1, <1>2
    <3>4. t # fifoHead[c]
      BY DEF SetAutoDma, FifoFree
    <3> QED BY <3>3, <3>4
  <2>2. T \in Nat /\ H \in Nat /\ W \in Nat /\ T < H + W
    BY <1>1
  <2> HIDE DEF T, H
  <2> QED BY <2>1, <2>2
<1>4. /\ issued' = [issued EXCEPT ![c] = T + 1]
      /\ fifoTail' = [fifoTail EXCEPT ![c] = t]
      /\ overFlowCnt' = [overFlowCnt EXCEPT ![c] = n]
      /\ toIssue' = [toIssue EXCEPT ![c] = toIssue[c] - 1]
      /\ toIssue[c] > 0
      /\ nvmeDmaReqQ' = IF toIssue[c] > 1 THEN nvmeDmaReqQ ELSE Append(nvmeDmaReqQ, q)
      /\ seenHead' = fifoHead[DirectTx]
      /\ UNCHANGED <<done, fifoHead, identify, walk, doneSeen>>
  BY DEF SetAutoDma, walkVars
<1> HIDE DEF t, n
<1>5. q \in DmaInfo /\ q.chan = c /\ q.reqTail = t /\ q.overFlowCnt = n /\ q.last = T + 1
  BY <1>1, <1>2 DEF DmaInfo
<1>6. TypeOK'
  <2>1. issued' \in [Chan -> Nat] /\ fifoTail' \in [Chan -> 0..(W - 1)] /\ overFlowCnt' \in [Chan -> Nat]
    <3> DEFINE m == T + 1
    <3>1. m \in Nat
      BY <1>1
    <3> HIDE DEF m
    <3>2. /\ [issued EXCEPT ![c] = m] \in [Chan -> Nat]
          /\ [fifoTail EXCEPT ![c] = t] \in [Chan -> 0..(W - 1)]
          /\ [overFlowCnt EXCEPT ![c] = n] \in [Chan -> Nat]
      BY <3>1, <1>2 DEF TypeOK
    <3> QED BY <3>2, <1>4 DEF m
  <2>2. toIssue' \in [AutoChan -> 0..MaxBlocks]
    BY <1>4, SizeAssumption DEF TypeOK
  <2>3. seenHead' \in 0..(W - 1)
    BY <1>4, Place DEF Chan, TypeOK
  <2>4. nvmeDmaReqQ' \in Seq(DmaInfo) /\ walk' \in 0..Len(nvmeDmaReqQ')
    <3> DEFINE s == nvmeDmaReqQ  e == q
    <3>1. s \in Seq(DmaInfo) /\ walk \in 0..Len(s) /\ e \in DmaInfo
      BY <1>5 DEF TypeOK
    <3> HIDE DEF s, e
    <3>2. Append(s, e) \in Seq(DmaInfo) /\ Len(Append(s, e)) = Len(s) + 1 /\ Len(s) \in Nat
      BY <3>1
    <3>3. walk \in 0..Len(Append(s, e))
      BY <3>1, <3>2
    <3> QED BY <3>1, <3>2, <3>3, <1>4 DEF s, e
  <2> QED BY <2>1, <2>2, <2>3, <2>4, <1>4 DEF TypeOK
<1>7. Counts'
  <2> SUFFICES ASSUME NEW d \in Chan
               PROVE  (done[d] <= issued[d] /\ fifoHead[d] = done[d] % W /\ fifoTail[d] = issued[d] % W)'
    BY DEF Counts
  <2>1. CASE d = c
    <3>1. issued'[c] = T + 1 /\ fifoTail'[c] = t /\ H <= T + 1
      BY <1>1, <1>4 DEF TypeOK
    <3> QED BY <2>1, <3>1, <1>1, <1>2, <1>4
  <2>2. CASE d # c
    <3>1. issued'[d] = issued[d] /\ fifoTail'[d] = fifoTail[d]
      BY <2>2, <1>4 DEF TypeOK
    <3> QED BY <3>1, <1>4 DEF Counts
  <2> QED BY <2>1, <2>2
<1>8. AutoCounts'
  <2> SUFFICES ASSUME NEW d \in AutoChan
               PROVE  (overFlowCnt[d] = issued[d] \div W /\ issued[d] < done[d] + W)'
    BY DEF AutoCounts
  <2>1. CASE d = c
    <3>1. issued'[c] = T + 1 /\ overFlowCnt'[c] = n
      BY <1>1, <1>4 DEF TypeOK
    <3> QED BY <2>1, <3>1, <1>2, <1>3, <1>4
  <2>2. CASE d # c
    <3>1. issued'[d] = issued[d] /\ overFlowCnt'[d] = overFlowCnt[d]
      BY <2>2, <1>4 DEF TypeOK, Chan
    <3> QED BY <3>1, <1>4 DEF AutoCounts
  <2> QED BY <2>1, <2>2
<1>9. DirectCounts'
  <2> DEFINE D == DirectTx
  <2>1. D \in Chan /\ issued'[D] = issued[D] /\ done' = done /\ fifoHead' = fifoHead
    BY <1>1, <1>4 DEF TypeOK, Chan
  <2>2. issued[D] \in Nat /\ done[D] \in Nat /\ fifoHead[D] = done[D] % W
    BY <2>1, Place DEF Counts
  <2>3. PICK s \in Nat : s <= done[D] /\ issued[D] <= s + 2
    BY DEF DirectCounts
  <2>4. done[D] <= done'[D] /\ issued'[D] <= done[D] + 2 /\ seenHead' = done[D] % W
    BY <2>1, <2>2, <2>3, <1>4
  <2>5. ~identify' => issued'[D] = done'[D] /\ seenHead' = fifoHead'[D]
    BY <2>1, <1>4 DEF DirectCounts
  <2> QED BY <2>2, <2>4, <2>5 DEF DirectCounts
<1>10. \A d \in AutoChan : issued[d] <= issued'[d] /\ done[d] <= done'[d]
  <2> SUFFICES ASSUME NEW d \in AutoChan PROVE issued[d] <= issued'[d] /\ done[d] <= done'[d]
    OBVIOUS
  <2>1. done[d] \in Nat /\ issued[d] \in Nat /\ issued'[d] \in {issued[d], issued[d] + 1} /\ done' = done
    BY <1>1, <1>4 DEF TypeOK, Chan
  <2> QED BY <2>1
<1>11. CASE toIssue[c] > 1
  <2>1. UNCHANGED <<nvmeDmaReqQ, walk, doneSeen>>
    BY <1>11, <1>4
  <2>2. QueueInv'
    BY <2>1, <1>6, <1>10, QueueKept DEF TypeOK
  <2> QED BY <2>2, <1>6, <1>7, <1>8, <1>9
<1>12. CASE ~(toIssue[c] > 1)
  <2> DEFINE s == nvmeDmaReqQ  N == Len(nvmeDmaReqQ)
  <2>1. /\ nvmeDmaReqQ' = Append(s, q) /\ s \in Seq(DmaInfo) /\ N \in Nat
        /\ Len(nvmeDmaReqQ') = N + 1
        /\ \A i \in 1..N : nvmeDmaReqQ'[i] = s[i] /\ s[i] \in DmaInfo
        /\ nvmeDmaReqQ'[N + 1] = q
        /\ walk' = walk /\ walk \in 0..N /\ doneSeen' = doneSeen /\ done' = done
    <3> DEFINE e == q
    <3>1. nvmeDmaReqQ' = Append(s, e) /\ e \in DmaInfo /\ s \in Seq(DmaInfo) /\ walk \in 0..Len(s)
      BY <1>12, <1>4, <1>5 DEF TypeOK
    <3> HIDE DEF e, s
    <3>2. /\ Len(s) \in Nat /\ Len(Append(s, e)) = Len(s) + 1
          /\ \A i \in 1..Len(s) : Append(s, e)[i] = s[i] /\ s[i] \in DmaInfo
          /\ Append(s, e)[Len(s) + 1] = e
      BY <3>1
    <3> QED BY <3>1, <3>2, <1>4 DEF e, s
  <2> HIDE DEF s, N
  <2>2. \A i \in 1..N : /\ s[i].chan \in AutoChan /\ s[i].last \in Nat /\ s[i].last <= issued[s[i].chan]
                        /\ s[i].reqTail = s[i].last % W /\ s[i].overFlowCnt = s[i].last \div W
    BY <2>1 DEF QueueInv, QueueMarks, Mark, DmaInfo, s, N
  <2>3. QueueMarks'
    <3>1. ASSUME NEW i \in 1..N PROVE Mark(nvmeDmaReqQ'[i], issued')
      <4> DEFINE e == s[i]
      <4>1. e.chan \in AutoChan /\ e.last \in Nat /\ e.last <= issued[e.chan] /\ nvmeDmaReqQ'[i] = e
        BY <2>1, <2>2
      <4>2. issued[e.chan] <= issued'[e.chan] /\ issued[e.chan] \in Nat /\ issued'[e.chan] \in Nat
        BY <4>1, <1>10, <1>6 DEF TypeOK, Chan
      <4>3. e.last <= issued'[e.chan] /\ e.reqTail = e.last % W /\ e.overFlowCnt = e.last \div W
        BY <4>1, <4>2, <2>2
      <4> HIDE DEF e
      <4> QED BY <4>1, <4>3 DEF Mark
    <3>2. Mark(nvmeDmaReqQ'[N + 1], issued')
      <4>1. issued'[c] = T + 1
        BY <1>1, <1>4 DEF TypeOK
      <4>2. q.last <= issued'[q.chan]
        BY <4>1, <1>5, <1>1
      <4>3. q.reqTail = q.last % W /\ q.overFlowCnt = q.last \div W
        BY <1>5, <1>2
      <4> QED BY <4>2, <4>3, <2>1 DEF Mark
    <3>3. \A i \in 1..(N + 1) : i \in 1..N \/ i = N + 1
      BY <2>1
    <3> QED BY <3>1, <3>2, <3>3, <2>1 DEF QueueMarks
  <2>4. QueueOrder'
    <3> SUFFICES ASSUME NEW i \in 1..(N + 1), NEW j \in 1..(N + 1), i < j,
                        nvmeDmaReqQ'[i].chan = nvmeDmaReqQ'[j].chan
                 PROVE  nvmeDmaReqQ'[i].last <= nvmeDmaReqQ'[j].last
      BY <2>1 DEF QueueOrder
    <3>1. i \in 1..N
      BY <2>1
    <3>2. CASE j = N + 1
      <4>1. s[i].chan = c /\ s[i].last <= T /\ s[i].last \in Nat
        BY <3>1, <3>2, <2>1, <2>2, <1>5
      <4>2. nvmeDmaReqQ'[i] = s[i] /\ nvmeDmaReqQ'[j].last = T + 1
        BY <3>1, <3>2, <2>1, <1>5
      <4> DEFINE a == s[i].last
      <4>3. a \in Nat /\ T \in Nat /\ a <= T /\ nvmeDmaReqQ'[i].last = a
        BY <4>1, <4>2, <1>1
      <4>4. a <= T + 1
        <5> HIDE DEF a, T
        <5> QED BY <4>3
      <4>5. nvmeDmaReqQ'[j].last = T + 1
        BY <4>2
      <4> HIDE DEF a, T
      <4> QED BY <4>3, <4>4, <4>5
    <3>3. CASE j \in 1..N
      BY <3>1, <3>3, <2>1 DEF QueueInv, QueueOrder, s, N
    <3>4. j \in 1..N \/ j = N + 1
      BY <2>1
    <3> QED BY <3>2, <3>3, <3>4
  <2>5. WalkInv'
    <3>1. \A i \in 1..walk : i \in 1..N
      BY <2>1
    <3> QED BY <3>1, <2>1 DEF QueueInv, WalkInv, s
  <2> QED BY <2>3, <2>4, <2>5, <1>6, <1>7, <1>8, <1>9 DEF QueueInv
<1> QED BY <1>11, <1>12

\* Taking one element out of a sequence.
LEMMA Removed ==
  ASSUME NEW S, NEW s \in Seq(S), NEW k \in 1..Len(s)
  PROVE  /\ RemoveAt(s, k) \in Seq(S)
         /\ Len(RemoveAt(s, k)) = Len(s) - 1
         /\ \A i \in 1..(Len(s) - 1) : RemoveAt(s, k)[i] = IF i < k THEN s[i] ELSE s[i + 1]
<1> DEFINE a == SubSeq(s, 1, k - 1)  b == SubSeq(s, k + 1, Len(s))
<1>1. k \in Nat /\ Len(s) \in Nat /\ k >= 1 /\ k <= Len(s)
  OBVIOUS
<1>2. a \in Seq(S) /\ Len(a) = k - 1 /\ \A i \in 1..(k - 1) : a[i] = s[i]
  BY <1>1
<1>3. b \in Seq(S) /\ Len(b) = Len(s) - k /\ \A i \in 1..(Len(s) - k) : b[i] = s[k + i]
  BY <1>1
<1>4. RemoveAt(s, k) = a \o b
  BY DEF RemoveAt
<1> HIDE DEF a, b
<1>5. a \o b \in Seq(S) /\ Len(a \o b) = Len(a) + Len(b)
  BY <1>2, <1>3, ConcatProperties
<1>6. \A i \in 1..(Len(a) + Len(b)) : (a \o b)[i] = IF i <= Len(a) THEN a[i] ELSE b[i - Len(a)]
  BY <1>2, <1>3
<1>7. ASSUME NEW i \in 1..(Len(s) - 1) PROVE (a \o b)[i] = IF i < k THEN s[i] ELSE s[i + 1]
  <2>1. i \in 1..(Len(a) + Len(b))
    BY <1>1, <1>2, <1>3
  <2>2. CASE i < k
    BY <2>1, <2>2, <1>1, <1>2, <1>6
  <2>3. CASE ~(i < k)
    <3>1. i - (k - 1) \in 1..(Len(s) - k) /\ k + (i - (k - 1)) = i + 1 /\ ~(i <= Len(a))
      BY <2>3, <1>1, <1>2
    <3>2. (a \o b)[i] = b[i - (k - 1)]
      BY <2>1, <3>1, <1>2, <1>6
    <3> QED BY <3>1, <3>2, <2>3, <1>3
  <2> QED BY <2>2, <2>3
<1> QED BY <1>1, <1>2, <1>3, <1>4, <1>5, <1>7

\* The walk comes to a request: what it finds done is done, and so are the
\* older requests of that channel.
LEMMA VisitNvmeDmaReqStep ==
  ASSUME IInv, VisitNvmeDmaReq
  PROVE  /\ IInv'
         /\ Finished(nvmeDmaReqQ[walk]) =>
              nvmeDmaReqQ[walk].last <= done[nvmeDmaReqQ[walk].chan]
<1> USE DEF IInv
<1> DEFINE s == nvmeDmaReqQ  N == Len(nvmeDmaReqQ)  q == nvmeDmaReqQ[walk]
<1>1. /\ walk \in 1..N /\ N \in Nat /\ s \in Seq(DmaInfo)
      /\ \A i \in 1..N : s[i] \in DmaInfo
      /\ doneSeen \subseteq AutoChan
      /\ UNCHANGED <<issued, done, fifoHead, fifoTail, overFlowCnt, toIssue, identify>>
      /\ walk' = walk - 1
      /\ nvmeDmaReqQ' = IF Finished(q) THEN RemoveAt(s, walk) ELSE s
      /\ doneSeen' = IF walk = 1 THEN {} ELSE IF Finished(q) THEN doneSeen \cup {q.chan} ELSE doneSeen
      /\ seenHead' \in {seenHead, fifoHead[DirectTx]}
  <2>1. walk > 0 /\ walk \in 0..Len(nvmeDmaReqQ) /\ s \in Seq(DmaInfo)
    BY DEF VisitNvmeDmaReq, ToVisit, TypeOK
  <2>2. walk \in 1..N /\ N \in Nat /\ \A i \in 1..N : s[i] \in DmaInfo
    BY <2>1
  <2> QED BY <2>1, <2>2 DEF VisitNvmeDmaReq, AfterVisit, counters, TypeOK
<1>2. \A i \in 1..N : /\ s[i].chan \in AutoChan /\ s[i].last \in Nat /\ s[i].last <= issued[s[i].chan]
                      /\ s[i].reqTail = s[i].last % W /\ s[i].overFlowCnt = s[i].last \div W
  BY <1>1 DEF QueueInv, QueueMarks, Mark, DmaInfo
<1> DEFINE e == q.last  ch == q.chan
<1>3. ch \in AutoChan /\ e \in Nat /\ e <= issued[ch] /\ q.reqTail = e % W /\ q.overFlowCnt = e \div W
  BY <1>1, <1>2
<1>4. Finished(q) => e <= done[ch]
  <2> SUFFICES ASSUME Finished(q) PROVE e <= done[ch]
    OBVIOUS
  <2>1. CASE ch \in doneSeen
    BY <2>1, <1>1 DEF QueueInv, WalkInv
  <2>2. CASE PartialDone(ch, q.reqTail, q.overFlowCnt)
    <3> HIDE DEF e, ch
    <3>1. PartialDone(ch, e % W, e \div W)
      BY <2>2, <1>3
    <3>2. PartialDone(ch, e % W, e \div W) <=> done[ch] >= e
      BY <1>3, PartialDoneMeaning
    <3>3. done[ch] \in Nat
      BY <1>3 DEF TypeOK, Chan
    <3> QED BY <3>1, <3>2, <3>3, <1>3
  <2> QED BY <2>1, <2>2 DEF Finished
<1>5. Counts' /\ AutoCounts'
  BY <1>1 DEF Counts, AutoCounts
<1>6. DirectCounts' /\ seenHead' \in 0..(W - 1)
  <2> DEFINE D == DirectTx
  <2>1. D \in Chan /\ issued[D] \in Nat /\ done[D] \in Nat /\ fifoHead[D] = done[D] % W
        /\ fifoHead[D] \in 0..(W - 1)
    BY Place DEF Counts, Chan
  <2>2. CASE seenHead' = seenHead
    BY <2>2, <1>1 DEF DirectCounts, TypeOK
  <2>3. CASE seenHead' = fifoHead[D]
    <3>1. PICK m \in Nat : m <= done[D] /\ issued[D] <= m + 2
      BY DEF DirectCounts
    <3>2. done[D] <= done'[D] /\ issued'[D] <= done[D] + 2 /\ seenHead' = done[D] % W
      BY <2>1, <2>3, <3>1, <1>1
    <3>3. ~identify' => issued'[D] = done'[D] /\ seenHead' = fifoHead'[D]
      BY <2>3, <1>1 DEF DirectCounts
    <3> QED BY <2>1, <2>3, <3>2, <3>3 DEF DirectCounts
  <2> QED BY <2>2, <2>3, <1>1
<1>7. CASE ~Finished(q)
  <2>1. nvmeDmaReqQ' = s /\ doneSeen' \subseteq doneSeen
    BY <1>7, <1>1
  <2>2. TypeOK'
    BY <2>1, <1>1, <1>6 DEF TypeOK
  <2>3. QueueMarks' /\ QueueOrder'
    BY <2>1, <1>1 DEF QueueInv, QueueMarks, QueueOrder
  <2>4. WalkInv'
    <3>1. walk' = 0 => doneSeen' = {}
      BY <1>1
    <3>2. \A i \in 1..walk' : i \in 1..walk
      BY <1>1
    <3> QED BY <3>1, <3>2, <2>1, <1>1 DEF QueueInv, WalkInv
  <2> QED BY <2>2, <2>3, <2>4, <1>4, <1>5, <1>6 DEF QueueInv
<1>8. CASE Finished(q)
  <2> DEFINE r == RemoveAt(s, walk)
  <2>1. /\ nvmeDmaReqQ' = r
        /\ r \in Seq(DmaInfo) /\ Len(r) = N - 1
        /\ \A i \in 1..(N - 1) : r[i] = IF i < walk THEN s[i] ELSE s[i + 1]
    <3>1. nvmeDmaReqQ' = r
      BY <1>8, <1>1
    <3>2. s \in Seq(DmaInfo) /\ walk \in 1..Len(s) /\ N = Len(s)
      BY <1>1
    <3> HIDE DEF s, N
    <3> QED BY <3>1, <3>2, Removed
  <2> HIDE DEF r
  <2>2. TypeOK'
    <3>1. walk' \in 0..Len(r)
      BY <2>1, <1>1
    <3>2. doneSeen' \subseteq AutoChan
      BY <1>1, <1>3
    <3> QED BY <3>1, <3>2, <2>1, <1>1, <1>6 DEF TypeOK
  <2>3. \A i \in 1..(N - 1) : \E j \in 1..N : r[i] = s[j] /\ i <= j /\ (i < walk => j = i) /\ (i >= walk => j = i + 1)
    <3> TAKE i \in 1..(N - 1)
    <3>1. CASE i < walk
      BY <3>1, <2>1, <1>1
    <3>2. CASE ~(i < walk)
      <4>1. i + 1 \in 1..N /\ r[i] = s[i + 1]
        BY <3>2, <2>1, <1>1
      <4> QED BY <4>1, <3>2, <1>1
    <3> QED BY <3>1, <3>2
  <2> HIDE DEF s, N, q, e, ch
  <2>4. QueueMarks'
    <3>1. ASSUME NEW i \in 1..(N - 1) PROVE Mark(r[i], issued')
      <4>1. PICK j \in 1..N : r[i] = s[j]
        BY <2>3
      <4> QED BY <4>1, <1>1, <1>2 DEF Mark
    <3> QED BY <3>1, <2>1 DEF QueueMarks
  <2>5. QueueOrder'
    <3> SUFFICES ASSUME NEW i \in 1..(N - 1), NEW j \in 1..(N - 1), i < j, r[i].chan = r[j].chan
                 PROVE  r[i].last <= r[j].last
      BY <2>1 DEF QueueOrder
    <3>1. PICK i1 \in 1..N : r[i] = s[i1] /\ (i < walk => i1 = i) /\ (i >= walk => i1 = i + 1)
      BY <2>3
    <3>2. PICK j1 \in 1..N : r[j] = s[j1] /\ (j < walk => j1 = j) /\ (j >= walk => j1 = j + 1)
      BY <2>3
    <3>3. i1 < j1
      BY <3>1, <3>2, <1>1
    <3> QED BY <3>1, <3>2, <3>3 DEF QueueInv, QueueOrder, s, N
  <2>6. WalkInv'
    <3>1. walk' = 0 => doneSeen' = {}
      BY <1>1
    <3>2. ASSUME NEW i \in 1..walk', r[i].chan \in doneSeen'
          PROVE  r[i].last <= done'[r[i].chan]
      <4>1. i \in 1..walk /\ i < walk /\ i \in 1..N /\ i \in 1..(N - 1)
        BY <1>1
      <4>2. r[i] = s[i]
        BY <4>1, <2>1
      <4>3. CASE s[i].chan \in doneSeen
        BY <4>1, <4>2, <4>3, <1>1 DEF QueueInv, WalkInv, s
      <4>4. CASE s[i].chan = ch
        <5>1. s[i].last <= e
          BY <4>1, <4>4, <1>1 DEF QueueInv, QueueOrder, s, N, e, ch, q
        <5>2. s[i].last \in Nat /\ done[ch] \in Nat
          BY <4>1, <1>2, <1>3 DEF TypeOK, Chan
        <5>3. e <= done[ch]
          BY <1>4, <1>8
        <5> QED BY <5>1, <5>2, <5>3, <4>2, <4>4, <1>1, <1>3
      <4>5. s[i].chan \in doneSeen \/ s[i].chan = ch
        BY <3>2, <4>2, <1>1 DEF ch
      <4> QED BY <4>3, <4>4, <4>5
    <3> QED BY <3>1, <3>2, <2>1 DEF WalkInv
  <2>7. QueueInv'
    BY <2>4, <2>5, <2>6 DEF QueueInv
  <2> QED BY <2>2, <2>7, <1>4, <1>5, <1>6 DEF e, ch, q
<1> QED BY <1>7, <1>8

-----------------------------------------------------------------------------
(* The theorems.                                                           *)

\* Every step keeps the invariant.
LEMMA NextIInv == IInv /\ [Next]_vars => IInv'
<1> SUFFICES ASSUME IInv, [Next]_vars PROVE IInv'
  OBVIOUS
<1>1. CASE \E c \in Chan : Engine(c)
  BY <1>1, EngineStep
<1>2. CASE \E c \in AutoChan, n \in 1..MaxBlocks : IssueNvmeDmaReq(c, n)
  BY <1>2, IssueNvmeDmaReqStep
<1>3. CASE \E n \in 1..2 : HandleIdentify(n)
  BY <1>3, HandleIdentifyStep
<1>4. CASE \E c \in AutoChan : SetAutoDma(c)
  BY <1>4, SetAutoDmaStep
<1>5. CASE CheckDoneNvmeDmaReq
  BY <1>5, CheckDoneNvmeDmaReqStep
<1>6. CASE VisitNvmeDmaReq
  BY <1>6, VisitNvmeDmaReqStep
<1>7. CASE CheckDirectTxDmaDone
  BY <1>7, CheckDirectTxDmaDoneStep
<1>8. CASE UNCHANGED vars
  BY <1>8 DEF vars, counters, walkVars, IInv, TypeOK, Counts, AutoCounts, DirectCounts,
              QueueInv, QueueMarks, QueueOrder, WalkInv
<1> QED BY <1>1, <1>2, <1>3, <1>4, <1>5, <1>6, <1>7, <1>8 DEF Next, Continue

\* The invariant holds for any width of the counters and any traffic.
THEOREM Inductive == Spec => []IInv
BY InitIInv, NextIInv, PTL DEF Spec

\* The state functions of the driver keep to their sets: the counts stay below
\* W and a walk never points past the queue.
THEOREM TypeCorrect == Spec => []TypeOK
<1>1. IInv => TypeOK
  BY DEF IInv
<1> QED BY <1>1, Inductive, PTL

\* check_auto_rx_dma_partial_done and check_auto_tx_dma_partial_done are exact:
\* for any width and any number of wraps they report a request done exactly
\* when its last transfer is.
THEOREM PartialDoneAlwaysExact == Spec => []PartialDoneExact
<1>1. IInv => PartialDoneExact
  <2> SUFFICES ASSUME IInv, NEW i \in 1..Len(nvmeDmaReqQ)
               PROVE  LET q == nvmeDmaReqQ[i] IN
                        PartialDone(q.chan, q.reqTail, q.overFlowCnt) <=> done[q.chan] >= q.last
    BY DEF PartialDoneExact
  <2> DEFINE q == nvmeDmaReqQ[i]
  <2>1. q \in DmaInfo /\ Mark(q, issued)
    BY DEF IInv, TypeOK, QueueInv, QueueMarks
  <2>2. q.chan \in AutoChan /\ q.last \in Nat /\ q.last <= issued[q.chan]
        /\ q.reqTail = q.last % W /\ q.overFlowCnt = q.last \div W
    BY <2>1 DEF Mark, DmaInfo
  <2>3. PartialDone(q.chan, q.last % W, q.last \div W) <=> done[q.chan] >= q.last
    <3> DEFINE c == q.chan  n == q.last
    <3>1. c \in AutoChan /\ n \in Nat /\ n <= issued[c] /\ TypeOK /\ Counts /\ AutoCounts
      BY <2>2 DEF IInv
    <3> HIDE DEF c, n
    <3>2. PartialDone(c, n % W, n \div W) <=> done[c] >= n
      BY <3>1, PartialDoneMeaning
    <3> QED BY <3>2 DEF c, n
  <2> QED BY <2>2, <2>3
<1> QED BY <1>1, Inductive, PTL

\* CheckDoneNvmeDmaReq releases no request before its transfers are finished:
\* also those it does not ask the driver about, because a younger request of
\* the channel was done, are.
THEOREM OnlyDoneAreReleased == Spec => OnlyDoneReleased
<1> DEFINE Keeps == \A i \in 1..Len(nvmeDmaReqQ) : LET q == nvmeDmaReqQ[i] IN
                      done[q.chan] < q.last => \E j \in 1..Len(nvmeDmaReqQ') : nvmeDmaReqQ'[j] = q
<1>1. IInv /\ [Next]_vars => [Keeps]_vars
  <2> SUFFICES ASSUME IInv, Next, NEW i \in 1..Len(nvmeDmaReqQ),
                      done[nvmeDmaReqQ[i].chan] < nvmeDmaReqQ[i].last
               PROVE  \E j \in 1..Len(nvmeDmaReqQ') : nvmeDmaReqQ'[j] = nvmeDmaReqQ[i]
    OBVIOUS
  <2>0. nvmeDmaReqQ \in Seq(DmaInfo) /\ Len(nvmeDmaReqQ) \in Nat
    BY DEF IInv, TypeOK
  <2>1. CASE nvmeDmaReqQ' = nvmeDmaReqQ
    BY <2>1
  <2>2. CASE \E c \in AutoChan : SetAutoDma(c)
    <3>1. PICK c \in AutoChan : SetAutoDma(c)
      BY <2>2
    <3> DEFINE s == nvmeDmaReqQ
    <3>2. CASE \E e : s' = Append(s, e)
      <4>1. PICK e : nvmeDmaReqQ' = Append(nvmeDmaReqQ, e)
        BY <3>2
      <4>2. Len(nvmeDmaReqQ') = Len(nvmeDmaReqQ) + 1 /\ nvmeDmaReqQ'[i] = nvmeDmaReqQ[i]
        BY <4>1, <2>0
      <4> QED BY <4>2, <2>0
    <3> QED BY <3>1, <3>2, <2>1 DEF SetAutoDma
  <2>3. CASE VisitNvmeDmaReq
    <3> DEFINE s == nvmeDmaReqQ  e == nvmeDmaReqQ[i]
    <3>1. walk \in 1..Len(s)
      BY <2>3, <2>0 DEF VisitNvmeDmaReq, ToVisit, IInv, TypeOK
    <3>2. CASE Finished(s[walk])
      <4>1. s[walk].last <= done[s[walk].chan]
        BY <2>3, <3>2, VisitNvmeDmaReqStep
      <4>2. i # walk
        <5>1. s[i] \in DmaInfo
          BY <2>0
        <5>2. s[i].last \in Nat /\ s[i].chan \in Chan
          BY <5>1 DEF DmaInfo, Chan
        <5>3. done[s[i].chan] \in Nat
          BY <5>2 DEF IInv, TypeOK
        <5> QED BY <4>1, <5>2, <5>3
      <4>3. nvmeDmaReqQ' = RemoveAt(s, walk)
        BY <2>3, <3>2 DEF VisitNvmeDmaReq
      <4> DEFINE n == Len(s)
      <4>4. /\ Len(RemoveAt(s, walk)) = n - 1
            /\ \A k \in 1..(n - 1) : RemoveAt(s, walk)[k] = IF k < walk THEN s[k] ELSE s[k + 1]
        <5> HIDE DEF s
        <5>1. s \in Seq(DmaInfo) /\ walk \in 1..Len(s)
          BY <2>0, <3>1 DEF s
        <5> QED BY <5>1, Removed
      <4>5. CASE i < walk
        <5>1. i \in 1..(n - 1)
          BY <4>5, <3>1, <2>0
        <5> QED BY <5>1, <4>5, <4>3, <4>4
      <4>6. CASE i > walk
        <5>1. i - 1 \in 1..(n - 1) /\ ~(i - 1 < walk) /\ (i - 1) + 1 = i
          BY <4>6, <3>1, <2>0
        <5>2. RemoveAt(s, walk)[i - 1] = s[i]
          BY <5>1, <4>4
        <5> QED BY <5>1, <5>2, <4>3, <4>4
      <4>7. i < walk \/ i > walk
        BY <4>2, <3>1, <2>0
      <4> QED BY <4>5, <4>6, <4>7
    <3>3. CASE ~Finished(s[walk])
      BY <2>3, <3>3, <2>1 DEF VisitNvmeDmaReq
    <3> QED BY <3>2, <3>3
  <2>4. CASE ~(\E c \in AutoChan : SetAutoDma(c)) /\ ~VisitNvmeDmaReq
    <3>1. nvmeDmaReqQ' = nvmeDmaReqQ
      BY <2>4 DEF Next, Continue, Engine, IssueNvmeDmaReq, HandleIdentify, CheckDoneNvmeDmaReq, CheckDirectTxDmaDone
    <3> QED BY <3>1, <2>1
  <2> QED BY <2>2, <2>3, <2>4
<1> QED BY <1>1, Inductive, PTL DEF Spec, OnlyDoneReleased

\* handle_identify completes the command when its data has been sent, although
\* check_direct_tx_dma_done compares an old copy of the count first.
THEOREM IdentifyIsSent == Spec => IdentifySent
<1> DEFINE Sent == identify /\ ~identify' => done[DirectTx] = issued[DirectTx]
<1>1. IInv /\ [Next]_vars => [Sent]_vars
  <2> SUFFICES ASSUME IInv, Next, identify, ~identify' PROVE done[DirectTx] = issued[DirectTx]
    OBVIOUS
  <2>1. CheckDirectTxDmaDone
    BY DEF Next, Continue, Engine, IssueNvmeDmaReq, HandleIdentify, SetAutoDma, CheckDoneNvmeDmaReq, VisitNvmeDmaReq
  <2> QED BY <2>1, CheckDirectTxDmaDoneStep
<1> QED BY <1>1, Inductive, PTL DEF Spec, IdentifySent
=============================================================================
