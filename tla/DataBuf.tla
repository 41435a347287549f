------------------------------ MODULE DataBuf -------------------------------
(***************************************************************************)
(* The data buffers.  An I/O command is split into requests for slices     *)
(* (ReqTransNvmeToSlice); each takes the buffer of its slice, or the least *)
(* recently used one, which is written to the flash if dirty and filled    *)
(* from the flash if the request does not replace all of it                *)
(* (ReqTransSliceToLowLevel).  The LRU list and the hash table are kept at *)
(* the level of their links.                                               *)
(*                                                                         *)
(* The requests made on the way take effect at once: that they execute in  *)
(* the order they are made is ReqOrder.  Of a content only what matters is *)
(* kept: the blocks of a slice whose newest content a buffer, or the flash *)
(* page the slice is mapped to, has.                                       *)
(***************************************************************************)
EXTENDS Integers, Sequences, FiniteSets, SequencesExt

CONSTANTS
  N,        \* AVAILABLE_DATA_BUFFER_ENTRY_COUNT: buffers, and buckets
  B,        \* NVME_BLOCKS_PER_SLICE
  Lsa,      \* the logical slices of the drive
  None,     \* DATA_BUF_NONE, LSA_NONE
  Commands  \* the commands the host sends: code, first block, number of blocks

ASSUME SizeAssumption == N \in Nat \ {0} /\ B \in Nat \ {0}
ASSUME LsaAssumption  == Lsa \subseteq Nat /\ None \notin Nat

Buf    == 0..(N - 1)
Bucket == 0..(N - 1)
Offset == 0..(B - 1)

\* A command stays within the drive, as nvme_io_cmd.c asserts of its start.
ASSUME CommandAssumption ==
  \A c \in Commands : /\ c.code \in {"READ", "WRITE"} /\ c.start \in Nat /\ c.n \in Nat \ {0}
                      /\ \A i \in 0..(c.n - 1) : (c.start + i) \div B \in Lsa

VARIABLES
  sliceReqQ,   \* the slice requests of the command in hand
  lru,         \* dataBufLruList and the links prevEntry, nextEntry
  hash,        \* per bucket: head and tail; and the links hashPrevEntry, hashNextEntry
  logicalSliceAddr, dirty, \* of each buffer
  mapped,      \* slices that have a flash page
  written,     \* per slice: the blocks the host has written
  bufHas,      \* per buffer: the blocks whose newest content it holds
  flashHas     \* per slice: the blocks whose newest content its page holds

lists == <<lru, hash, logicalSliceAddr>>
data  == <<dirty, mapped, written, bufHas, flashHas>>
vars  == <<sliceReqQ, lists, data>>

-----------------------------------------------------------------------------
(* Doubly linked lists.                                                    *)

\* CheckDataBufHit and SelectiveGetFromDataBufHashList: an entry leaves from
\* the body, the tail or the head, or as the only one; its own links stay.
Unlink(l, b) ==
  LET p == l.prev[b]  n == l.next[b] IN
  [head |-> IF p = None THEN n ELSE l.head,
   tail |-> IF n = None THEN p ELSE l.tail,
   prev |-> IF n = None THEN l.prev ELSE [l.prev EXCEPT ![n] = p],
   next |-> IF p = None THEN l.next ELSE [l.next EXCEPT ![p] = n]]

\* AllocateDataBuf: the tail leaves; its next link is not looked at.
DropTail(l) ==
  LET p == l.prev[l.tail] IN
  IF p = None THEN [l EXCEPT !.head = None, !.tail = None]
  ELSE [l EXCEPT !.tail = p, !.next[p] = None]

\* CheckDataBufHit and AllocateDataBuf: an entry enters at the head.
PushHead(l, b) ==
  [head |-> b,
   tail |-> IF l.head = None THEN b ELSE l.tail,
   prev |-> IF l.head = None THEN [l.prev EXCEPT ![b] = None]
            ELSE [l.prev EXCEPT ![b] = None, ![l.head] = b],
   next |-> [l.next EXCEPT ![b] = l.head]]

\* Mutant: an entry that is hit stays where it is.
MakeMruNot(l, b) == l

\* CheckDataBufHit: the entry found becomes the most recently used.
MakeMru(l, b) == PushHead(Unlink(l, b), b)

\* PutToDataBufHashList: an entry enters at the tail.
PushTail(l, b) ==
  [head |-> IF l.tail = None THEN b ELSE l.head,
   tail |-> b,
   prev |-> [l.prev EXCEPT ![b] = l.tail],
   next |-> IF l.tail = None THEN [l.next EXCEPT ![b] = None]
            ELSE [l.next EXCEPT ![b] = None, ![l.tail] = b]]

\* The entries met from the head on, at most N.
Walk(head, next) ==
  LET at[i \in 1..N] == IF i = 1 THEN head
                        ELSE IF at[i - 1] = None THEN None ELSE next[at[i - 1]]
  IN  [i \in 1..Cardinality({j \in 1..N : at[j] # None}) |-> at[i]]

FindDataBufHashTableEntry(a) == a % N

\* The list of a bucket, and the hash table with that list changed.
Chain(t, h) == [head |-> t.head[h], tail |-> t.tail[h], prev |-> t.prev, next |-> t.next]
WithChain(t, h, l) ==
  [head |-> [t.head EXCEPT ![h] = l.head], tail |-> [t.tail EXCEPT ![h] = l.tail],
   prev |-> l.prev, next |-> l.next]

-----------------------------------------------------------------------------
(* The split of a command.                                                 *)

Blocks(q) == q.offset..(q.offset + q.num - 1)

\* ReqTransNvmeToSlice: the slices a command fills to the end, and the blocks
\* it needs of the next.
Loop(c)    == ((c.start % B) + c.n) \div B
LastNum(c) == (c.start + c.n) % B

\* Mutant: a last request even if the command ends with its slice.
SliceCountLastAlways(c) == IF Loop(c) = 0 THEN 1 ELSE Loop(c) + 1

\* The number of slice requests.
SliceCount(c) == IF Loop(c) = 0 THEN 1
                 ELSE IF LastNum(c) = 0 THEN Loop(c) ELSE Loop(c) + 1

\* The blocks of the first request: up to the end of its slice if it gets there.
First(c) == IF Loop(c) > 0 THEN B - (c.start % B) ELSE c.n

\* The i-th request: the first one, whole slices, and the last one.
Split(c) ==
  [i \in 1..SliceCount(c) |->
    [code       |-> c.code,
     lsa        |-> (c.start \div B) + i - 1,
     startIndex |-> IF i = 1 THEN 0 ELSE First(c) + (i - 2) * B,
     offset     |-> IF i = 1 THEN c.start % B ELSE 0,
     num        |-> IF i = 1 THEN First(c) ELSE IF i <= Loop(c) THEN B ELSE LastNum(c)]]

HandleNvmeIo(c) ==
  /\ sliceReqQ = <<>>
  /\ sliceReqQ' = Split(c)
  /\ UNCHANGED <<lists, data>>

-----------------------------------------------------------------------------
(* A slice request.                                                        *)

\* CheckDataBufHit: the first buffer of slice a met in its bucket.
Found(a) ==
  LET chain == Walk(hash.head[FindDataBufHashTableEntry(a)], hash.next)
      here  == {i \in 1..Len(chain) : logicalSliceAddr[chain[i]] = a}
  IN  IF here = {} THEN None ELSE chain[Min(here)]

\* Mutant: it is taken out of the bucket of the slice it will hold.
UnhashedNewBucket(b, a) ==
  IF logicalSliceAddr[b] = None THEN hash
  ELSE LET h == FindDataBufHashTableEntry(a)
       IN  WithChain(hash, h, Unlink(Chain(hash, h), b))

\* SelectiveGetFromDataBufHashList: buffer b, to be of slice a, leaves the
\* bucket of the slice it holds.
Unhashed(b, a) ==
  IF logicalSliceAddr[b] = None THEN hash
  ELSE LET h == FindDataBufHashTableEntry(logicalSliceAddr[b])
       IN  WithChain(hash, h, Unlink(Chain(hash, h), b))

\* PutToDataBufHashList: b enters the bucket of slice a.
Rehashed(t, b, a) ==
  LET h == FindDataBufHashTableEntry(a) IN WithChain(t, h, PushTail(Chain(t, h), b))

\* EvictDataBufEntry: the page of the slice the buffer held gets its content.
Evicted(b) == IF dirty[b] THEN [flashHas EXCEPT ![logicalSliceAddr[b]] = bufHas[b]] ELSE flashHas

\* Mutant: a write does not read what it leaves alone.
FilledForRead(q, page) == IF q.code = "READ" /\ q.lsa \in mapped THEN page ELSE {}

\* What the buffer holds before the transfer: DataReadFromNand brings the page
\* of the slice for a read, or a write of a part, if there is one.
Filled(q, page) ==
  IF (q.code = "READ" \/ q.num # B) /\ q.lsa \in mapped THEN page ELSE {}

\* The RxDMA of a write makes the blocks in buffer b the newest; the TxDMA of
\* a read changes nothing.
Transfer(q, b, has, page) ==
  LET new == IF q.code = "WRITE" THEN Blocks(q) ELSE {} IN
  /\ written' = [written EXCEPT ![q.lsa] = @ \cup new]
  /\ bufHas' = [d \in Buf |-> IF d = b THEN has \cup new
                              ELSE IF logicalSliceAddr[d] = q.lsa THEN bufHas[d] \ new
                              ELSE bufHas[d]]
  /\ flashHas' = [page EXCEPT ![q.lsa] = @ \ new]

\* ReqTransSliceToLowLevel when the slice has a buffer.
DataBufHit ==
  /\ sliceReqQ # <<>>
  /\ LET q == Head(sliceReqQ)  b == Found(q.lsa) IN
       /\ b # None
       /\ lru' = MakeMru(lru, b)
       /\ dirty' = [dirty EXCEPT ![b] = @ \/ q.code = "WRITE"]
       /\ Transfer(q, b, bufHas[b], flashHas)
  /\ sliceReqQ' = Tail(sliceReqQ)
  /\ UNCHANGED <<hash, logicalSliceAddr, mapped>>

\* ReqTransSliceToLowLevel when it has not.
DataBufMiss ==
  /\ sliceReqQ # <<>>
  /\ LET q == Head(sliceReqQ)  b == lru.tail IN
       /\ Found(q.lsa) = None
       /\ lru' = PushHead(DropTail(lru), b)
       /\ hash' = Rehashed(Unhashed(b, q.lsa), b, q.lsa)
       /\ dirty' = [dirty EXCEPT ![b] = q.code = "WRITE"]
       /\ logicalSliceAddr' = [logicalSliceAddr EXCEPT ![b] = q.lsa]
       /\ mapped' = IF dirty[b] THEN mapped \cup {logicalSliceAddr[b]} ELSE mapped
       /\ Transfer(q, b, Filled(q, Evicted(b)[q.lsa]), Evicted(b))
  /\ sliceReqQ' = Tail(sliceReqQ)

-----------------------------------------------------------------------------
(* InitDataBuf, and nvme_main, which handles one command after the other.  *)

Init ==
  /\ sliceReqQ = <<>>
  /\ lru = [head |-> 0, tail |-> N - 1,
            prev |-> [b \in Buf |-> IF b = 0 THEN None ELSE b - 1],
            next |-> [b \in Buf |-> IF b = N - 1 THEN None ELSE b + 1]]
  /\ hash = [head |-> [h \in Bucket |-> None], tail |-> [h \in Bucket |-> None],
             prev |-> [b \in Buf |-> None], next |-> [b \in Buf |-> None]]
  /\ logicalSliceAddr = [b \in Buf |-> None]
  /\ dirty = [b \in Buf |-> FALSE]
  /\ mapped = {}
  /\ written = [a \in Lsa |-> {}]
  /\ bufHas = [b \in Buf |-> {}]
  /\ flashHas = [a \in Lsa |-> {}]

Next == (\E c \in Commands : HandleNvmeIo(c)) \/ DataBufHit \/ DataBufMiss

Spec == Init /\ [][Next]_vars

-----------------------------------------------------------------------------
(* Properties.                                                             *)

SliceReq == [code : {"READ", "WRITE"}, lsa : Lsa, startIndex : Nat, offset : Offset, num : 1..B]

\* The variables keep their types: every slice request lies within a slice of
\* the drive, every link is a buffer or none.
TypeOK ==
  LET Entry == Buf \cup {None} IN
  /\ sliceReqQ \in Seq(SliceReq)
  /\ lru \in [head : Entry, tail : Entry, prev : [Buf -> Entry], next : [Buf -> Entry]]
  /\ hash \in [head : [Bucket -> Entry], tail : [Bucket -> Entry],
               prev : [Buf -> Entry], next : [Buf -> Entry]]
  /\ logicalSliceAddr \in [Buf -> Lsa \cup {None}]
  /\ dirty \in [Buf -> BOOLEAN]
  /\ mapped \subseteq Lsa
  /\ written \in [Lsa -> SUBSET Offset]
  /\ bufHas \in [Buf -> SUBSET Offset]
  /\ flashHas \in [Lsa -> SUBSET Offset]

\* A list is whole: its entries, met from the head, are those of set S, each
\* once, the links back agree and the tail is the last.
Whole(l, S) ==
  LET s == Walk(l.head, l.next) IN
  /\ {s[i] : i \in 1..Len(s)} = S /\ Len(s) = Cardinality(S)
  /\ \A i \in 1..Len(s) : l.prev[s[i]] = IF i = 1 THEN None ELSE s[i - 1]
  /\ l.tail = IF s = <<>> THEN None ELSE s[Len(s)]
  /\ s # <<>> => l.next[l.tail] = None

\* The LRU list holds every buffer, and the list of each bucket exactly the
\* buffers whose slice belongs there: the order in which AllocateDataBuf,
\* SelectiveGetFromDataBufHashList and PutToDataBufHashList run, and the slice
\* address they see, matter.
ListsWhole ==
  /\ Whole(lru, Buf)
  /\ \A h \in Bucket :
       Whole(Chain(hash, h), {b \in Buf : logicalSliceAddr[b] # None
                                          /\ FindDataBufHashTableEntry(logicalSliceAddr[b]) = h})

\* The newest content of every block the host wrote is in the buffer of its
\* slice, and in the flash too unless the buffer is dirty: a read is never
\* answered with an older content and a clean buffer can be given away.
NewestKept ==
  \A a \in Lsa :
    LET holders == {b \in Buf : logicalSliceAddr[b] = a} IN
    /\ \A b \in holders : written[a] \subseteq bufHas[b]
    /\ (\A b \in holders : ~dirty[b]) => a \in mapped \/ written[a] = {}
    /\ (\A b \in holders : ~dirty[b]) => written[a] \subseteq flashHas[a]

\* The slice requests s of a command cover its blocks, each once, in order:
\* each begins in the host's memory and on the drive where the one before it
\* ended, and the last ends with the command.
Covers(s, c) ==
  /\ s # <<>>
  /\ \A i \in 1..Len(s) :
       /\ s[i].code = c.code
       /\ s[i].num \in 1..B /\ s[i].offset \in Offset /\ s[i].offset + s[i].num <= B
       /\ (s[i].lsa * B) + s[i].offset = c.start + s[i].startIndex
       /\ s[i].startIndex = IF i = 1 THEN 0 ELSE s[i - 1].startIndex + s[i - 1].num
  /\ s[Len(s)].startIndex + s[Len(s)].num = c.n

\* A command is split into slice requests that cover it.
CommandsCovered == [][\A c \in Commands : HandleNvmeIo(c) => Covers(sliceReqQ', c)]_vars

\* The buffers are a least recently used cache of slices: a hit is found
\* through the hash table whenever there is one, a slice never gets a second
\* buffer, and the buffer given away is the one used the longest ago.
Cache == INSTANCE LruCache WITH NoLsa <- None, holds <- logicalSliceAddr,
           asked   <- [i \in DOMAIN sliceReqQ |-> sliceReqQ[i].lsa],
           recency <- Walk(lru.head, lru.next)
ImplementsLruCache == Cache!Spec
=============================================================================
