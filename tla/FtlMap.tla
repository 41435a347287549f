------------------------------- MODULE FtlMap -------------------------------
(***************************************************************************)
(* The flash translation layer: where a logical slice is kept, which       *)
(* blocks are free, and which one garbage collection empties next          *)
(* (address_translation.c and garbage_collection.c).                       *)
(*                                                                         *)
(* AddrTransWrite runs to its end before anything else touches the maps;   *)
(* it is split at its calls, in order: InvalidateOldVsa, a free block or a *)
(* garbage collection (one page at a time), EraseBlock, and the page that  *)
(* is given to the write.  phase says how far it has come.  The linked     *)
(* lists of blocks are sequences here, and freeBlockCnt is the length of   *)
(* the free list.                                                          *)
(***************************************************************************)
EXTENDS Integers, Sequences, FiniteSets, SequencesExt

CONSTANTS
  Dies,           \* USER_DIES
  BlocksPerDie,   \* blocks of a die that are not bad
  PagesPerBlock,  \* USER_PAGES_PER_BLOCK, which is SLICES_PER_BLOCK
  Lsa,            \* the logical slices the host may write
  NoLsa,          \* LSA_NONE
  NoVsa,          \* VSA_NONE
  ReservedFreeBlocks, \* RESERVED_FREE_BLOCK_COUNT
  Skewed,         \* may the host fill one die with valid slices?
  OpenVictim      \* may garbage collection find the open block as its victim
                  \* with no valid slice left in it?

Die   == 0..(Dies - 1)
Block == 0..(BlocksPerDie - 1)
Page  == 0..(PagesPerBlock - 1)
Vsa   == Die \X Block \X Page

ASSUME SizeAssumption     == Dies \in Nat \ {0} /\ PagesPerBlock \in Nat \ {0}
ASSUME ReserveAssumption  == /\ ReservedFreeBlocks \in Nat \ {0}
                             /\ BlocksPerDie \in Nat /\ BlocksPerDie > ReservedFreeBlocks + 1
ASSUME NoneAssumption     == NoLsa \notin Lsa /\ NoVsa \notin Vsa /\ IsFiniteSet(Lsa)
ASSUME WorkloadAssumption == Skewed \in BOOLEAN /\ OpenVictim \in BOOLEAN

VARIABLES
  logicalSlice,    \* logicalSliceMap: the virtual slice of a logical one
  virtualSlice,    \* virtualSliceMap: the logical slice last put there
  free,            \* per block: the free bit
  invalidSliceCnt, \* per block: slices written and overwritten since
  pagesUsed,       \* per block: currentPage, the pages given out
  freeList,        \* per die: the free blocks, next to be used first
  victimList,      \* per die and count: the blocks with that many invalid slices
  currentBlock,    \* per die: the block writes go to
  targetDie,       \* sliceAllocationTargetDie
  phase,           \* how far AddrTransWrite has come
  lsa,             \* the logical slice it writes
  victim,          \* the block garbage collection empties
  gcPage           \* the next page of it to look at

maps   == <<logicalSlice, virtualSlice>>
blocks == <<free, invalidSliceCnt, pagesUsed>>
lists  == <<freeList, victimList, currentBlock>>
gcVars == <<victim, gcPage>>
vars   == <<maps, blocks, lists, targetDie, phase, lsa, gcVars>>

Phase == {"idle", "find", "copy", "erase", "collected", "give"}

-----------------------------------------------------------------------------
(* The lists.                                                              *)

\* SelectiveGetFromGcVictimList and PutToGcVictimList: a block moves from the
\* list of its count to the end of the next one.  A block without invalid
\* slices is in no list; the code then empties list 0, which is never read.
\* Mutant: the block stays in the list it was in.
MoveVictimNoUnlink(b, d, n) ==
  victimList' = [victimList EXCEPT ![d][n + 1] = Append(@, b)]
MoveVictim(b, d, n) ==
  victimList' = [victimList EXCEPT ![d][n] = RemoveFirst(@, b), ![d][n + 1] = Append(@, b)]

\* GetFromFbList gives a normal request a block only beyond the reserve.
\* Mutant: the last reserved block is given away.
NormalBlockAvailableNoReserve(d) == Len(freeList[d]) >= ReservedFreeBlocks
NormalBlockAvailable(d) == Len(freeList[d]) > ReservedFreeBlocks

\* GetFromGcVictimList takes the oldest block of the fullest list.
VictimCounts(d) == {n \in 1..PagesPerBlock : victimList[d][n] # <<>>}
FullestList(d)  == CHOOSE n \in VictimCounts(d) : \A m \in VictimCounts(d) : m <= n

\* Mutant: one page too many.
OpenBlockFullOffByOne(d) == pagesUsed[d][currentBlock[d]] > PagesPerBlock
OpenBlockFull(d) == pagesUsed[d][currentBlock[d]] = PagesPerBlock

\* The die has no block for the write at hand.
\* Mutant: the rest of the open block is not used.
MustCollectEarly(d) == ~NormalBlockAvailable(d)
MustCollect(d) == OpenBlockFull(d) /\ ~NormalBlockAvailable(d)

\* A page that still is the place of a logical slice.
\* Mutant: a page that was overwritten is moved as well.
ValidPageAnyLsa(v) == virtualSlice[v] # NoLsa
ValidPage(v) == virtualSlice[v] # NoLsa /\ logicalSlice[virtualSlice[v]] = v

-----------------------------------------------------------------------------
(* AddrTransWrite.                                                         *)

\* Its first call, InvalidateOldVsa.
AddrTransWrite(l) ==
  LET v == logicalSlice[l]
      d == v[1]
      b == v[2]
      n == invalidSliceCnt[d][b]
  IN
  /\ phase = "idle"
  /\ phase' = "find"
  /\ lsa' = l
  /\ \/ /\ v # NoVsa
        /\ virtualSlice[v] = l
        /\ MoveVictim(b, d, n)
        /\ invalidSliceCnt' = [invalidSliceCnt EXCEPT ![d][b] = n + 1]
        /\ logicalSlice' = [logicalSlice EXCEPT ![l] = NoVsa]
     \/ /\ v # NoVsa => virtualSlice[v] # l
        /\ UNCHANGED <<victimList, invalidSliceCnt, logicalSlice>>
  /\ UNCHANGED <<virtualSlice, free, pagesUsed, freeList, currentBlock, targetDie, gcVars>>

\* FindFreeVirtualSlice: the open block is full and a free one is opened.
OpenBlock ==
  LET d == targetDie
      b == Head(freeList[d])
  IN
  /\ phase \in {"find", "collected"}
  /\ OpenBlockFull(d) /\ NormalBlockAvailable(d)
  /\ phase' = "give"
  /\ currentBlock' = [currentBlock EXCEPT ![d] = b]
  /\ freeList' = [freeList EXCEPT ![d] = Tail(@)]
  /\ free' = [free EXCEPT ![d][b] = FALSE]
  /\ UNCHANGED <<maps, invalidSliceCnt, pagesUsed, victimList, targetDie, lsa, gcVars>>

\* The page it returns, recorded in both maps.
\* Mutant: the page counter stays.
GiveSliceNoAdvance ==
  LET d == targetDie
      b == currentBlock[d]
      v == <<d, b, pagesUsed[d][b]>>
  IN
  /\ phase = "give" \/ (phase \in {"find", "collected"} /\ ~OpenBlockFull(d))
  /\ phase' = "idle"
  /\ targetDie' = (d + 1) % Dies
  /\ logicalSlice' = [logicalSlice EXCEPT ![lsa] = v]
  /\ virtualSlice' = [virtualSlice EXCEPT ![v] = lsa]
  /\ lsa' = NoLsa
  /\ UNCHANGED <<free, pagesUsed, invalidSliceCnt, lists, gcVars>>
GiveSlice ==
  LET d == targetDie
      b == currentBlock[d]
      v == <<d, b, pagesUsed[d][b]>>
  IN
  /\ phase = "give" \/ (phase \in {"find", "collected"} /\ ~OpenBlockFull(d))
  /\ phase' = "idle"
  /\ pagesUsed' = [pagesUsed EXCEPT ![d][b] = @ + 1]
  /\ targetDie' = (d + 1) % Dies
  /\ logicalSlice' = [logicalSlice EXCEPT ![lsa] = v]
  /\ virtualSlice' = [virtualSlice EXCEPT ![v] = lsa]
  /\ lsa' = NoLsa
  /\ UNCHANGED <<free, invalidSliceCnt, lists, gcVars>>

\* An assertion of the code stops the program: no free block after a
\* collection, nothing to collect, or no free block to copy to.
AssertFails ==
  LET d == targetDie IN
  \/ phase = "collected" /\ MustCollect(d)
  \/ phase = "find" /\ MustCollect(d) /\ VictimCounts(d) = {}
  \/ /\ phase = "copy" /\ ValidPage(<<d, victim, gcPage>>)
     /\ victim = currentBlock[d] \/ OpenBlockFull(d)
     /\ freeList[d] = <<>>

-----------------------------------------------------------------------------
(* GarbageCollection.                                                      *)

\* Mutant: the first page is not looked at.
GarbageCollectionSkipFirst ==
  LET d == targetDie
      n == FullestList(d)
      b == Head(victimList[d][n])
  IN
  /\ phase = "find" /\ MustCollect(d) /\ VictimCounts(d) # {}
  /\ victim' = b
  /\ victimList' = [victimList EXCEPT ![d][n] = Tail(@)]
  /\ IF invalidSliceCnt[d][b] # PagesPerBlock /\ PagesPerBlock > 1
     THEN phase' = "copy" /\ gcPage' = 1
     ELSE phase' = "erase" /\ UNCHANGED gcPage
  /\ UNCHANGED <<maps, blocks, freeList, currentBlock, targetDie, lsa>>

GarbageCollection ==
  LET d == targetDie
      n == FullestList(d)
      b == Head(victimList[d][n])
  IN
  /\ phase = "find" /\ MustCollect(d) /\ VictimCounts(d) # {}
  /\ victim' = b
  /\ victimList' = [victimList EXCEPT ![d][n] = Tail(@)]
  /\ IF invalidSliceCnt[d][b] # PagesPerBlock
     THEN phase' = "copy" /\ gcPage' = 0
     ELSE phase' = "erase" /\ UNCHANGED gcPage
  /\ UNCHANGED <<maps, blocks, freeList, currentBlock, targetDie, lsa>>

\* One page: a valid one is copied to the page FindFreeVirtualSliceForGc
\* finds, in the open block or, when that is full or the victim itself, in a
\* block of the reserve.
\* Mutant: an overwritten page is looked at again and again.
CopyPageStuck ==
  LET d == targetDie
      v == <<d, victim, gcPage>>
      l == virtualSlice[v]
      opens == victim = currentBlock[d] \/ OpenBlockFull(d)
      b == IF opens THEN Head(freeList[d]) ELSE currentBlock[d]
      w == <<d, b, pagesUsed[d][b]>>
  IN
  /\ phase = "copy"
  /\ \/ /\ ~ValidPage(v)
        /\ UNCHANGED <<maps, blocks, lists, phase, gcPage>>
     \/ /\ ValidPage(v)
        /\ phase' = IF gcPage + 1 = PagesPerBlock THEN "erase" ELSE "copy"
        /\ gcPage' = (gcPage + 1) % PagesPerBlock
        /\ opens => freeList[d] # <<>>
        /\ currentBlock' = [currentBlock EXCEPT ![d] = b]
        /\ freeList' = IF opens THEN [freeList EXCEPT ![d] = Tail(@)] ELSE freeList
        /\ free' = [free EXCEPT ![d][b] = FALSE]
        /\ pagesUsed' = [pagesUsed EXCEPT ![d][b] = @ + 1]
        /\ logicalSlice' = [logicalSlice EXCEPT ![l] = w]
        /\ virtualSlice' = [virtualSlice EXCEPT ![w] = l]
        /\ UNCHANGED <<invalidSliceCnt, victimList>>
  /\ UNCHANGED <<targetDie, lsa, victim>>
CopyPage ==
  LET d == targetDie
      v == <<d, victim, gcPage>>
      l == virtualSlice[v]
      opens == victim = currentBlock[d] \/ OpenBlockFull(d)
      b == IF opens THEN Head(freeList[d]) ELSE currentBlock[d]
      w == <<d, b, pagesUsed[d][b]>>
  IN
  /\ phase = "copy"
  /\ phase' = IF gcPage + 1 = PagesPerBlock THEN "erase" ELSE "copy"
  /\ gcPage' = (gcPage + 1) % PagesPerBlock
  /\ \/ /\ ~ValidPage(v)
        /\ UNCHANGED <<maps, blocks, lists>>
     \/ /\ ValidPage(v)
        /\ opens => freeList[d] # <<>>
        /\ currentBlock' = [currentBlock EXCEPT ![d] = b]
        /\ freeList' = IF opens THEN [freeList EXCEPT ![d] = Tail(@)] ELSE freeList
        /\ free' = [free EXCEPT ![d][b] = FALSE]
        /\ pagesUsed' = [pagesUsed EXCEPT ![d][b] = @ + 1]
        /\ logicalSlice' = [logicalSlice EXCEPT ![l] = w]
        /\ virtualSlice' = [virtualSlice EXCEPT ![w] = l]
        /\ UNCHANGED <<invalidSliceCnt, victimList>>
  /\ UNCHANGED <<targetDie, lsa, victim>>

\* Mutant: the page counter is kept.
EraseBlockKeepPage ==
  LET d == targetDie IN
  /\ phase = "erase"
  /\ phase' = "collected"
  /\ free' = [free EXCEPT ![d][victim] = TRUE]
  /\ invalidSliceCnt' = [invalidSliceCnt EXCEPT ![d][victim] = 0]
  /\ freeList' = [freeList EXCEPT ![d] = Append(@, victim)]
  /\ virtualSlice' = [v \in Vsa |-> IF v[1] = d /\ v[2] = victim THEN NoLsa ELSE virtualSlice[v]]
  /\ UNCHANGED <<logicalSlice, pagesUsed, victimList, currentBlock, targetDie, lsa, gcVars>>

\* EraseBlock: the erase is requested, the block is free, its slices forgotten.
EraseBlock ==
  LET d == targetDie IN
  /\ phase = "erase"
  /\ phase' = "collected"
  /\ free' = [free EXCEPT ![d][victim] = TRUE]
  /\ invalidSliceCnt' = [invalidSliceCnt EXCEPT ![d][victim] = 0]
  /\ pagesUsed' = [pagesUsed EXCEPT ![d][victim] = 0]
  /\ freeList' = [freeList EXCEPT ![d] = Append(@, victim)]
  /\ virtualSlice' = [v \in Vsa |-> IF v[1] = d /\ v[2] = victim THEN NoLsa ELSE virtualSlice[v]]
  /\ UNCHANGED <<logicalSlice, victimList, currentBlock, targetDie, lsa, gcVars>>

-----------------------------------------------------------------------------
(* What the host asks for.  The code takes every write; the two constants  *)
(* leave out the workloads under which it fails (see the README).          *)

\* The valid slices of a die.
ValidOn(d) == {l \in Lsa : logicalSlice[l] # NoVsa /\ logicalSlice[l][1] = d}

\* The target die has room for the slice to be written.
Balanced == Cardinality(ValidOn(targetDie)) < (BlocksPerDie - ReservedFreeBlocks) * PagesPerBlock

\* Garbage collection would take the open block, with nothing in it to move.
OpenBlockIsVictim(d) ==
  /\ MustCollect(d)
  /\ VictimCounts(d) # {}
  /\ FullestList(d) = PagesPerBlock
  /\ Head(victimList[d][PagesPerBlock]) = currentBlock[d]

Workload == (Skewed \/ Balanced) /\ (OpenVictim \/ ~OpenBlockIsVictim(targetDie))

-----------------------------------------------------------------------------
\* InitAddressMap and InitGcVictimMap: every block is free, and the first of
\* each die is open.
Init ==
  /\ logicalSlice = [l \in Lsa |-> NoVsa]
  /\ virtualSlice = [v \in Vsa |-> NoLsa]
  /\ free = [d \in Die |-> [b \in Block |-> b # 0]]
  /\ invalidSliceCnt = [d \in Die |-> [b \in Block |-> 0]]
  /\ pagesUsed = [d \in Die |-> [b \in Block |-> 0]]
  /\ freeList = [d \in Die |-> [i \in 1..(BlocksPerDie - 1) |-> i]]
  /\ victimList = [d \in Die |-> [n \in 0..PagesPerBlock |-> <<>>]]
  /\ currentBlock = [d \in Die |-> 0]
  /\ targetDie = 0
  /\ phase = "idle"
  /\ lsa = NoLsa
  /\ victim = 0
  /\ gcPage = 0

\* What goes on inside AddrTransWrite after its first call.
Continue == OpenBlock \/ GiveSlice \/ GarbageCollection \/ CopyPage \/ EraseBlock

Next == (\E l \in Lsa : AddrTransWrite(l) /\ Workload') \/ Continue

Spec == Init /\ [][Next]_vars

FairSpec == Spec /\ WF_vars(Continue)

-----------------------------------------------------------------------------
\* The state functions keep to their sets; a page number never reaches
\* PagesPerBlock, where it would address the next block.
TypeOK ==
  /\ logicalSlice \in [Lsa -> Vsa \cup {NoVsa}]
  /\ virtualSlice \in [Vsa -> Lsa \cup {NoLsa}]
  /\ free \in [Die -> [Block -> BOOLEAN]]
  /\ invalidSliceCnt \in [Die -> [Block -> 0..PagesPerBlock]]
  /\ pagesUsed \in [Die -> [Block -> 0..PagesPerBlock]]
  /\ freeList \in [Die -> Seq(Block)]
  /\ victimList \in [Die -> [0..PagesPerBlock -> Seq(Block)]]
  /\ currentBlock \in [Die -> Block]
  /\ targetDie \in Die
  /\ phase \in Phase
  /\ lsa \in Lsa \cup {NoLsa}
  /\ victim \in Block
  /\ gcPage \in Page

\* The two maps agree: the place of a logical slice was given out, is not free
\* for another use, and is recorded as holding that slice; so no two logical
\* slices share a place (address_translation.c, AddrTransWrite).
MapsAgree ==
  \A l \in Lsa : LET v == logicalSlice[l] IN
    v # NoVsa => /\ virtualSlice[v] = l
                 /\ v[3] < pagesUsed[v[1]][v[2]]
                 /\ ~free[v[1]][v[2]]

\* The free bit says what address_translation.h says of it: a block has it
\* exactly while it is in the free list of its die, once, and then it is not
\* the open block and none of its pages is given out.
FreeBlocksUnused ==
  \A d \in Die :
    /\ \A b \in Block : free[d][b] <=> b \in ToSet(freeList[d])
    /\ \A i, j \in 1..Len(freeList[d]) : freeList[d][i] = freeList[d][j] => i = j
    /\ \A b \in Block : free[d][b] => pagesUsed[d][b] = 0 /\ b # currentBlock[d]

\* Garbage collection works on block b of die d.
Collecting(d, b) == phase \in {"copy", "erase"} /\ d = targetDie /\ b = victim

\* invalidSliceCnt counts the pages of a block that were given out and are the
\* place of no slice any more; garbage collection chooses by it.
InvalidCountExact ==
  \A d \in Die, b \in Block : ~Collecting(d, b) =>
    invalidSliceCnt[d][b] =
      Cardinality({p \in Page : p < pagesUsed[d][b] /\ ~ValidPage(<<d, b, p>>)})

\* The counts are exact, and a block with invalid slices is in the victim list
\* of its count, once, and in no other: none is lost to garbage collection or collected twice
\* (garbage_collection.c, the victim lists).
VictimListsExact ==
  /\ InvalidCountExact
  /\ \A d \in Die, n \in 1..PagesPerBlock :
      /\ \A b \in Block : b \in ToSet(victimList[d][n]) <=>
           invalidSliceCnt[d][b] = n /\ ~Collecting(d, b)
      /\ \A i, j \in 1..Len(victimList[d][n]) :
           victimList[d][n][i] = victimList[d][n][j] => i = j

\* No assertion fails: as long as each die can hold its valid slices in all
\* blocks but the reserve, a victim and a block to copy to are always found.
NeverAborts == ~AssertFails

\* The block that is erased has all its pages given out, so the erase request
\* waits in the request layer for all of them (EraseBlock, programmedPageCnt).
VictimIsFull ==
  phase \in {"copy", "erase"} => pagesUsed[targetDie][victim] = PagesPerBlock

\* A page is given out once between two erases of its block: flash cannot be
\* overwritten in place.
PageGivenOnce ==
  [][\A l \in Lsa : logicalSlice'[l] # logicalSlice[l] /\ logicalSlice'[l] # NoVsa =>
       logicalSlice'[l] \in Vsa /\ virtualSlice[logicalSlice'[l]] = NoLsa]_vars

\* A write gets its page: garbage collection ends and need not be repeated.
WriteCompletes == phase # "idle" ~> phase = "idle"
=============================================================================
