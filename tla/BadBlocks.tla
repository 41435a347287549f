----------------------------- MODULE BadBlocks -----------------------------
(***************************************************************************)
(* The bad blocks of the flash: the table of them kept in one block of     *)
(* each die, the boot that reads it or makes it anew and maps virtual      *)
(* blocks around bad ones, the blocks that fail while the device runs, and *)
(* the shutdown that saves them (address_translation.c).  The power may go *)
(* at any time.                                                            *)
(***************************************************************************)
EXTENDS NandAddr, FiniteSets, FiniteSetsExt

CONSTANTS
  FactoryBad,    \* the blocks of a die that carry the maker's mark
  Garbage,       \* the sets of bad blocks that memory nobody wrote may spell
  MaxFailures    \* bound: operations that fail in a behaviour

Table == 0   \* bbtInfo.phyBlock, which nothing changes

ASSUME DieAssumption  == FactoryBad \in [Die -> SUBSET Phy]
ASSUME FailAssumption == MaxFailures \in Nat /\ Garbage \subseteq SUBSET Phy

VARIABLES
  \* in the flash
  clean,           \* the blocks whose four marked bytes read 0xFF
  table,           \* the page of the table: its state and the blocks it calls bad
  \* in memory
  bad,             \* phyBlock[d][p].bad, as the set of those blocks
  booked,          \* the dies with grownBadUpdate BOOKED
  remapped,        \* phyBlock[d][p].remappedPhyBlock
  vbad,            \* virtualBlock[d][v].bad, as a set: not in the free list
  lost,            \* maxBadBlockCount, by which the capacity is reduced
  \* of the functions that run
  pc, remake, blockNo, erased, dieState, image, todo, reserved, badBlockCount,
  failures,        \* operations that failed so far
  \* of the properties
  told,            \* the blocks that were found bad and not legitimately forgotten
  atShutdown,      \* told, when the shutdown in progress began
  kept,            \* told, when the last shutdown that was completed began
  stale            \* dies with a table, here or in the flash, read where none was

flashVars == <<clean, table>>
mapVars   == <<remapped, vbad, lost>>
badVars   == <<bad, booked>>
remapVars == <<reserved, badBlockCount>>
saveVars  == <<dieState, image, todo>>
pastVars  == <<told, atShutdown, kept, stale>>
vars == <<flashVars, mapVars, badVars, remapVars, saveVars, pastVars,
          pc, remake, blockNo, erased, failures>>

Phase == {"off", "erase_total", "read", "scan", "save", "mark", "remap", "erase_user",
          "run", "flush", "down"}
DieState == {"NOT_EXIST", "EXIST", "HOLD", "UPDATE"}

Erased     == [state |-> "erased", bad |-> {}]
Torn       == [state |-> "torn", bad |-> {}]
Written(S) == [state |-> "written", bad |-> S]

\* Memory without power; nothing of it is read before it is set.
NoMemory ==
  [bad |-> [d \in Die |-> {}], remapped |-> [d \in Die |-> [p \in Phy |-> p]],
   dieState |-> [d \in Die |-> "HOLD"], todo |-> [d \in Die |-> "done"],
   reserved |-> [d \in Die |-> [l \in Lun |-> 0]], zero |-> [d \in Die |-> 0]]

\* A new device: every block without the maker's mark is erased.
Init ==
  /\ clean = [d \in Die |-> Phy \ FactoryBad[d]]
  /\ table = [d \in Die |-> Erased]
  /\ bad = NoMemory.bad /\ booked = {}
  /\ remapped = NoMemory.remapped /\ vbad = NoMemory.bad /\ lost = 0
  /\ pc = "off" /\ remake = FALSE /\ blockNo = 0 /\ erased = NoMemory.zero
  /\ dieState = NoMemory.dieState /\ image = NoMemory.bad /\ todo = NoMemory.todo
  /\ reserved = NoMemory.reserved /\ badBlockCount = NoMemory.zero
  /\ failures = 0
  /\ told = NoMemory.bad /\ atShutdown = NoMemory.bad /\ kept = NoMemory.bad
  /\ stale = {}

-----------------------------------------------------------------------------
(* Operations of the flash.                                                *)

\* The block a request for a page of a virtual block works on, and the one its
\* failure is recorded against.
BlockOf(d, v, page) == RowBlock(GenerateNandRowAddr(Vorg2Vsa(d, v, page), remapped))

\* A block that fails for good is marked, and its die booked.
\* Mutant: the die is not booked.
UpdatePhyBlockMapUnbooked(d, p) ==
  /\ failures' = IF p \in FactoryBad[d] THEN failures ELSE failures + 1
  /\ failures' <= MaxFailures
  /\ bad' = [bad EXCEPT ![d] = @ \cup {p}]
  /\ UNCHANGED booked
  /\ told' = [told EXCEPT ![d] = @ \cup {p}]
UpdatePhyBlockMapForGrownBadBlock(d, p) ==
  /\ failures' = IF p \in FactoryBad[d] THEN failures ELSE failures + 1
  /\ failures' <= MaxFailures
  /\ bad' = [bad EXCEPT ![d] = @ \cup {p}]
  /\ booked' = booked \cup {d}
  /\ told' = [told EXCEPT ![d] = @ \cup {p}]

\* An erase: a block with the maker's mark cannot be erased. Of the block of the
\* table, one that fails may leave anything.
EraseBlock(d, p) ==
  \/ /\ p \notin FactoryBad[d]
     /\ clean' = [clean EXCEPT ![d] = @ \cup {p}]
     /\ table' = IF p = Table THEN [table EXCEPT ![d] = Erased] ELSE table
     /\ UNCHANGED <<badVars, told, failures>>
  \/ /\ UpdatePhyBlockMapForGrownBadBlock(d, p)
     /\ \/ UNCHANGED table
        \/ p = Table /\ table[d] # Erased /\ table' = [table EXCEPT ![d] = Torn]
     /\ UNCHANGED clean

-----------------------------------------------------------------------------
(* Boot.                                                                   *)

\* InitAddressMap starts; 'X' on the console asks for a new table (InitBlockDieMap).
PowerOn ==
  /\ pc = "off"
  /\ remake' \in BOOLEAN
  /\ pc' = IF remake' THEN "erase_total" ELSE "read"
  /\ UNCHANGED <<flashVars, mapVars, badVars, remapVars, saveVars, pastVars,
                 blockNo, erased, failures>>

EraseTotalBlockSpace ==
  /\ pc = "erase_total"
  /\ UNCHANGED <<mapVars, remapVars, saveVars, atShutdown, kept, stale, remake, blockNo>>
  /\ \/ \E d \in Die :
          /\ erased[d] \in Phy
          /\ EraseBlock(d, erased[d])
          /\ erased' = [erased EXCEPT ![d] = @ + 1]
          /\ UNCHANGED pc
     \/ /\ \A d \in Die : erased[d] \notin Phy
        /\ erased' = NoMemory.zero
        /\ pc' = "read"
        /\ UNCHANGED <<flashVars, badVars, told, failures>>

\* What the page of the table reads as. A page that was not written to its end
\* cannot be read, and the buffer keeps what memory happened to hold.
Readings(d, fails) ==
  IF fails \/ table[d].state = "torn" THEN BOOLEAN \X Garbage
  ELSE {<<table[d].state = "written", table[d].bad>>}

\* RecoverBadBlockTable, as far as the tables that exist: a table exists when
\* its first byte is a block state.
ReadBadBlockTable(failed) ==
  /\ pc = "read"
  /\ failures' = failures + Cardinality(failed) /\ failures' <= MaxFailures
  /\ \E r \in [Die -> BOOLEAN \X SUBSET Phy] :
       /\ \A d \in Die : r[d] \in Readings(d, d \in failed)
       /\ bad' = [d \in Die |-> IF r[d][1] THEN r[d][2]
                               ELSE IF d \in failed THEN bad[d] \cup {Table} ELSE bad[d]]
       /\ dieState' = [d \in Die |-> IF r[d][1] THEN "EXIST" ELSE "NOT_EXIST"]
       /\ pc' = IF \A d \in Die : r[d][1] THEN "mark" ELSE "scan"
  /\ LET sound == {d \in Die : table[d].state = "written" /\ d \notin failed} IN
     /\ kept' = [d \in Die |-> IF d \in sound THEN kept[d] ELSE {}]
     /\ told' = kept'
     /\ stale' = {d \in Die : \/ dieState'[d] = "EXIST" /\ d \notin sound
                              \/ d \in stale /\ table[d].state = "written"}
  /\ booked' = booked \cup failed
  /\ UNCHANGED <<flashVars, mapVars, remapVars, image, todo, atShutdown,
                 remake, blockNo, erased>>

\* A block is bad when one of its marked bytes is not 0xFF, or cannot be read.
\* Dies that have no table are scanned, block by block.
Scanned == {d \in Die : dieState[d] = "NOT_EXIST"}
FoundBad(failed) == {d \in Scanned : blockNo \notin clean[d] \/ d \in failed}
Noted(f, failed) ==
  [d \in Die |-> IF d \in FoundBad(failed) THEN f[d] \cup {blockNo}
                ELSE IF d \in Scanned THEN f[d] \ {blockNo} ELSE f[d]]

FindBadBlock(failed) ==
  /\ pc = "scan"
  /\ failed \subseteq Scanned
  /\ failures' = failures + Cardinality(failed) /\ failures' <= MaxFailures
  /\ bad' = Noted(bad, failed) /\ image' = Noted(image, failed)
  /\ told' = [d \in Die |-> IF d \in FoundBad(failed) THEN told[d] \cup {blockNo} ELSE told[d]]
  /\ booked' = booked \cup failed
  /\ \/ blockNo + 1 \in Phy /\ blockNo' = blockNo + 1 /\ UNCHANGED <<pc, todo>>
     \/ /\ blockNo + 1 \notin Phy /\ blockNo' = 0
        /\ pc' = "save"
        /\ todo' = [d \in Die |-> IF d \in Scanned THEN "erase" ELSE "done"]
  /\ UNCHANGED <<flashVars, mapVars, remapVars, dieState, atShutdown, kept, stale, remake, erased>>

\* SaveBadBlockTable makes two requests for a die with a new table, which its
\* queue keeps in order: the block is erased, then its page written.
SaveErase(d) ==
  /\ pc \in {"save", "flush"} /\ todo[d] = "erase"
  /\ EraseBlock(d, Table)
  /\ todo' = [todo EXCEPT ![d] = "write"]
  /\ UNCHANGED <<mapVars, remapVars, dieState, image, atShutdown, kept, stale,
                 pc, remake, blockNo, erased>>

SaveWrite(d) ==
  /\ pc \in {"save", "flush"} /\ todo[d] = "write"
  /\ \/ /\ table' = [table EXCEPT ![d] = IF table[d] = Erased THEN Written(image[d]) ELSE Torn]
        /\ UNCHANGED <<badVars, told, failures>>
     \/ /\ UpdatePhyBlockMapForGrownBadBlock(d, Table)
        /\ table' = [table EXCEPT ![d] = Torn]
  /\ todo' = [todo EXCEPT ![d] = "done"]
  /\ stale' = IF pc = "save" THEN stale \ {d} ELSE stale
  /\ UNCHANGED <<clean, mapVars, remapVars, dieState, image, atShutdown, kept,
                 pc, remake, blockNo, erased>>

\* RecoverBadBlockTable returns, the saves it needed being done: no die is
\* booked. The block of the table counts as bad, so that it is mapped around.
MarkTableBlocks ==
  /\ \/ pc = "mark"
     \/ pc = "save" /\ \A d \in Die : todo[d] = "done"
  /\ pc' = "remap" /\ blockNo' = 0
  /\ booked' = {}
  /\ bad' = [d \in Die |-> bad[d] \cup {Table}]
  /\ reserved' = [d \in Die |-> [l \in Lun |-> l * TotalBlocks + UserBlocks]]
  /\ badBlockCount' = NoMemory.zero
  /\ image' = NoMemory.bad
  /\ UNCHANGED <<flashVars, mapVars, dieState, todo, pastVars, remake, erased, failures>>

\* The good blocks left in the reserve of a LUN.
\* Mutant: the bad ones too.
GoodUnchecked(d, l) == reserved[d][l]..(EndOf(l) - 1)
Good(d, l) == {r \in reserved[d][l]..(EndOf(l) - 1) : r \notin bad[d]}

\* Where the search for the next one goes on.
\* Mutant: on the block that was taken.
NextReservedSame(d, l) ==
  IF Good(d, l) = {} THEN EndOf(l) ELSE Min(Good(d, l))
NextReserved(d, l) == IF Good(d, l) = {} THEN EndOf(l) ELSE Min(Good(d, l)) + 1

\* RemapBadBlock, one round of its loop: the user block of this number of each
\* LUN of each die, if bad, is replaced by the next good block of the reserve.
RemapBadBlock ==
  LET isBad(d, l) == l * TotalBlocks + blockNo \in bad[d] IN
  /\ pc = "remap" /\ blockNo < UserBlocks
  /\ remapped' = [d \in Die |-> [p \in Phy |->
       IF p = LunOf(p) * TotalBlocks + blockNo /\ p \in bad[d] /\ Good(d, LunOf(p)) # {}
       THEN Min(Good(d, LunOf(p))) ELSE remapped[d][p]]]
  /\ reserved' = [d \in Die |-> [l \in Lun |->
       IF isBad(d, l) THEN NextReserved(d, l) ELSE reserved[d][l]]]
  /\ badBlockCount' = [d \in Die |->
       badBlockCount[d] + Cardinality({l \in Lun : isBad(d, l) /\ Good(d, l) = {}})]
  /\ blockNo' = blockNo + 1
  /\ UNCHANGED <<flashVars, badVars, vbad, lost, saveVars, pastVars, pc, remake, erased, failures>>

\* The blocks without a substitute, on the die that has most of them.
MaxBadBlockCount == Max({0} \cup {badBlockCount[d] : d \in Die})

\* The end of RemapBadBlock, and InitBlockMap: a virtual block is as good as
\* the block it lies on, and only good ones enter the free list.
InitBlockMap ==
  /\ pc = "remap" /\ blockNo = UserBlocks
  /\ lost' = MaxBadBlockCount
  /\ vbad' = [d \in Die |-> {v \in VBlock : remapped[d][PhyOf(v)] \in bad[d]}]
  /\ pc' = IF remake THEN "run" ELSE "erase_user"
  /\ blockNo' = 0
  /\ reserved' = NoMemory.reserved /\ badBlockCount' = NoMemory.zero
  /\ UNCHANGED <<flashVars, badVars, remapped, saveVars, pastVars, remake, erased, failures>>

EraseUserBlockSpace ==
  /\ pc = "erase_user"
  /\ UNCHANGED <<mapVars, remapVars, saveVars, atShutdown, kept, stale, remake, blockNo>>
  /\ \/ \E d \in Die :
          /\ erased[d] \in VBlock
          /\ erased' = [erased EXCEPT ![d] = @ + 1]
          /\ IF erased[d] \in vbad[d] THEN UNCHANGED <<flashVars, badVars, told, failures>>
             ELSE EraseBlock(d, BlockOf(d, erased[d], 0))
          /\ UNCHANGED pc
     \/ /\ \A d \in Die : erased[d] \notin VBlock
        /\ erased' = NoMemory.zero
        /\ pc' = "run"
        /\ UNCHANGED <<flashVars, badVars, told, failures>>

-----------------------------------------------------------------------------
(* The running device, its shutdown, and the power.                        *)

\* An operation on a block in use, of a garbage collection or for the host: what
\* it leaves in the marked bytes depends on the data, but for a maker's mark, which
\* no erase removes; one that fails for good, or warns of its errors, books the
\* block (ExecuteNandReq).
UseBlock(d, v, page) ==
  LET p == BlockOf(d, v, page) IN
  /\ pc \in {"run", "flush"}
  /\ v \notin vbad[d]
  /\ \E c \in {clean[d] \cup ({p} \ FactoryBad[d]), clean[d] \ {p}} :
       clean' = [clean EXCEPT ![d] = c]
  /\ \/ UNCHANGED <<badVars, told, failures>>
     \/ UpdatePhyBlockMapForGrownBadBlock(d, p)
  /\ UNCHANGED <<table, mapVars, remapVars, saveVars, atShutdown, kept, stale,
                 pc, remake, blockNo, erased>>

\* The shutdown calls UpdateBadBlockTableForGrownBadBlock: new tables are made of
\* what is known now.
Shutdown ==
  /\ pc = "run"
  /\ dieState' = [d \in Die |-> IF d \in booked THEN "UPDATE" ELSE "HOLD"]
  /\ image' = [d \in Die |-> IF d \in booked THEN bad[d] \ {Table} ELSE {}]
  /\ todo' = [d \in Die |-> IF d \in booked THEN "erase" ELSE "done"]
  /\ pc' = "flush"
  /\ atShutdown' = told
  /\ UNCHANGED <<flashVars, mapVars, badVars, remapVars, told, kept, stale,
                 remake, blockNo, erased, failures>>

ShutdownDone ==
  /\ pc = "flush" /\ \A d \in Die : todo[d] = "done"
  /\ pc' = "down"
  /\ kept' = [d \in Die |-> IF table[d].state = "written" THEN atShutdown[d] ELSE {}]
  /\ atShutdown' = NoMemory.bad /\ image' = NoMemory.bad /\ dieState' = NoMemory.dieState
  /\ UNCHANGED <<flashVars, mapVars, badVars, remapVars, todo, told, stale,
                 remake, blockNo, erased, failures>>

\* The host resets the controller and goes on.
Resume ==
  /\ pc = "down" /\ pc' = "run"
  /\ UNCHANGED <<flashVars, mapVars, badVars, remapVars, saveVars, pastVars,
                 remake, blockNo, erased, failures>>

\* The power goes: an erase or write of a table that is under way is left half
\* done, and memory is lost.
BeingChanged(d) ==
  \/ (pc \in {"save", "flush"} /\ todo[d] # "done")
  \/ (pc = "erase_total" /\ erased[d] = Table)
PowerCut ==
  /\ pc # "off" /\ pc' = "off"
  /\ \E cut \in SUBSET {d \in Die : BeingChanged(d)} :
       table' = [d \in Die |-> IF d \in cut THEN Torn ELSE table[d]]
  /\ bad' = NoMemory.bad /\ booked' = {}
  /\ remapped' = NoMemory.remapped /\ vbad' = NoMemory.bad /\ lost' = 0
  /\ remake' = FALSE /\ blockNo' = 0 /\ erased' = NoMemory.zero
  /\ dieState' = NoMemory.dieState /\ image' = NoMemory.bad /\ todo' = NoMemory.todo
  /\ reserved' = NoMemory.reserved /\ badBlockCount' = NoMemory.zero
  /\ atShutdown' = NoMemory.bad /\ told' = NoMemory.bad
  /\ UNCHANGED <<clean, kept, stale, failures>>

Next ==
  \/ PowerOn \/ EraseTotalBlockSpace
  \/ \E failed \in SUBSET Die : ReadBadBlockTable(failed) \/ FindBadBlock(failed)
  \/ \E d \in Die : SaveErase(d) \/ SaveWrite(d)
  \/ MarkTableBlocks \/ RemapBadBlock \/ InitBlockMap \/ EraseUserBlockSpace
  \/ \E d \in Die, v \in VBlock, page \in Page : UseBlock(d, v, page)
  \/ Shutdown \/ ShutdownDone \/ Resume \/ PowerCut

Spec == Init /\ [][Next]_vars

-----------------------------------------------------------------------------
TypeOK ==
  /\ clean \in [Die -> SUBSET Phy]
  /\ table \in [Die -> [state : {"erased", "torn", "written"}, bad : SUBSET Phy]]
  /\ bad \in [Die -> SUBSET Phy] /\ booked \subseteq Die
  /\ remapped \in [Die -> [Phy -> Phy]] /\ vbad \in [Die -> SUBSET VBlock] /\ lost \in Nat
  /\ pc \in Phase /\ remake \in BOOLEAN
  /\ blockNo \in Nat /\ erased \in [Die -> Nat]
  /\ dieState \in [Die -> DieState]
  /\ image \in [Die -> SUBSET Phy] /\ todo \in [Die -> {"erase", "write", "done"}]
  /\ reserved \in [Die -> [Lun -> Nat]] /\ badBlockCount \in [Die -> Nat]
  /\ failures \in 0..MaxFailures
  /\ told \in [Die -> SUBSET Phy] /\ atShutdown \in [Die -> SUBSET Phy]
  /\ kept \in [Die -> SUBSET Phy] /\ stale \subseteq Die

\* The map of the blocks is built.
Mapped == pc \in {"erase_user", "run", "flush", "down"}

\* The virtual blocks in use, and the block one lies on.
Usable(d) == VBlock \ vbad[d]
Place(d, v) == remapped[d][PhyOf(v)]

\* No two virtual blocks in use lie on the same block, whatever blocks are bad,
\* and none on the block of the table; and the requests for each of its pages,
\* and their failures, find the block it lies on (GenerateNandRowAddr takes the
\* LUN from the block before it is replaced, ExecuteNandReq the block from the row).
BlocksApart ==
  Mapped => \A d \in Die : \A v \in Usable(d) :
    /\ Place(d, v) # Table
    /\ \A page \in Page : BlockOf(d, v, page) = Place(d, v)
    /\ \A w \in Usable(d) : Place(d, v) = Place(d, w) => v = w

\* Every failure is on record: what memory calls bad is in the table, or its die
\* is booked for the next shutdown (bbtInfo.grownBadUpdate), whatever the boot
\* remade and however the flush and failures during it interleave.
SavedOrBooked ==
  Mapped => \A d \in Die \ (booked \cup stale) :
    table[d].state = "written" => bad[d] \ {Table} \subseteq table[d].bad

\* Each die has the blocks the capacity is computed from (mbPerbadBlockSpace,
\* the bad blocks of the worst die).
CapacityBacked ==
  Mapped => \A d \in Die : Cardinality(Usable(d)) >= Cardinality(VBlock) - lost

\* A boot puts no virtual block on a block that had failed before the last
\* shutdown that was completed, nor, unless a table that could not be read was
\* believed, on one with the maker's mark.
BootAvoidsBadBlocks ==
  [][~Mapped /\ Mapped' => \A d \in Die : \A v \in VBlock \ vbad'[d] :
       /\ Place(d, v) \notin kept[d]
       /\ d \notin stale => Place(d, v) \notin FactoryBad[d]]_vars
=============================================================================
