------------------------------ MODULE NandAddr ------------------------------
(***************************************************************************)
(* Addresses of the flash (address_translation.h): a virtual slice address *)
(* stands for a die, a virtual block and a page; a virtual block for a     *)
(* block of the die, or for what replaces it when it is bad; and a request *)
(* reaches the flash as a row, from which the scheduler computes the block *)
(* again when the request fails (GenerateNandRowAddr and ExecuteNandReq).  *)
(***************************************************************************)
EXTENDS Integers

CONSTANTS
  UserDies,      \* USER_DIES
  LunsPerDie,    \* LUNS_PER_DIE: the code knows lun 0 and lun 1
  UserBlocks,    \* USER_BLOCKS_PER_LUN
  TotalBlocks,   \* TOTAL_BLOCKS_PER_LUN; those behind the user blocks are the reserve
  PagesPerBlock, \* PAGES_PER_MLC_BLOCK, which is SLICES_PER_BLOCK
  Lun1Base       \* LUN_1_BASE_ADDR, the first row of lun 1

Die    == 0..(UserDies - 1)
Lun    == 0..(LunsPerDie - 1)
Phy    == 0..(LunsPerDie * TotalBlocks - 1)   \* the blocks of a die
VBlock == 0..(LunsPerDie * UserBlocks - 1)    \* its virtual blocks
Page   == 0..(PagesPerBlock - 1)

ASSUME SizeAssumption == /\ LunsPerDie \in {1, 2}
                         /\ UserBlocks \in Nat \ {0} /\ TotalBlocks \in Nat
                         /\ UserBlocks <= TotalBlocks
ASSUME RowAssumption  == /\ UserDies \in Nat \ {0} /\ PagesPerBlock \in Nat \ {0}
                         /\ Lun1Base \in Nat /\ TotalBlocks * PagesPerBlock <= Lun1Base

\* Vorg2VsaTranslation: neighbours lie on different dies.
Vorg2Vsa(d, v, page) == d + UserDies * (v * PagesPerBlock + page)

Vsa2Vdie(vsa)   == vsa % UserDies
Vsa2Vblock(vsa) == (vsa \div UserDies) \div PagesPerBlock
Vsa2Vpage(vsa)  == (vsa \div UserDies) % PagesPerBlock

LunOf(p) == p \div TotalBlocks
EndOf(l) == (l + 1) * TotalBlocks

\* The block of the die a virtual block stands for, Vblock2PblockOfTbsTranslation.
PhyOf(v) == ((v \div UserBlocks) * TotalBlocks) + (v % UserBlocks)

\* The row of a page of block b of lun l.
Row(l, b, page) == (IF l = 0 THEN 0 ELSE Lun1Base) + b * PagesPerBlock + page

\* The row of a virtual slice, by a map of the blocks of each die: the lun is
\* that of the block before it is replaced, the block that of its substitute.
GenerateNandRowAddr(vsa, map) ==
  LET p == PhyOf(Vsa2Vblock(vsa)) IN
  Row(LunOf(p), map[Vsa2Vdie(vsa)][p] % TotalBlocks, Vsa2Vpage(vsa))

\* The block of a row.
RowBlock(row) == ((row % Lun1Base) \div PagesPerBlock) + ((row \div Lun1Base) * TotalBlocks)
=============================================================================
