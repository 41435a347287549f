-------------------------- MODULE BadBlocks_proofs --------------------------
(***************************************************************************)
(* BadBlocks: for any dies, sizes and bad blocks, the virtual blocks in    *)
(* use lie apart, the capacity is backed, and no failure is forgotten.     *)
(***************************************************************************)
EXTENDS BadBlocks, CommonLemmas, FiniteSetTheorems, WellFoundedInduction, TLAPS

-----------------------------------------------------------------------------
(* Addresses and rows lose nothing (NandAddr).                             *)

\* The virtual slice address of a die, virtual block and page stands for these
\* three and no others, so that two slices never share an address
\* (Vorg2VsaTranslation and the Vsa2V... translations).
THEOREM VsaRoundTrip ==
  ASSUME NEW d \in Die, NEW v \in Nat, NEW page \in Page
  PROVE  /\ Vsa2Vdie(Vorg2Vsa(d, v, page)) = d
         /\ Vsa2Vblock(Vorg2Vsa(d, v, page)) = v
         /\ Vsa2Vpage(Vorg2Vsa(d, v, page)) = page
<1> DEFINE g == PagesPerBlock * v + page
<1>1. /\ UserDies \in Nat /\ UserDies > 0 /\ PagesPerBlock \in Nat /\ PagesPerBlock > 0
      /\ d \in 0..(UserDies - 1) /\ page \in 0..(PagesPerBlock - 1)
  BY RowAssumption DEF Die, Page
<1>2. g \in Nat
  <2>1. PagesPerBlock * v \in Nat
    BY <1>1, SMT
  <2> QED BY <1>1, <2>1
<1>3. Vorg2Vsa(d, v, page) = UserDies * g + d
  <2>1. v * PagesPerBlock = PagesPerBlock * v
    BY <1>1, SMT
  <2>2. Vorg2Vsa(d, v, page) = d + UserDies * g
    BY <2>1 DEF Vorg2Vsa
  <2>3. UserDies * g \in Nat
    <3> HIDE DEF g
    <3> QED BY <1>1, <1>2, SMT
  <2> HIDE DEF g
  <2> QED BY <1>1, <2>2, <2>3
<1>4. g \div PagesPerBlock = v /\ g % PagesPerBlock = page
  BY <1>1, TurnAndPlace
<1> HIDE DEF g
<1>5. (UserDies * g + d) \div UserDies = g /\ (UserDies * g + d) % UserDies = d
  BY <1>1, <1>2, TurnAndPlace
<1> QED BY <1>3, <1>4, <1>5 DEF Vsa2Vdie, Vsa2Vblock, Vsa2Vpage

\* From the row of any page of a block of a LUN, the block is found again; no
\* page of LUN 0 reaches the rows of LUN 1 (GenerateNandRowAddr, ExecuteNandReq).
THEOREM RowRoundTrip ==
  ASSUME NEW l \in Lun, NEW b \in 0..(TotalBlocks - 1), NEW page \in Page
  PROVE  RowBlock(Row(l, b, page)) = l * TotalBlocks + b
<1> DEFINE in == PagesPerBlock * b + page
<1>1. /\ PagesPerBlock \in Nat /\ PagesPerBlock > 0 /\ page \in 0..(PagesPerBlock - 1)
      /\ TotalBlocks \in Nat /\ TotalBlocks > 0 /\ l \in {0, 1} /\ b \in Nat /\ b < TotalBlocks
  BY SizeAssumption, RowAssumption DEF Page, Lun
<1>2. Lun1Base \in Nat /\ PagesPerBlock * TotalBlocks <= Lun1Base
  <2>1. TotalBlocks * PagesPerBlock = PagesPerBlock * TotalBlocks
    BY <1>1, SMT
  <2> QED BY <2>1, RowAssumption
<1>3. PagesPerBlock * b + PagesPerBlock <= PagesPerBlock * TotalBlocks
  BY <1>1, NextTurn
<1>4. PagesPerBlock * b \in Nat /\ PagesPerBlock * TotalBlocks \in Nat
  BY <1>1, SMT
<1>5. in \in 0..(Lun1Base - 1) /\ Lun1Base > 0
  BY <1>1, <1>2, <1>3, <1>4
<1>6. in \div PagesPerBlock = b
  BY <1>1, TurnAndPlace
<1>7. Row(l, b, page) = Lun1Base * l + in
  <2>1. b * PagesPerBlock = PagesPerBlock * b
    BY <1>1, SMT
  <2>2. Row(l, b, page) = (IF l = 0 THEN 0 ELSE Lun1Base) + PagesPerBlock * b + page
    BY <2>1 DEF Row
  <2> QED BY <1>1, <1>2, <1>4, <2>2
<1> HIDE DEF in
<1>8. (Lun1Base * l + in) \div Lun1Base = l /\ (Lun1Base * l + in) % Lun1Base = in
  BY <1>1, <1>2, <1>5, TurnAndPlace
<1>9. RowBlock(Row(l, b, page)) = b + l * TotalBlocks
  BY <1>6, <1>7, <1>8 DEF RowBlock
<1>10. l * TotalBlocks \in Nat
  BY <1>1
<1> QED BY <1>1, <1>9, <1>10

-----------------------------------------------------------------------------
(* Sizes and blocks.                                                       *)

\* The sizes, from their assumptions.
LEMMA Sizes ==
  /\ UserBlocks \in Nat /\ UserBlocks > 0 /\ TotalBlocks \in Nat /\ UserBlocks <= TotalBlocks
  /\ TotalBlocks > 0
  /\ LunsPerDie \in {1, 2}
  /\ Lun \subseteq {0, 1} /\ 0 \in Lun /\ Lun \subseteq Nat
  /\ Table \in Phy
<1>1. /\ UserBlocks \in Nat /\ UserBlocks > 0 /\ TotalBlocks \in Nat
      /\ UserBlocks <= TotalBlocks /\ LunsPerDie \in {1, 2}
  BY SizeAssumption
<1>2. TotalBlocks > 0
  BY <1>1
<1>3. Lun \subseteq {0, 1} /\ 0 \in Lun
  BY <1>1 DEF Lun
<1>4. Table \in Phy
  <2>1. CASE LunsPerDie = 1
    BY <1>1, <1>2, <2>1 DEF Table, Phy
  <2>2. CASE LunsPerDie = 2
    BY <1>1, <1>2, <2>2 DEF Table, Phy
  <2> QED BY <1>1, <2>1, <2>2
<1> QED BY <1>1, <1>2, <1>3, <1>4

\* There are finitely many dies.
LEMMA DieFinite == IsFiniteSet(Die)
<1>1. 0 \in Int /\ UserDies - 1 \in Int
  BY RowAssumption
<1> QED BY <1>1, FS_Interval DEF Die

\* The blocks of a LUN.
LEMMA BlocksOfLun ==
  ASSUME NEW l \in Lun, NEW p \in (l * TotalBlocks)..(EndOf(l) - 1)
  PROVE  p \in Phy /\ LunOf(p) = l
<1>1. /\ TotalBlocks \in Nat /\ TotalBlocks > 0 /\ LunsPerDie \in {1, 2} /\ l \in {0, 1}
      /\ l \in 0..(LunsPerDie - 1)
  BY Sizes DEF Lun
<1>2. p \in Phy
  <2>1. CASE l = 0 /\ LunsPerDie = 1
    BY <1>1, <2>1 DEF EndOf, Phy
  <2>2. CASE l = 0 /\ LunsPerDie = 2
    BY <1>1, <2>2 DEF EndOf, Phy
  <2>3. CASE l = 1
    <3>1. LunsPerDie = 2
      BY <1>1, <2>3
    <3> QED BY <1>1, <2>3, <3>1 DEF EndOf, Phy
  <2> QED BY <1>1, <2>1, <2>2, <2>3
<1>3. LunOf(p) = l
  <2> DEFINE q == p \div TotalBlocks  r == p % TotalBlocks  s == p - l * TotalBlocks
  <2>1. p \in Nat /\ s \in 0..(TotalBlocks - 1) /\ p = TotalBlocks * l + s /\ l \in Nat
    <3>1. CASE l = 0
      BY <1>1, <3>1 DEF EndOf
    <3>2. CASE l = 1
      BY <1>1, <3>2 DEF EndOf
    <3> QED BY <1>1, <3>1, <3>2
  <2>2. r \in 0..(TotalBlocks - 1) /\ q \in Nat /\ p = TotalBlocks * q + r
    BY <1>1, <2>1, Division
  <2> HIDE DEF q, r, s
  <2>3. q = l
    BY <1>1, <2>1, <2>2, DivisionUnique
  <2> QED BY <2>3 DEF LunOf, q
<1> QED BY <1>2, <1>3

\* A block lies in its LUN.
LEMMA LunOfBlock ==
  ASSUME NEW p \in Phy
  PROVE  LunOf(p) \in Lun /\ p \in (LunOf(p) * TotalBlocks)..(EndOf(LunOf(p)) - 1)
<1>1. TotalBlocks \in Nat /\ TotalBlocks > 0 /\ LunsPerDie \in {1, 2}
  BY Sizes
<1>2. CASE p < TotalBlocks
  <2>1. 0 \in Lun /\ p \in (0 * TotalBlocks)..(EndOf(0) - 1)
    BY <1>1, <1>2, Sizes DEF EndOf, Phy
  <2>2. LunOf(p) = 0
    BY <2>1, BlocksOfLun
  <2> QED BY <2>1, <2>2
<1>3. CASE p >= TotalBlocks
  <2>0. LunsPerDie = 2
    <3>1. CASE LunsPerDie = 1
      BY <1>1, <1>3, <3>1 DEF Phy
    <3> QED BY <1>1, <3>1
  <2>1. 1 \in Lun /\ p \in (1 * TotalBlocks)..(EndOf(1) - 1)
    BY <1>1, <1>3, <2>0 DEF EndOf, Phy, Lun
  <2>2. LunOf(p) = 1
    BY <2>1, BlocksOfLun
  <2> QED BY <2>1, <2>2
<1>4. p \in Nat
  BY DEF Phy
<1> QED BY <1>1, <1>2, <1>3, <1>4

\* The block that number n of the user blocks of a LUN is, and what lies there.
LEMMA UserBlock ==
  ASSUME NEW l \in Lun, NEW n \in 0..(UserBlocks - 1)
  PROVE  l * TotalBlocks + n \in Phy /\ LunOf(l * TotalBlocks + n) = l
<1>1. /\ UserBlocks \in Nat /\ TotalBlocks \in Nat /\ UserBlocks <= TotalBlocks /\ l \in {0, 1}
  BY Sizes
<1>2. l * TotalBlocks + n \in (l * TotalBlocks)..(EndOf(l) - 1)
  <2>1. CASE l = 0
    BY <1>1, <2>1 DEF EndOf
  <2>2. CASE l = 1
    BY <1>1, <2>2 DEF EndOf
  <2> QED BY <1>1, <2>1, <2>2
<1> QED BY <1>2, BlocksOfLun

\* A virtual block is a number of its LUN, and so is its block.
LEMMA VirtualBlock ==
  ASSUME NEW v \in VBlock
  PROVE  \E l \in Lun, n \in 0..(UserBlocks - 1) :
           v = l * UserBlocks + n /\ n = v % UserBlocks /\ PhyOf(v) = l * TotalBlocks + n
<1> DEFINE l == v \div UserBlocks  n == v % UserBlocks
<1>1. UserBlocks \in Nat /\ UserBlocks > 0 /\ LunsPerDie \in {1, 2} /\ v \in Nat
  BY Sizes DEF VBlock
<1>2. n \in 0..(UserBlocks - 1) /\ l \in Nat /\ v = UserBlocks * l + n
  BY <1>1, Division
<1>3. PhyOf(v) = l * TotalBlocks + n
  BY DEF PhyOf
<1> HIDE DEF l
<1>4. l \in Lun
  <2>1. l < LunsPerDie
    <3> SUFFICES ASSUME l >= LunsPerDie PROVE FALSE
      BY <1>1, <1>2
    <3>1. v < LunsPerDie * UserBlocks
      BY <1>1 DEF VBlock
    <3>2. CASE LunsPerDie = 1
      <4>1. 0 < l
        BY <1>2, <3>2
      <4>2. UserBlocks * 0 + UserBlocks <= UserBlocks * l
        BY <1>1, <1>2, <4>1, NextTurn
      <4> HIDE DEF n
      <4> QED BY <1>1, <1>2, <3>1, <3>2, <4>2
    <3>3. CASE LunsPerDie = 2
      <4>1. 1 < l
        BY <1>2, <3>3
      <4>2. UserBlocks * 1 + UserBlocks <= UserBlocks * l
        BY <1>1, <1>2, <4>1, NextTurn
      <4> HIDE DEF n
      <4> QED BY <1>1, <1>2, <3>1, <3>3, <4>2
    <3> QED BY <1>1, <3>2, <3>3
  <2> QED BY <1>1, <1>2, <2>1 DEF Lun
<1>5. v = l * UserBlocks + n
  <2>1. UserBlocks * l = l * UserBlocks
    BY <1>1, <1>2
  <2> HIDE DEF n
  <2> QED BY <1>1, <1>2, <2>1
<1> QED BY <1>2, <1>3, <1>4, <1>5

\* Virtual blocks have different blocks.
LEMMA BlockOfVirtual ==
  ASSUME NEW v \in VBlock
  PROVE  /\ PhyOf(v) \in Phy
         /\ v % UserBlocks \in 0..(UserBlocks - 1)
         /\ PhyOf(v) = LunOf(PhyOf(v)) * TotalBlocks + (v % UserBlocks)
         /\ \A w \in VBlock : PhyOf(v) = PhyOf(w) => v = w
<1>1. PICK l \in Lun, n \in 0..(UserBlocks - 1) :
        v = l * UserBlocks + n /\ n = v % UserBlocks /\ PhyOf(v) = l * TotalBlocks + n
  BY VirtualBlock
<1>2. PhyOf(v) \in Phy /\ LunOf(PhyOf(v)) = l
  BY <1>1, UserBlock
<1>3. ASSUME NEW w \in VBlock, PhyOf(v) = PhyOf(w) PROVE v = w
  <2>1. PICK k \in Lun, m \in 0..(UserBlocks - 1) :
          w = k * UserBlocks + m /\ PhyOf(w) = k * TotalBlocks + m
    BY VirtualBlock
  <2>2. LunOf(PhyOf(w)) = k
    BY <2>1, UserBlock
  <2>3. k = l
    BY <1>2, <1>3, <2>2
  <2>4. m = n
    <3>1. l * TotalBlocks \in Int
      BY Sizes
    <3> QED BY <1>1, <1>3, <2>1, <2>3, <3>1, Sizes
  <2> QED BY <1>1, <2>1, <2>3, <2>4
<1> QED BY <1>1, <1>2, <1>3

-----------------------------------------------------------------------------
(* Type correctness, with the number of blocks without a substitute.       *)

\* The loops stay in their bounds: a scan starts at the first block, and in each
\* round RemapBadBlock finds at most one such block in a LUN.
CountBounded ==
  /\ pc \in {"off", "erase_total", "read"} => blockNo = 0
  /\ pc = "scan" => blockNo \in Phy
  /\ pc = "remap" => /\ blockNo <= UserBlocks
                     /\ \A d \in Die : badBlockCount[d] <= LunsPerDie * blockNo

\* Types and loop bounds together are inductive.
TInv == TypeOK /\ CountBounded

\* Memory without power has its types.
LEMMA NoMemoryType ==
  /\ NoMemory.bad \in [Die -> SUBSET Phy]
  /\ NoMemory.bad \in [Die -> SUBSET VBlock]
  /\ NoMemory.remapped \in [Die -> [Phy -> Phy]]
  /\ NoMemory.dieState \in [Die -> DieState]
  /\ NoMemory.todo \in [Die -> {"erase", "write", "done"}]
  /\ NoMemory.reserved \in [Die -> [Lun -> Nat]]
  /\ NoMemory.zero \in [Die -> Nat]
BY DEF NoMemory, DieState

\* A new device has its types.
LEMMA TypeInit ==
  ASSUME Init
  PROVE  TInv
<1>1. /\ clean \in [Die -> SUBSET Phy]
      /\ table \in [Die -> [state : {"erased", "torn", "written"}, bad : SUBSET Phy]]
  BY DEF Init, Erased
<1>2. failures \in 0..MaxFailures
  BY FailAssumption DEF Init
<1> QED BY <1>1, <1>2, NoMemoryType DEF Init, TInv, TypeOK, CountBounded, Phase

\* What an operation of the flash leaves.
FlashTypes ==
  /\ clean \in [Die -> SUBSET Phy]
  /\ table \in [Die -> [state : {"erased", "torn", "written"}, bad : SUBSET Phy]]
  /\ bad \in [Die -> SUBSET Phy] /\ booked \subseteq Die
  /\ failures \in 0..MaxFailures
  /\ told \in [Die -> SUBSET Phy]

\* A failure keeps the types of what it records.
LEMMA FailureType ==
  ASSUME TypeOK, NEW d \in Die, NEW p \in Phy, UpdatePhyBlockMapForGrownBadBlock(d, p)
  PROVE  /\ bad' \in [Die -> SUBSET Phy] /\ booked' \subseteq Die
         /\ failures' \in 0..MaxFailures /\ told' \in [Die -> SUBSET Phy]
<1>1. failures \in Nat /\ MaxFailures \in Nat
  BY FailAssumption DEF TypeOK
<1> QED BY <1>1 DEF TypeOK, UpdatePhyBlockMapForGrownBadBlock

\* An erase keeps the types of the flash.
LEMMA EraseType ==
  ASSUME TypeOK, NEW d \in Die, NEW p \in Phy, EraseBlock(d, p)
  PROVE  FlashTypes'
<1>1. CASE /\ UpdatePhyBlockMapForGrownBadBlock(d, p) /\ UNCHANGED clean
           /\ table' = table \/ table' = [table EXCEPT ![d] = Torn]
  <2>1. /\ bad' \in [Die -> SUBSET Phy] /\ booked' \subseteq Die
        /\ failures' \in 0..MaxFailures /\ told' \in [Die -> SUBSET Phy]
    BY <1>1, FailureType
  <2>2. table' \in [Die -> [state : {"erased", "torn", "written"}, bad : SUBSET Phy]]
    <3>1. CASE table' = table
      BY <3>1 DEF TypeOK
    <3>2. CASE table' = [table EXCEPT ![d] = Torn]
      BY <3>2 DEF TypeOK, Torn
    <3> QED BY <1>1, <3>1, <3>2
  <2> QED BY <1>1, <2>1, <2>2 DEF TypeOK, FlashTypes
<1>2. CASE /\ clean' = [clean EXCEPT ![d] = @ \cup {p}]
           /\ table' = IF p = Table THEN [table EXCEPT ![d] = Erased] ELSE table
           /\ UNCHANGED <<badVars, told, failures>>
  <2>1. table' \in [Die -> [state : {"erased", "torn", "written"}, bad : SUBSET Phy]]
    BY <1>2 DEF TypeOK, Erased
  <2> QED BY <1>2, <2>1 DEF TypeOK, FlashTypes, badVars
<1> QED BY <1>1, <1>2 DEF EraseBlock

\* What replaces a block is a block.
LEMMA PlaceType ==
  ASSUME TypeOK, NEW d \in Die, NEW v \in VBlock
  PROVE  Place(d, v) \in Phy
BY BlockOfVirtual DEF TypeOK, Place

\* Where the request for a page goes, whatever lies there: a block of the LUN the
\* virtual block has without its substitute.
LEMMA BlockOfRequest ==
  ASSUME TypeOK, NEW d \in Die, NEW v \in VBlock, NEW page \in Page
  PROVE  /\ BlockOf(d, v, page) = LunOf(PhyOf(v)) * TotalBlocks + (Place(d, v) % TotalBlocks)
         /\ BlockOf(d, v, page) \in Phy
<1> DEFINE l == LunOf(PhyOf(v))  b == Place(d, v) % TotalBlocks
<1>1. /\ Vsa2Vdie(Vorg2Vsa(d, v, page)) = d /\ Vsa2Vblock(Vorg2Vsa(d, v, page)) = v
      /\ Vsa2Vpage(Vorg2Vsa(d, v, page)) = page
  <2>1. v \in Nat
    BY DEF VBlock
  <2> QED BY <2>1, VsaRoundTrip
<1>2. BlockOf(d, v, page) = RowBlock(Row(l, b, page))
  BY <1>1 DEF BlockOf, GenerateNandRowAddr, Place
<1>3. l \in Lun
  BY BlockOfVirtual, LunOfBlock
<1>4. b \in 0..(TotalBlocks - 1)
  <2>1. Place(d, v) \in Nat /\ TotalBlocks \in Nat /\ TotalBlocks > 0
    BY PlaceType, Sizes DEF Phy
  <2> QED BY <2>1, Division
<1> HIDE DEF l, b
<1>5. BlockOf(d, v, page) = l * TotalBlocks + b
  BY <1>2, <1>3, <1>4, RowRoundTrip
<1>6. l * TotalBlocks + b \in (l * TotalBlocks)..(EndOf(l) - 1)
  <2>1. TotalBlocks \in Nat /\ l \in {0, 1}
    BY <1>3, Sizes
  <2>2. CASE l = 0
    BY <1>4, <2>1, <2>2 DEF EndOf
  <2>3. CASE l = 1
    BY <1>4, <2>1, <2>3 DEF EndOf
  <2> QED BY <2>1, <2>2, <2>3
<1>7. BlockOf(d, v, page) \in Phy
  BY <1>3, <1>5, <1>6, BlocksOfLun
<1> QED BY <1>5, <1>7 DEF l, b

\* A block has a first page, the one its erase names.
LEMMA FirstPage == 0 \in Page
BY RowAssumption DEF Page

\* A block that lies in the LUN of the block it replaces is the one requests reach.
LEMMA RequestFindsPlace ==
  ASSUME TypeOK, NEW d \in Die, NEW v \in VBlock, LunOf(Place(d, v)) = LunOf(PhyOf(v))
  PROVE  \A page \in Page : BlockOf(d, v, page) = Place(d, v)
<1> DEFINE p == Place(d, v)  l == p \div TotalBlocks  b == p % TotalBlocks
<1>1. p \in Nat /\ TotalBlocks \in Nat /\ TotalBlocks > 0
  BY PlaceType, Sizes DEF Phy
<1>2. b \in 0..(TotalBlocks - 1) /\ l \in Nat /\ p = TotalBlocks * l + b
  <2> HIDE DEF p
  <2> QED BY <1>1, Division
<1>3. \A page \in Page : BlockOf(d, v, page) = l * TotalBlocks + b
  BY BlockOfRequest DEF LunOf
<1> HIDE DEF p, l, b
<1>4. l * TotalBlocks = TotalBlocks * l
  BY <1>1, <1>2, SMT
<1>5. p = l * TotalBlocks + b
  BY <1>2, <1>4
<1> QED BY <1>3, <1>5 DEF p

\* The next good block of the reserve is one of the good ones.
LEMMA GoodBlocks ==
  ASSUME TypeOK, NEW d \in Die, NEW l \in Lun
  PROVE  /\ Good(d, l) \in SUBSET Nat
         /\ Good(d, l) # {} => /\ Min(Good(d, l)) \in Good(d, l)
                               /\ Min(Good(d, l)) \in Nat
         /\ NextReserved(d, l) \in Nat
<1>1. reserved[d][l] \in Nat /\ EndOf(l) \in Nat
  <2>1. TotalBlocks \in Nat /\ l \in {0, 1}
    BY Sizes
  <2> QED BY <2>1 DEF TypeOK, EndOf
<1>2. Good(d, l) \in SUBSET Nat
  BY <1>1 DEF Good
<1>3. Good(d, l) # {} => Min(Good(d, l)) \in Good(d, l) /\ Min(Good(d, l)) \in Nat
  BY <1>2, MinOf
<1> QED BY <1>1, <1>2, <1>3 DEF NextReserved

\* The LUNs of a die that lose a block in a round.
LEMMA CountType ==
  ASSUME NEW L \in SUBSET Lun
  PROVE  Cardinality(L) \in Nat /\ Cardinality(L) <= LunsPerDie
<1>1. IsFiniteSet(Lun) /\ Cardinality(Lun) = LunsPerDie
  <2>1. LunsPerDie \in Nat /\ LunsPerDie > 0
    BY Sizes
  <2>2. IsFiniteSet(0..(LunsPerDie - 1))
        /\ Cardinality(0..(LunsPerDie - 1)) =
             IF 0 > LunsPerDie - 1 THEN 0 ELSE (LunsPerDie - 1) - 0 + 1
    <3>1. 0 \in Int /\ LunsPerDie - 1 \in Int
      BY <2>1
    <3> QED BY <3>1, FS_Interval
  <2> QED BY <2>1, <2>2 DEF Lun
<1>2. IsFiniteSet(L) /\ Cardinality(L) <= Cardinality(Lun)
  BY <1>1, FS_Subset
<1>3. Cardinality(L) \in Nat
  BY <1>2, FS_CardinalityType
<1> QED BY <1>1, <1>2, <1>3

\* The capacity lost is that of the die that lost most.
LEMMA LostType ==
  ASSUME TInv, pc = "remap"
  PROVE  MaxBadBlockCount \in Nat /\ \A d \in Die : badBlockCount[d] <= MaxBadBlockCount
<1> DEFINE S == {0} \cup {badBlockCount[d] : d \in Die}  b == LunsPerDie * blockNo
<1>1. S \in SUBSET Nat
  BY DEF TInv, TypeOK
<1>2. b \in Nat
  BY Sizes DEF TInv, TypeOK
<1>3. \A y \in S : y <= b
  <2>1. \A d \in Die : badBlockCount[d] <= b
    BY DEF TInv, CountBounded
  <2>2. 0 <= b
    BY <1>2
  <2> QED BY <2>1, <2>2
<1>4. Max(S) \in S /\ \A y \in S : y <= Max(S)
  <2>1. S # {}
    OBVIOUS
  <2> HIDE DEF S, b
  <2> QED BY <1>1, <1>2, <1>3, <2>1, MaxOf
<1>5. \A d \in Die : badBlockCount[d] \in S
  OBVIOUS
<1>6. MaxBadBlockCount = Max(S)
  BY DEF MaxBadBlockCount
<1> HIDE DEF S
<1> QED BY <1>1, <1>4, <1>5, <1>6

\* A good block of the reserve is a block of the die.
LEMMA GoodIsBlock ==
  ASSUME TypeOK, NEW d \in Die, NEW l \in Lun, Good(d, l) # {}
  PROVE  Min(Good(d, l)) \in Phy
<1> DEFINE m == Min(Good(d, l))
<1>1. m \in Good(d, l)
  BY GoodBlocks
<1>2. reserved[d][l] \in Nat /\ TotalBlocks \in Nat /\ LunsPerDie \in {1, 2}
      /\ l \in {0, 1} /\ l \in 0..(LunsPerDie - 1)
  BY Sizes DEF TypeOK, Lun
<1>3. m \in Nat /\ m <= EndOf(l) - 1
  <2>1. EndOf(l) \in Nat
    BY <1>2 DEF EndOf
  <2> QED BY <1>1, <1>2, <2>1 DEF Good
<1> HIDE DEF m
<1>4. CASE LunsPerDie = 1
  <2>1. l = 0
    BY <1>2, <1>4
  <2> QED BY <1>2, <1>3, <1>4, <2>1 DEF EndOf, Phy, m
<1>5. CASE LunsPerDie = 2
  <2>1. CASE l = 0
    BY <1>2, <1>3, <1>5, <2>1 DEF EndOf, Phy, m
  <2>2. CASE l = 1
    BY <1>2, <1>3, <1>5, <2>2 DEF EndOf, Phy, m
  <2> QED BY <1>2, <2>1, <2>2
<1> QED BY <1>2, <1>4, <1>5

\* The state is always of its type and the loops of a boot stay in their bounds.
THEOREM TypeCorrect == Spec => []TInv
<1>1. Init => TInv
  BY TypeInit
<1>2. TInv /\ [Next]_vars => TInv'
  <2> SUFFICES ASSUME TInv, [Next]_vars PROVE TInv'
    OBVIOUS
  <2> USE DEF TInv
  <2>1. CASE PowerOn
    BY <2>1 DEF PowerOn, TypeOK, CountBounded, Phase, flashVars, mapVars, badVars,
         remapVars, saveVars, pastVars
  <2>2. CASE EraseTotalBlockSpace
    <3>1. ASSUME NEW d \in Die, erased[d] \in Phy, EraseBlock(d, erased[d]),
                 erased' = [erased EXCEPT ![d] = @ + 1], UNCHANGED pc
          PROVE  TInv'
      <4>1. FlashTypes'
        BY <3>1, EraseType
      <4>2. erased' \in [Die -> Nat]
        BY <3>1 DEF TypeOK
      <4> QED BY <2>2, <3>1, <4>1, <4>2 DEF EraseTotalBlockSpace, FlashTypes, TypeOK,
                   CountBounded, mapVars, remapVars, saveVars
    <3>2. CASE /\ erased' = NoMemory.zero /\ pc' = "read"
               /\ UNCHANGED <<flashVars, badVars, told, failures>>
      BY <2>2, <3>2, NoMemoryType DEF EraseTotalBlockSpace, TypeOK, CountBounded, Phase,
           flashVars, badVars, mapVars, remapVars, saveVars
    <3> QED BY <2>2, <3>1, <3>2 DEF EraseTotalBlockSpace
  <2>3. ASSUME NEW failed \in SUBSET Die, ReadBadBlockTable(failed) PROVE TInv'
    <3>1. PICK r \in [Die -> BOOLEAN \X SUBSET Phy] :
            /\ bad' = [d \in Die |-> IF r[d][1] THEN r[d][2]
                                    ELSE IF d \in failed THEN bad[d] \cup {Table} ELSE bad[d]]
            /\ dieState' = [d \in Die |-> IF r[d][1] THEN "EXIST" ELSE "NOT_EXIST"]
            /\ pc' = IF \A d \in Die : r[d][1] THEN "mark" ELSE "scan"
      BY <2>3 DEF ReadBadBlockTable
    <3>2. bad' \in [Die -> SUBSET Phy]
      <4>1. \A d \in Die : r[d][2] \in SUBSET Phy
        OBVIOUS
      <4> QED BY <3>1, <4>1, Sizes DEF TypeOK
    <3>3. dieState' \in [Die -> DieState]
      BY <3>1 DEF DieState
    <3>4. pc' \in Phase /\ pc' # "remap"
      BY <3>1 DEF Phase
    <3>5. failures' \in 0..MaxFailures
      <4>1. Cardinality(failed) \in Nat
        BY DieFinite, FS_Subset, FS_CardinalityType
      <4>2. failures \in Nat /\ MaxFailures \in Nat
        BY FailAssumption DEF TypeOK
      <4> QED BY <2>3, <4>1, <4>2 DEF ReadBadBlockTable
    <3>6. kept' \in [Die -> SUBSET Phy] /\ told' \in [Die -> SUBSET Phy]
      BY <2>3 DEF ReadBadBlockTable, TypeOK
    <3>7. stale' \subseteq Die /\ booked' \subseteq Die
      BY <2>3 DEF ReadBadBlockTable, TypeOK
    <3>8. blockNo' = 0 /\ blockNo' \in Phy
      BY <2>3, Sizes DEF ReadBadBlockTable, CountBounded, Table
    <3> QED BY <2>3, <3>2, <3>3, <3>4, <3>5, <3>6, <3>7, <3>8
          DEF ReadBadBlockTable, TypeOK, CountBounded, flashVars, mapVars, remapVars
  <2>4. ASSUME NEW failed \in SUBSET Die, FindBadBlock(failed) PROVE TInv'
    <3>0. blockNo \in Phy /\ pc = "scan"
      BY <2>4 DEF FindBadBlock, CountBounded
    <3>1. \A f \in [Die -> SUBSET Phy] : Noted(f, failed) \in [Die -> SUBSET Phy]
      BY <3>0 DEF Noted
    <3>2. bad' \in [Die -> SUBSET Phy] /\ image' \in [Die -> SUBSET Phy]
      BY <2>4, <3>1 DEF FindBadBlock, TypeOK
    <3>3. told' \in [Die -> SUBSET Phy] /\ booked' \subseteq Die
      BY <2>4, <3>0 DEF FindBadBlock, TypeOK
    <3>4. failures' \in 0..MaxFailures
      <4>1. Cardinality(failed) \in Nat
        BY DieFinite, FS_Subset, FS_CardinalityType
      <4>2. failures \in Nat /\ MaxFailures \in Nat
        BY FailAssumption DEF TypeOK
      <4> QED BY <2>4, <4>1, <4>2 DEF FindBadBlock
    <3>5. CASE blockNo + 1 \in Phy /\ blockNo' = blockNo + 1 /\ UNCHANGED <<pc, todo>>
      BY <2>4, <3>0, <3>2, <3>3, <3>4, <3>5 DEF FindBadBlock, TypeOK, CountBounded, flashVars,
           mapVars, remapVars
    <3>6. CASE /\ blockNo' = 0 /\ pc' = "save"
               /\ todo' = [d \in Die |-> IF d \in Scanned THEN "erase" ELSE "done"]
      BY <2>4, <3>0, <3>2, <3>3, <3>4, <3>6 DEF FindBadBlock, TypeOK, CountBounded, flashVars,
           mapVars, remapVars, Phase
    <3> QED BY <2>4, <3>5, <3>6 DEF FindBadBlock
  <2>5. ASSUME NEW d \in Die, SaveErase(d) PROVE TInv'
    <3>1. FlashTypes'
      BY <2>5, Sizes, EraseType DEF SaveErase
    <3>2. todo' \in [Die -> {"erase", "write", "done"}] /\ pc \in {"save", "flush"}
      BY <2>5 DEF SaveErase, TypeOK
    <3> QED BY <2>5, <3>1, <3>2 DEF SaveErase, FlashTypes, TypeOK, CountBounded, mapVars,
                 remapVars
  <2>6. ASSUME NEW d \in Die, SaveWrite(d) PROVE TInv'
    <3>1. /\ bad' \in [Die -> SUBSET Phy] /\ booked' \subseteq Die
          /\ failures' \in 0..MaxFailures /\ told' \in [Die -> SUBSET Phy]
      <4>1. CASE UpdatePhyBlockMapForGrownBadBlock(d, Table)
        BY <4>1, Sizes, FailureType
      <4>2. CASE UNCHANGED <<badVars, told, failures>>
        BY <4>2 DEF TypeOK, badVars
      <4> QED BY <2>6, <4>1, <4>2 DEF SaveWrite
    <3>2. table' \in [Die -> [state : {"erased", "torn", "written"}, bad : SUBSET Phy]]
      <4>1. \A e \in {Torn, Written(image[d])} :
              e \in [state : {"erased", "torn", "written"}, bad : SUBSET Phy]
        BY DEF TypeOK, Torn, Written
      <4>2. PICK e \in {Torn, Written(image[d])} : table' = [table EXCEPT ![d] = e]
        BY <2>6 DEF SaveWrite
      <4>3. e \in [state : {"erased", "torn", "written"}, bad : SUBSET Phy]
        BY <4>1
      <4> QED BY <4>2, <4>3 DEF TypeOK
    <3>3. todo' \in [Die -> {"erase", "write", "done"}] /\ pc \in {"save", "flush"}
      BY <2>6 DEF SaveWrite, TypeOK
    <3>4. stale' \subseteq Die
      BY <2>6 DEF SaveWrite, TypeOK
    <3> QED BY <2>6, <3>1, <3>2, <3>3, <3>4 DEF SaveWrite, TypeOK, CountBounded, mapVars,
                 remapVars
  <2>7. CASE MarkTableBlocks
    <3>1. bad' \in [Die -> SUBSET Phy]
      BY <2>7, Sizes DEF MarkTableBlocks, TypeOK
    <3>2. reserved' \in [Die -> [Lun -> Nat]]
      <4>1. \A l \in Lun : l * TotalBlocks + UserBlocks \in Nat
        BY Sizes
      <4> QED BY <2>7, <4>1 DEF MarkTableBlocks
    <3>3. \A d \in Die : badBlockCount'[d] <= LunsPerDie * blockNo'
      BY <2>7, Sizes DEF MarkTableBlocks, NoMemory
    <3>4. blockNo' = 0 /\ blockNo' <= UserBlocks
      BY <2>7, Sizes DEF MarkTableBlocks
    <3> QED BY <2>7, <3>1, <3>2, <3>3, <3>4, NoMemoryType DEF MarkTableBlocks, TypeOK,
                 CountBounded, flashVars, mapVars, pastVars, Phase
  <2>8. CASE RemapBadBlock
    <3>1. remapped' \in [Die -> [Phy -> Phy]]
      <4>1. \A d \in Die, p \in Phy : Good(d, LunOf(p)) # {} => Min(Good(d, LunOf(p))) \in Phy
        <5> TAKE d \in Die, p \in Phy
        <5>1. LunOf(p) \in Lun
          BY LunOfBlock
        <5>2. SUFFICES ASSUME Good(d, LunOf(p)) # {} PROVE Min(Good(d, LunOf(p))) \in Phy
          OBVIOUS
        <5> QED BY <5>1, <5>2, GoodIsBlock
      <4> QED BY <2>8, <4>1 DEF RemapBadBlock, TypeOK
    <3>2. reserved' \in [Die -> [Lun -> Nat]]
      <4>1. \A d \in Die, l \in Lun : NextReserved(d, l) \in Nat
        BY GoodBlocks
      <4> QED BY <2>8, <4>1 DEF RemapBadBlock, TypeOK
    <3>3. badBlockCount' \in [Die -> Nat]
          /\ \A d \in Die : badBlockCount'[d] <= LunsPerDie * blockNo'
      <4>1. \A L \in SUBSET Lun : Cardinality(L) \in Nat /\ Cardinality(L) <= LunsPerDie
        BY CountType
      <4> DEFINE L(d) == {l \in Lun : l * TotalBlocks + blockNo \in bad[d] /\ Good(d, l) = {}}
      <4>2. badBlockCount' = [d \in Die |-> badBlockCount[d] + Cardinality(L(d))]
        BY <2>8 DEF RemapBadBlock
      <4>3. \A d \in Die : Cardinality(L(d)) \in Nat /\ Cardinality(L(d)) <= LunsPerDie
        BY <4>1
      <4> HIDE DEF L
      <4>4. LunsPerDie * (blockNo + 1) = LunsPerDie * blockNo + LunsPerDie /\ blockNo' = blockNo + 1
        BY <2>8, Sizes DEF RemapBadBlock, TypeOK
      <4>5. LunsPerDie * blockNo \in Nat /\ LunsPerDie \in Nat
        BY Sizes DEF TypeOK
      <4>6. \A d \in Die : badBlockCount[d] \in Nat /\ badBlockCount[d] <= LunsPerDie * blockNo
        BY <2>8 DEF RemapBadBlock, TypeOK, CountBounded
      <4> QED BY <4>2, <4>3, <4>4, <4>5, <4>6
    <3>4. blockNo' \in Nat /\ blockNo' <= UserBlocks /\ pc' = "remap"
      BY <2>8, Sizes DEF RemapBadBlock, TypeOK
    <3> QED BY <2>8, <3>1, <3>2, <3>3, <3>4 DEF RemapBadBlock, TypeOK, CountBounded,
                 flashVars, badVars, saveVars, pastVars
  <2>9. CASE InitBlockMap
    <3>1. lost' \in Nat
      BY <2>9, LostType DEF InitBlockMap
    <3>2. vbad' \in [Die -> SUBSET VBlock] /\ pc' \in {"run", "erase_user"}
      BY <2>9 DEF InitBlockMap
    <3> QED BY <2>9, <3>1, <3>2, NoMemoryType DEF InitBlockMap, TypeOK, CountBounded, Phase,
                 flashVars, badVars, saveVars, pastVars
  <2>10. CASE EraseUserBlockSpace
    <3>1. ASSUME NEW d \in Die, erased[d] \in VBlock, erased' = [erased EXCEPT ![d] = @ + 1],
                 IF erased[d] \in vbad[d] THEN UNCHANGED <<flashVars, badVars, told, failures>>
                 ELSE EraseBlock(d, BlockOf(d, erased[d], 0)),
                 UNCHANGED pc
          PROVE  TInv'
      <4>1. FlashTypes'
        <5>1. CASE UNCHANGED <<flashVars, badVars, told, failures>>
          BY <5>1 DEF FlashTypes, TypeOK, flashVars, badVars
        <5>2. CASE EraseBlock(d, BlockOf(d, erased[d], 0))
          BY <3>1, <5>2, FirstPage, BlockOfRequest, EraseType
        <5> QED BY <3>1, <5>1, <5>2
      <4>2. erased' \in [Die -> Nat]
        BY <3>1 DEF TypeOK
      <4> QED BY <2>10, <3>1, <4>1, <4>2 DEF EraseUserBlockSpace, FlashTypes, TypeOK,
                   CountBounded, mapVars, remapVars, saveVars
    <3>2. CASE /\ erased' = NoMemory.zero /\ pc' = "run"
               /\ UNCHANGED <<flashVars, badVars, told, failures>>
      BY <2>10, <3>2, NoMemoryType DEF EraseUserBlockSpace, TypeOK, CountBounded, Phase,
           flashVars, badVars, mapVars, remapVars, saveVars
    <3> QED BY <2>10, <3>1, <3>2 DEF EraseUserBlockSpace
  <2>11. ASSUME NEW d \in Die, NEW v \in VBlock, NEW page \in Page, UseBlock(d, v, page)
         PROVE  TInv'
    <3>1. PICK p \in Phy : /\ p = BlockOf(d, v, page)
                          /\ \/ UNCHANGED <<badVars, told, failures>>
                             \/ UpdatePhyBlockMapForGrownBadBlock(d, p)
      BY <2>11, BlockOfRequest DEF UseBlock
    <3>2. /\ bad' \in [Die -> SUBSET Phy] /\ booked' \subseteq Die
          /\ failures' \in 0..MaxFailures /\ told' \in [Die -> SUBSET Phy]
      <4>1. CASE UpdatePhyBlockMapForGrownBadBlock(d, p)
        BY <4>1, FailureType
      <4>2. CASE UNCHANGED <<badVars, told, failures>>
        BY <4>2 DEF TypeOK, badVars
      <4> QED BY <3>1, <4>1, <4>2
    <3>3. clean' \in [Die -> SUBSET Phy]
      <4>1. PICK c \in {clean[d] \cup ({p} \ FactoryBad[d]), clean[d] \ {p}} :
              clean' = [clean EXCEPT ![d] = c]
        BY <2>11, <3>1 DEF UseBlock
      <4>2. c \in SUBSET Phy
        BY DEF TypeOK
      <4> QED BY <4>1, <4>2 DEF TypeOK
    <3> QED BY <2>11, <3>2, <3>3 DEF UseBlock, TypeOK, CountBounded, mapVars, remapVars, saveVars
  <2>12. CASE Shutdown
    <3>1. /\ dieState' \in [Die -> DieState] /\ image' \in [Die -> SUBSET Phy]
          /\ todo' \in [Die -> {"erase", "write", "done"}]
      BY <2>12 DEF Shutdown, TypeOK, DieState
    <3> QED BY <2>12, <3>1 DEF Shutdown, TypeOK, CountBounded, Phase, flashVars, mapVars,
                 badVars, remapVars
  <2>13. CASE ShutdownDone
    <3>1. kept' \in [Die -> SUBSET Phy]
      BY <2>13 DEF ShutdownDone, TypeOK
    <3> QED BY <2>13, <3>1, NoMemoryType DEF ShutdownDone, TypeOK, CountBounded, Phase,
                 flashVars, mapVars, badVars, remapVars
  <2>14. CASE Resume
    BY <2>14 DEF Resume, TypeOK, CountBounded, Phase, flashVars, mapVars, badVars,
         remapVars, saveVars, pastVars
  <2>15. CASE PowerCut
    <3>1. table' \in [Die -> [state : {"erased", "torn", "written"}, bad : SUBSET Phy]]
      BY <2>15 DEF PowerCut, TypeOK, Torn
    <3> QED BY <2>15, <3>1, NoMemoryType DEF PowerCut, TypeOK, CountBounded, Phase
  <2>16. CASE UNCHANGED vars
    BY <2>16 DEF vars, TypeOK, CountBounded, flashVars, mapVars, badVars,
         remapVars, saveVars, pastVars
  <2> QED BY <2>1, <2>2, <2>3, <2>4, <2>5, <2>6, <2>7, <2>8, <2>9, <2>10, <2>11, <2>12,
              <2>13, <2>14, <2>15, <2>16 DEF Next
<1> QED BY <1>1, <1>2, PTL DEF Spec

-----------------------------------------------------------------------------
(* No failure is forgotten.                                                *)

\* What memory calls bad is in the table of the die, if that was read or written.
Recorded(d) ==
  d \notin stale /\ table[d].state = "written" => bad[d] \ {Table} \subseteq table[d].bad

\* A scan notes what it finds twice; a save writes what was noted; a running
\* device books what is not in the table.
SaveInv ==
  /\ pc \in {"mark", "remap"} => \A d \in Die : Recorded(d)
  /\ pc = "scan" => \A d \in Die :
       IF d \in Scanned THEN \A p \in 0..(blockNo - 1) : p \in bad[d] => p \in image[d]
       ELSE Recorded(d)
  /\ pc = "save" => \A d \in Die :
       IF todo[d] = "done" THEN Recorded(d) ELSE bad[d] \ {Table} \subseteq image[d]
  /\ Mapped => \A d \in Die : d \in booked \/ Recorded(d)
  /\ pc = "flush" => \A d \in Die : todo[d] # "done" => d \in booked

\* An operation on a block, seen from the record.
LEMMA FailureRecorded ==
  ASSUME TypeOK, NEW d \in Die, NEW p \in Phy, UpdatePhyBlockMapForGrownBadBlock(d, p)
  PROVE  /\ d \in booked' /\ booked \subseteq booked'
         /\ bad'[d] = bad[d] \cup {p}
         /\ \A e \in Die \ {d} : bad'[e] = bad[e]
BY DEF TypeOK, UpdatePhyBlockMapForGrownBadBlock

\* An erase, seen from the record.
LEMMA EraseRecorded ==
  ASSUME TypeOK, NEW d \in Die, NEW p \in Phy, EraseBlock(d, p)
  PROVE  /\ booked \subseteq booked'
         /\ \A e \in Die \ {d} : bad'[e] = bad[e] /\ table'[e] = table[e]
         /\ bad'[d] \subseteq bad[d] \cup {p}
         /\ table'[d] = table[d] \/ table'[d].state # "written"
         /\ d \in booked' \/ bad'[d] = bad[d]
<1>1. CASE UpdatePhyBlockMapForGrownBadBlock(d, p)
  <2>1. /\ d \in booked' /\ booked \subseteq booked'
        /\ bad'[d] = bad[d] \cup {p}
        /\ \A e \in Die \ {d} : bad'[e] = bad[e]
    BY <1>1, FailureRecorded
  <2>2. \E e \in {table[d], Torn, Erased} : table' = [table EXCEPT ![d] = e]
    <3>1. table = [table EXCEPT ![d] = table[d]]
      BY DEF TypeOK
    <3> QED BY <3>1 DEF EraseBlock
  <2>3. \A e \in Die \ {d} : table'[e] = table[e]
    BY <2>2 DEF TypeOK
  <2>4. table'[d] = table[d] \/ table'[d].state # "written"
    BY <2>2 DEF TypeOK, Torn, Erased
  <2> QED BY <2>1, <2>3, <2>4
<1>2. CASE /\ table' = IF p = Table THEN [table EXCEPT ![d] = Erased] ELSE table
           /\ UNCHANGED <<badVars, told, failures>>
  <2>1. \A e \in Die \ {d} : table'[e] = table[e]
    BY <1>2 DEF TypeOK
  <2>2. table'[d] = table[d] \/ table'[d].state # "written"
    BY <1>2 DEF TypeOK, Erased
  <2> QED BY <1>2, <2>1, <2>2 DEF badVars
<1> QED BY <1>1, <1>2 DEF EraseBlock

\* An operation on a running device keeps every die booked or recorded.
LEMMA RunningRecorded ==
  ASSUME TypeOK, NEW d \in Die, \A e \in Die : e \in booked \/ Recorded(e),
         /\ booked \subseteq booked'
         /\ \A e \in Die \ {d} : bad'[e] = bad[e] /\ table'[e] = table[e]
         /\ table'[d] = table[d] \/ table'[d].state # "written"
         /\ d \in booked' \/ bad'[d] = bad[d],
         stale' = stale
  PROVE  \A e \in Die : e \in booked' \/ Recorded(e)'
<1> TAKE e \in Die
<1>1. CASE e # d
  <2>1. bad'[e] = bad[e] /\ table'[e] = table[e]
    BY <1>1
  <2> QED BY <2>1 DEF Recorded
<1>2. CASE e = d
  BY <1>2 DEF Recorded
<1> QED BY <1>1, <1>2

\* A scan ends at the last block.
LEMMA LastBlock ==
  ASSUME NEW n \in Phy, n + 1 \notin Phy
  PROVE  Phy \subseteq 0..n
<1>1. LunsPerDie * TotalBlocks \in Nat
  BY Sizes
<1> QED BY <1>1 DEF Phy

\* A failure is in the table of its die or the die is booked, whatever fails
\* while tables are saved (UpdatePhyBlockMapForGrownBadBlock, SaveBadBlockTable).
THEOREM SavedOrBookedHolds == Spec => []SavedOrBooked
<1>1. Init => SaveInv
  BY DEF Init, SaveInv, Mapped
<1>2. TInv /\ SaveInv /\ [Next]_vars => SaveInv'
  <2> SUFFICES ASSUME TInv, SaveInv, [Next]_vars PROVE SaveInv'
    OBVIOUS
  <2>0. TypeOK /\ CountBounded
    BY DEF TInv
  <2>1. CASE PowerOn \/ PowerCut \/ EraseTotalBlockSpace
    <3>1. pc' \in {"off", "erase_total", "read"}
      BY <2>1 DEF PowerOn, PowerCut, EraseTotalBlockSpace
    <3> QED BY <3>1 DEF SaveInv, Mapped
  <2>2. ASSUME NEW failed \in SUBSET Die, ReadBadBlockTable(failed) PROVE SaveInv'
    <3>1. PICK r \in [Die -> BOOLEAN \X SUBSET Phy] :
            /\ \A d \in Die : r[d] \in Readings(d, d \in failed)
            /\ bad' = [d \in Die |-> IF r[d][1] THEN r[d][2]
                                    ELSE IF d \in failed THEN bad[d] \cup {Table} ELSE bad[d]]
            /\ dieState' = [d \in Die |-> IF r[d][1] THEN "EXIST" ELSE "NOT_EXIST"]
            /\ pc' = IF \A d \in Die : r[d][1] THEN "mark" ELSE "scan"
      BY <2>2 DEF ReadBadBlockTable
    <3>2. ASSUME NEW d \in Die, r[d][1] PROVE Recorded(d)'
      <4>1. SUFFICES ASSUME d \notin stale', table'[d].state = "written"
                     PROVE  bad'[d] \ {Table} \subseteq table'[d].bad
        BY DEF Recorded
      <4>2. table' = table /\ dieState'[d] = "EXIST"
        BY <2>2, <3>1, <3>2 DEF ReadBadBlockTable, flashVars
      <4>3. d \notin failed
        BY <2>2, <4>1, <4>2 DEF ReadBadBlockTable
      <4>4. r[d] = <<TRUE, table[d].bad>>
        BY <3>1, <4>1, <4>2, <4>3 DEF Readings
      <4> QED BY <3>1, <4>2, <4>4
    <3>3. blockNo' = 0 /\ pc' \in {"mark", "scan"}
      BY <2>0, <2>2, <3>1 DEF ReadBadBlockTable, CountBounded
    <3>4. \A d \in Die : d \in Scanned' <=> ~r[d][1]
      BY <3>1 DEF Scanned
    <3>5. pc' = "mark" => \A d \in Die : r[d][1]
      BY <3>1
    <3>6. \A p : p \notin 0..(blockNo' - 1)
      BY <3>3
    <3> QED BY <3>2, <3>3, <3>4, <3>5, <3>6 DEF SaveInv, Mapped
  <2>3. ASSUME NEW failed \in SUBSET Die, FindBadBlock(failed) PROVE SaveInv'
    <3>0. pc = "scan" /\ blockNo \in Phy /\ blockNo \in Nat
      BY <2>0, <2>3 DEF FindBadBlock, CountBounded, Phy
    <3>1. ASSUME NEW d \in Die, d \notin Scanned PROVE Recorded(d)'
      <4>1. d \notin FoundBad(failed) /\ bad'[d] = bad[d]
        BY <2>3, <3>1 DEF FindBadBlock, FoundBad, Noted
      <4>2. Recorded(d)
        BY <3>0, <3>1 DEF SaveInv
      <4> QED BY <2>3, <4>1, <4>2 DEF FindBadBlock, Recorded, flashVars
    <3>2. ASSUME NEW d \in Die, d \in Scanned, NEW p \in 0..blockNo, p \in bad'[d]
          PROVE  p \in image'[d]
      <4>1. /\ bad'[d] = IF d \in FoundBad(failed) THEN bad[d] \cup {blockNo} ELSE bad[d] \ {blockNo}
            /\ image'[d] = IF d \in FoundBad(failed) THEN image[d] \cup {blockNo}
                           ELSE image[d] \ {blockNo}
        BY <2>3, <3>2 DEF FindBadBlock, Noted
      <4>2. p # blockNo => p \in 0..(blockNo - 1)
        BY <3>0
      <4>3. \A q \in 0..(blockNo - 1) : q \in bad[d] => q \in image[d]
        BY <3>0, <3>2 DEF SaveInv
      <4> QED BY <3>2, <4>1, <4>2, <4>3
    <3>3. Scanned' = Scanned
      BY <2>3 DEF FindBadBlock, Scanned
    <3>4. CASE blockNo' = blockNo + 1 /\ UNCHANGED <<pc, todo>>
      <4>1. 0..(blockNo' - 1) = 0..blockNo
        BY <3>0, <3>4
      <4> QED BY <3>0, <3>1, <3>2, <3>3, <3>4, <4>1 DEF SaveInv, Mapped
    <3>5. CASE /\ blockNo + 1 \notin Phy /\ pc' = "save"
               /\ todo' = [d \in Die |-> IF d \in Scanned THEN "erase" ELSE "done"]
      <4>1. Phy \subseteq 0..blockNo
        BY <3>0, <3>5, LastBlock
      <4>2. \A d \in Die : bad'[d] \subseteq Phy
        <5>1. \A d \in Die : Noted(bad, failed)[d] \subseteq Phy
          BY <2>0, <3>0 DEF Noted, TypeOK
        <5> QED BY <2>3, <5>1 DEF FindBadBlock
      <4>3. \A d \in Die : d \in Scanned => bad'[d] \ {Table} \subseteq image'[d]
        BY <3>2, <4>1, <4>2
      <4> QED BY <3>1, <3>5, <4>3 DEF SaveInv, Mapped
    <3> QED BY <2>3, <3>4, <3>5 DEF FindBadBlock
  <2>4. ASSUME NEW d \in Die, SaveErase(d) PROVE SaveInv'
    <3>1. /\ booked \subseteq booked'
          /\ \A e \in Die \ {d} : bad'[e] = bad[e] /\ table'[e] = table[e]
          /\ bad'[d] \subseteq bad[d] \cup {Table}
          /\ table'[d] = table[d] \/ table'[d].state # "written"
          /\ d \in booked' \/ bad'[d] = bad[d]
      BY <2>0, <2>4, Sizes, EraseRecorded DEF SaveErase
    <3>2. /\ todo[d] = "erase" /\ todo'[d] = "write" /\ pc' = pc /\ stale' = stale
          /\ image' = image /\ \A e \in Die \ {d} : todo'[e] = todo[e]
      BY <2>0, <2>4 DEF SaveErase, TypeOK
    <3>3. \A e \in Die \ {d} : Recorded(e)' <=> Recorded(e)
      BY <3>1, <3>2 DEF Recorded
    <3>4. CASE pc = "save"
      <4>1. bad[d] \ {Table} \subseteq image[d]
        BY <3>2, <3>4 DEF SaveInv
      <4>2. bad'[d] \ {Table} \subseteq image'[d]
        BY <3>1, <3>2, <4>1
      <4>3. \A e \in Die \ {d} :
              IF todo'[e] = "done" THEN Recorded(e)' ELSE bad'[e] \ {Table} \subseteq image'[e]
        BY <3>1, <3>2, <3>3, <3>4 DEF SaveInv
      <4> QED BY <3>2, <3>4, <4>2, <4>3 DEF SaveInv, Mapped
    <3>5. CASE pc = "flush"
      <4>1. d \in booked /\ \A e \in Die : todo'[e] # "done" => e \in booked'
        BY <3>1, <3>2, <3>5 DEF SaveInv
      <4>2. \A e \in Die : e \in booked' \/ Recorded(e)'
        BY <3>1, <3>3, <3>5, <4>1 DEF SaveInv, Mapped
      <4> QED BY <3>2, <3>5, <4>1, <4>2 DEF SaveInv, Mapped
    <3> QED BY <2>4, <3>4, <3>5 DEF SaveErase
  <2>5. ASSUME NEW d \in Die, SaveWrite(d) PROVE SaveInv'
    <3>1. /\ todo[d] = "write" /\ todo'[d] = "done" /\ pc' = pc /\ image' = image
          /\ \A e \in Die \ {d} : todo'[e] = todo[e]
          /\ stale' = IF pc = "save" THEN stale \ {d} ELSE stale
      BY <2>0, <2>5 DEF SaveWrite, TypeOK
    <3>2. /\ booked \subseteq booked'
          /\ \A e \in Die \ {d} : bad'[e] = bad[e]
          /\ bad'[d] \subseteq bad[d] \cup {Table}
      <4>1. CASE UNCHANGED <<badVars, told, failures>>
        BY <4>1 DEF badVars
      <4>2. CASE UpdatePhyBlockMapForGrownBadBlock(d, Table)
        BY <2>0, <4>2, Sizes, FailureRecorded
      <4> QED BY <2>5, <4>1, <4>2 DEF SaveWrite
    <3>3. \E x \in {Torn, Written(image[d])} : table' = [table EXCEPT ![d] = x]
      BY <2>5 DEF SaveWrite
    <3>4. /\ \A e \in Die \ {d} : table'[e] = table[e]
          /\ table'[d] \in {Torn, Written(image[d])}
      BY <2>0, <3>3 DEF TypeOK
    <3>5. \A e \in Die \ {d} : Recorded(e)' <=> Recorded(e)
      BY <3>1, <3>2, <3>4 DEF Recorded
    <3>6. CASE pc = "save"
      <4>1. bad[d] \ {Table} \subseteq image[d]
        BY <3>1, <3>6 DEF SaveInv
      <4>2. Recorded(d)'
        BY <3>2, <3>4, <4>1 DEF Recorded, Torn, Written
      <4>3. \A e \in Die \ {d} :
              IF todo'[e] = "done" THEN Recorded(e)' ELSE bad'[e] \ {Table} \subseteq image'[e]
        BY <3>1, <3>2, <3>5, <3>6 DEF SaveInv
      <4> QED BY <3>1, <3>6, <4>2, <4>3 DEF SaveInv, Mapped
    <3>7. CASE pc = "flush"
      <4>1. d \in booked /\ \A e \in Die : todo'[e] # "done" => e \in booked'
        BY <3>1, <3>2, <3>7 DEF SaveInv
      <4>2. \A e \in Die : e \in booked' \/ Recorded(e)'
        BY <3>2, <3>5, <3>7, <4>1 DEF SaveInv, Mapped
      <4> QED BY <3>1, <3>7, <4>1, <4>2 DEF SaveInv, Mapped
    <3> QED BY <2>5, <3>6, <3>7 DEF SaveWrite
  <2>6. CASE MarkTableBlocks
    <3>1. \A d \in Die : Recorded(d)
      BY <2>6 DEF MarkTableBlocks, SaveInv
    <3>2. \A d \in Die : bad'[d] \ {Table} = bad[d] \ {Table}
      BY <2>6 DEF MarkTableBlocks
    <3>3. table' = table /\ stale' = stale /\ pc' = "remap"
      BY <2>6 DEF MarkTableBlocks, flashVars, pastVars
    <3>4. \A d \in Die : Recorded(d)'
      BY <3>1, <3>2, <3>3 DEF Recorded
    <3> QED BY <3>3, <3>4 DEF SaveInv, Mapped
  <2>7. CASE RemapBadBlock \/ InitBlockMap
    <3>1. \A d \in Die : Recorded(d)
      BY <2>7 DEF RemapBadBlock, InitBlockMap, SaveInv
    <3>2. table' = table /\ stale' = stale /\ bad' = bad /\ pc' \in {"remap", "run", "erase_user"}
      BY <2>7 DEF RemapBadBlock, InitBlockMap, flashVars, badVars, pastVars
    <3>3. \A d \in Die : Recorded(d)'
      BY <3>1, <3>2 DEF Recorded
    <3> QED BY <3>2, <3>3 DEF SaveInv, Mapped
  <2>8. CASE EraseUserBlockSpace
    <3>0. /\ \A e \in Die : e \in booked \/ Recorded(e)
          /\ stale' = stale /\ pc' \in {"erase_user", "run"}
      BY <2>8 DEF EraseUserBlockSpace, SaveInv, Mapped
    <3>1. ASSUME NEW d \in Die, erased[d] \in VBlock, erased[d] \notin vbad[d],
                 EraseBlock(d, BlockOf(d, erased[d], 0))
          PROVE  SaveInv'
      <4>1. /\ booked \subseteq booked'
            /\ \A e \in Die \ {d} : bad'[e] = bad[e] /\ table'[e] = table[e]
            /\ table'[d] = table[d] \/ table'[d].state # "written"
            /\ d \in booked' \/ bad'[d] = bad[d]
        BY <2>0, <3>1, FirstPage, BlockOfRequest, EraseRecorded
      <4>2. \A e \in Die : e \in booked' \/ Recorded(e)'
        BY <2>0, <3>0, <4>1, RunningRecorded
      <4> QED BY <3>0, <4>2 DEF SaveInv, Mapped
    <3>2. CASE UNCHANGED <<flashVars, badVars, told, failures>>
      BY <3>0, <3>2 DEF SaveInv, Mapped, Recorded, flashVars, badVars
    <3> QED BY <2>8, <3>1, <3>2 DEF EraseUserBlockSpace
  <2>9. ASSUME NEW d \in Die, NEW v \in VBlock, NEW page \in Page, UseBlock(d, v, page)
        PROVE  SaveInv'
    <3>0. /\ \A e \in Die : e \in booked \/ Recorded(e)
          /\ stale' = stale /\ pc' = pc /\ pc \in {"run", "flush"} /\ table' = table /\ todo' = todo
      BY <2>9 DEF UseBlock, SaveInv, Mapped, saveVars
    <3>1. /\ booked \subseteq booked'
          /\ \A e \in Die \ {d} : bad'[e] = bad[e]
          /\ d \in booked' \/ bad'[d] = bad[d]
      <4>1. CASE UNCHANGED <<badVars, told, failures>>
        BY <4>1 DEF badVars
      <4>2. CASE UpdatePhyBlockMapForGrownBadBlock(d, BlockOf(d, v, page))
        BY <2>0, <4>2, BlockOfRequest, FailureRecorded
      <4> QED BY <2>9, <4>1, <4>2 DEF UseBlock
    <3>2. \A e \in Die : e \in booked' \/ Recorded(e)'
      BY <2>0, <3>0, <3>1, RunningRecorded
    <3>3. pc = "flush" => \A e \in Die : todo'[e] # "done" => e \in booked'
      BY <3>0, <3>1 DEF SaveInv
    <3> QED BY <3>0, <3>2, <3>3 DEF SaveInv, Mapped
  <2>10. CASE Shutdown
    <3>1. /\ \A e \in Die : e \in booked \/ Recorded(e)
          /\ pc' = "flush" /\ \A e \in Die : todo'[e] # "done" => e \in booked
          /\ UNCHANGED <<table, bad, booked, stale>>
      BY <2>10 DEF Shutdown, SaveInv, Mapped, flashVars, badVars
    <3> QED BY <3>1 DEF SaveInv, Mapped, Recorded
  <2>11. CASE ShutdownDone \/ Resume
    <3>1. /\ \A e \in Die : e \in booked \/ Recorded(e)
          /\ pc' \in {"run", "down"}
          /\ UNCHANGED <<table, bad, booked, stale>>
      BY <2>11 DEF ShutdownDone, Resume, SaveInv, Mapped, flashVars, badVars, pastVars
    <3> QED BY <3>1 DEF SaveInv, Mapped, Recorded
  <2>12. CASE UNCHANGED vars
    BY <2>12 DEF vars, SaveInv, Mapped, Recorded, Scanned, flashVars, badVars, saveVars, pastVars
  <2> QED BY <2>1, <2>2, <2>3, <2>4, <2>5, <2>6, <2>7, <2>8, <2>9, <2>10, <2>11, <2>12 DEF Next
<1>3. SaveInv => SavedOrBooked
  BY DEF SaveInv, SavedOrBooked, Recorded
<1> QED BY <1>1, <1>2, <1>3, TypeCorrect, PTL DEF Spec

-----------------------------------------------------------------------------
(* The map of the blocks.                                                  *)

\* The virtual blocks that have been found without a substitute.
Unmapped(d) ==
  {v \in VBlock : /\ v % UserBlocks < blockNo
                  /\ PhyOf(v) \in bad[d] /\ remapped[d][PhyOf(v)] = PhyOf(v)}

\* What is mapped away lies on a good block of the reserve of its LUN, before
\* where the search goes on; nothing lies on it a second time; and the blocks
\* not mapped are counted.
Substitutes(d) ==
  /\ \A l \in Lun : reserved[d][l] >= l * TotalBlocks + UserBlocks
  /\ \A p \in Phy : remapped[d][p] # p =>
       /\ p < LunOf(p) * TotalBlocks + blockNo
       /\ remapped[d][p] \in (LunOf(p) * TotalBlocks + UserBlocks)..(EndOf(LunOf(p)) - 1)
       /\ remapped[d][p] < reserved[d][LunOf(p)]
       /\ remapped[d][p] \notin bad[d]
  /\ \A p, q \in Phy :
       remapped[d][p] = remapped[d][q] /\ remapped[d][p] # p /\ remapped[d][q] # q => p = q
  /\ Cardinality(Unmapped(d)) <= badBlockCount[d]

\* Substitutes while they are sought, and the map they make.
MapInv ==
  /\ pc \in {"off", "erase_total", "read", "scan", "save", "mark"} => remapped = NoMemory.remapped
  /\ pc = "remap" => \A d \in Die : Table \in bad[d] /\ Substitutes(d)
  /\ BlocksApart /\ CapacityBacked

\* A block of the reserve of a LUN.
LEMMA ReserveOfLun ==
  ASSUME NEW l \in Lun, NEW r \in (l * TotalBlocks + UserBlocks)..(EndOf(l) - 1)
  PROVE  r \in Phy /\ LunOf(r) = l /\ r # Table
<1>1. /\ UserBlocks \in Nat /\ UserBlocks > 0 /\ TotalBlocks \in Nat /\ l \in {0, 1}
  BY Sizes
<1>2. r \in (l * TotalBlocks)..(EndOf(l) - 1) /\ r # Table
  <2>1. CASE l = 0
    BY <1>1, <2>1 DEF EndOf, Table
  <2>2. CASE l = 1
    BY <1>1, <2>2 DEF EndOf, Table
  <2> QED BY <1>1, <2>1, <2>2
<1> QED BY <1>2, BlocksOfLun

\* There are finitely many virtual blocks.
LEMMA VBlockFinite == IsFiniteSet(VBlock)
<1>1. 0 \in Int /\ (LunsPerDie * UserBlocks) - 1 \in Int
  BY Sizes
<1> QED BY <1>1, FS_Interval DEF VBlock

\* The search starts with nothing mapped.
LEMMA RemapStarts ==
  ASSUME TInv, MapInv, MarkTableBlocks
  PROVE  MapInv'
<1>1. /\ remapped' = NoMemory.remapped /\ pc' = "remap" /\ blockNo' = 0
      /\ bad' = [d \in Die |-> bad[d] \cup {Table}]
      /\ reserved' = [d \in Die |-> [l \in Lun |-> l * TotalBlocks + UserBlocks]]
      /\ badBlockCount' = NoMemory.zero
  BY DEF MarkTableBlocks, MapInv, mapVars
<1>2. ASSUME NEW d \in Die PROVE Table \in bad'[d] /\ Substitutes(d)'
  <2>1. \A p \in Phy : remapped'[d][p] = p
    BY <1>1 DEF NoMemory
  <2>2. \A l \in Lun : reserved'[d][l] >= l * TotalBlocks + UserBlocks
    <3> TAKE l \in Lun
    <3>1. l * TotalBlocks + UserBlocks \in Nat
      BY Sizes
    <3> QED BY <1>1, <3>1
  <2>3. Unmapped(d)' = {}
    <3>1. \A v \in VBlock : ~(v % UserBlocks < 0)
      BY BlockOfVirtual, Sizes
    <3> QED BY <1>1, <3>1 DEF Unmapped
  <2>4. Cardinality(Unmapped(d)') <= badBlockCount'[d]
    <3>1. badBlockCount'[d] = 0
      BY <1>1 DEF NoMemory
    <3> QED BY <2>3, <3>1, FS_EmptySet
  <2> QED BY <1>1, <2>1, <2>2, <2>4 DEF Substitutes
<1> QED BY <1>1, <1>2 DEF MapInv, BlocksApart, CapacityBacked, Mapped

\* What one round does to a block.
LEMMA RoundMoves ==
  ASSUME TypeOK, RemapBadBlock, NEW d \in Die, NEW p \in Phy,
         remapped'[d][p] # remapped[d][p]
  PROVE  /\ p = LunOf(p) * TotalBlocks + blockNo /\ p \in bad[d]
         /\ Good(d, LunOf(p)) # {} /\ remapped'[d][p] = Min(Good(d, LunOf(p)))
         /\ reserved'[d][LunOf(p)] = Min(Good(d, LunOf(p))) + 1
<1>1. remapped'[d][p] =
        IF p = LunOf(p) * TotalBlocks + blockNo /\ p \in bad[d] /\ Good(d, LunOf(p)) # {}
        THEN Min(Good(d, LunOf(p))) ELSE remapped[d][p]
  BY DEF RemapBadBlock
<1>2. LunOf(p) \in Lun
  BY LunOfBlock
<1> QED BY <1>1, <1>2 DEF RemapBadBlock, NextReserved

\* The search of a LUN only goes on.
LEMMA SearchGoesOn ==
  ASSUME TypeOK, RemapBadBlock, NEW d \in Die, NEW l \in Lun,
         reserved[d][l] >= l * TotalBlocks + UserBlocks
  PROVE  /\ reserved'[d][l] >= l * TotalBlocks + UserBlocks
         /\ \A r \in Nat : r < reserved[d][l] /\ r < EndOf(l) => r < reserved'[d][l]
<1> DEFINE m == Min(Good(d, l))
<1>1. /\ reserved[d][l] \in Nat /\ EndOf(l) \in Nat /\ l * TotalBlocks + UserBlocks \in Nat
      /\ l * TotalBlocks + UserBlocks <= EndOf(l)
  <2>1. TotalBlocks \in Nat /\ UserBlocks \in Nat /\ UserBlocks <= TotalBlocks /\ l \in {0, 1}
    BY Sizes
  <2>2. CASE l = 0
    BY <2>1, <2>2 DEF TypeOK, EndOf
  <2>3. CASE l = 1
    BY <2>1, <2>3 DEF TypeOK, EndOf
  <2> QED BY <2>1, <2>2, <2>3
<1>2. reserved'[d][l] \in {reserved[d][l], NextReserved(d, l)}
  BY DEF RemapBadBlock
<1>3. Good(d, l) # {} => m \in Nat /\ m >= reserved[d][l]
  <2>1. Good(d, l) # {} => m \in Good(d, l)
    BY GoodBlocks
  <2> QED BY <1>1, <2>1 DEF Good
<1>4. NextReserved(d, l) = IF Good(d, l) = {} THEN EndOf(l) ELSE m + 1
  BY DEF NextReserved
<1> HIDE DEF m
<1> QED BY <1>1, <1>2, <1>3, <1>4

\* The LUNs of a die and as many of its virtual blocks.
LEMMA ImageCount ==
  ASSUME NEW L \in SUBSET Lun, NEW n \in Nat, NEW N, N = {l * UserBlocks + n : l \in L}
  PROVE  IsFiniteSet(N) /\ Cardinality(N) <= Cardinality(L)
<1>0. Lun \subseteq {0, 1} /\ UserBlocks \in Nat
  BY Sizes
<1>1. CASE L = {}
  <2>1. N = {}
    BY <1>1
  <2> QED BY <1>1, <2>1, FS_EmptySet
<1>2. ASSUME NEW a \in Lun, L = {a} PROVE IsFiniteSet(N) /\ Cardinality(N) <= Cardinality(L)
  <2>1. N = {a * UserBlocks + n}
    BY <1>2
  <2>2. IsFiniteSet(N) /\ Cardinality(N) = 1 /\ Cardinality(L) = 1
    <3>1. \A x : IsFiniteSet({x}) /\ Cardinality({x}) = 1
      BY FS_Singleton
    <3> QED BY <1>2, <2>1, <3>1
  <2> QED BY <2>2
<1>3. CASE L = {0, 1}
  <2> DEFINE x == 0 * UserBlocks + n  y == 1 * UserBlocks + n
  <2>1. N = {x} \cup {y}
    BY <1>3
  <2>2. L = {0} \cup {1} /\ 1 \notin {0}
    BY <1>3
  <2>3. \A z : IsFiniteSet({z}) /\ Cardinality({z}) = 1
    BY FS_Singleton
  <2> HIDE DEF x, y
  <2>4. IsFiniteSet(N) /\ Cardinality(N) = IF y \in {x} THEN Cardinality({x}) ELSE Cardinality({x}) + 1
    <3>1. IsFiniteSet({x})
      BY <2>3
    <3>2. /\ IsFiniteSet({x} \cup {y})
          /\ Cardinality({x} \cup {y}) = IF y \in {x} THEN Cardinality({x}) ELSE Cardinality({x}) + 1
      BY ONLY <3>1, FS_AddElement
    <3> QED BY <2>1, <3>2
  <2>5. Cardinality(L) = Cardinality({0}) + 1
    BY <2>2, <2>3, FS_AddElement
  <2>6. Cardinality({x}) = 1 /\ Cardinality({0}) = 1
    BY <2>3
  <2> QED BY <2>4, <2>5, <2>6
<1>4. L = {} \/ (\E a \in Lun : L = {a}) \/ L = {0, 1}
  BY <1>0
<1> QED BY <1>1, <1>2, <1>3, <1>4

\* A round keeps what it found, and finds good blocks nothing lies on.
LEMMA RoundKeepsSubstitutes ==
  ASSUME TInv, RemapBadBlock, NEW d \in Die, Substitutes(d)
  PROVE  Substitutes(d)'
<1>0. /\ TypeOK /\ bad' = bad /\ blockNo \in Nat /\ blockNo' = blockNo + 1 /\ blockNo < UserBlocks
      /\ blockNo \in 0..(UserBlocks - 1) /\ blockNo' \in Nat
  BY Sizes DEF TInv, TypeOK, RemapBadBlock, badVars
<1> DEFINE Target(p) == remapped[d][p]  Target2(p) == remapped'[d][p]
<1>1. \A l \in Lun : reserved'[d][l] >= l * TotalBlocks + UserBlocks
  BY <1>0, SearchGoesOn DEF Substitutes
<1>2. \A l \in Lun : /\ l * TotalBlocks + UserBlocks \in Nat /\ EndOf(l) \in Nat
                     /\ l * TotalBlocks \in Nat /\ reserved[d][l] \in Nat /\ reserved'[d][l] \in Int
                     /\ l * TotalBlocks + UserBlocks <= EndOf(l)
  <2> TAKE l \in Lun
  <2>1. TotalBlocks \in Nat /\ UserBlocks \in Nat /\ UserBlocks <= TotalBlocks /\ l \in {0, 1}
    BY Sizes
  <2>2. reserved[d][l] \in Nat
    BY <1>0 DEF TypeOK
  <2>3. reserved'[d][l] \in {reserved[d][l], NextReserved(d, l)}
    BY DEF RemapBadBlock
  <2>4. NextReserved(d, l) \in Nat
    BY <1>0, GoodBlocks
  <2>5. CASE l = 0
    BY <2>1, <2>2, <2>3, <2>4, <2>5 DEF EndOf
  <2>6. CASE l = 1
    BY <2>1, <2>2, <2>3, <2>4, <2>6 DEF EndOf
  <2> QED BY <2>1, <2>5, <2>6
<1>3. \A p \in Phy : LunOf(p) \in Lun
  BY LunOfBlock
\* A block that moves in this round.
<1>4. ASSUME NEW p \in Phy, Target2(p) # Target(p)
      PROVE  /\ p = LunOf(p) * TotalBlocks + blockNo
             /\ Target2(p) \in (LunOf(p) * TotalBlocks + UserBlocks)..(EndOf(LunOf(p)) - 1)
             /\ Target2(p) >= reserved[d][LunOf(p)]
             /\ reserved'[d][LunOf(p)] = Target2(p) + 1
             /\ Target2(p) \notin bad[d]
  <2>1. /\ p = LunOf(p) * TotalBlocks + blockNo
        /\ Good(d, LunOf(p)) # {} /\ Target2(p) = Min(Good(d, LunOf(p)))
        /\ reserved'[d][LunOf(p)] = Min(Good(d, LunOf(p))) + 1
    BY <1>0, <1>4, RoundMoves
  <2>2. Target2(p) \in Good(d, LunOf(p))
    BY <1>0, <1>3, <2>1, GoodBlocks
  <2>3. /\ Target2(p) \in reserved[d][LunOf(p)]..(EndOf(LunOf(p)) - 1)
        /\ Target2(p) \notin bad[d]
    BY <2>2 DEF Good
  <2>4. reserved[d][LunOf(p)] >= LunOf(p) * TotalBlocks + UserBlocks
    BY <1>3 DEF Substitutes
  <2> HIDE DEF Target2
  <2>5. Target2(p) \in (LunOf(p) * TotalBlocks + UserBlocks)..(EndOf(LunOf(p)) - 1)
        /\ Target2(p) >= reserved[d][LunOf(p)]
    BY <1>2, <1>3, <2>3, <2>4
  <2> QED BY <2>1, <2>3, <2>5
<1>5. ASSUME NEW p \in Phy, Target2(p) # p
      PROVE  /\ p < LunOf(p) * TotalBlocks + blockNo'
             /\ Target2(p) \in (LunOf(p) * TotalBlocks + UserBlocks)..(EndOf(LunOf(p)) - 1)
             /\ Target2(p) < reserved'[d][LunOf(p)]
             /\ Target2(p) \notin bad'[d]
  <2>0. p \in Nat /\ LunOf(p) \in Lun
    BY <1>3 DEF Phy
  <2>1. CASE Target2(p) # Target(p)
    <3> HIDE DEF Target, Target2
    <3> QED BY <1>0, <1>2, <1>4, <2>0, <2>1
  <2>2. CASE Target2(p) = Target(p)
    <3>1. /\ p < LunOf(p) * TotalBlocks + blockNo
          /\ Target(p) \in (LunOf(p) * TotalBlocks + UserBlocks)..(EndOf(LunOf(p)) - 1)
          /\ Target(p) < reserved[d][LunOf(p)] /\ Target(p) \notin bad[d]
      BY <1>5, <2>2 DEF Substitutes
    <3>2. \A r \in Nat : r < reserved[d][LunOf(p)] /\ r < EndOf(LunOf(p))
                         => r < reserved'[d][LunOf(p)]
      BY <1>0, <2>0, SearchGoesOn DEF Substitutes
    <3> HIDE DEF Target, Target2
    <3>3. Target(p) \in Nat /\ Target(p) < EndOf(LunOf(p))
      BY <1>2, <2>0, <3>1
    <3>4. p < LunOf(p) * TotalBlocks + blockNo'
      BY <1>0, <1>2, <2>0, <3>1
    <3> QED BY <1>0, <2>2, <3>1, <3>2, <3>3, <3>4
  <2> QED BY <2>1, <2>2
<1>6. ASSUME NEW p \in Phy, NEW q \in Phy, Target2(p) = Target2(q), Target2(p) # p, Target2(q) # q
      PROVE  p = q
  <2>0. LunOf(p) = LunOf(q)
    <3>1. /\ Target2(p) \in (LunOf(p) * TotalBlocks + UserBlocks)..(EndOf(LunOf(p)) - 1)
          /\ Target2(q) \in (LunOf(q) * TotalBlocks + UserBlocks)..(EndOf(LunOf(q)) - 1)
      BY <1>5, <1>6
    <3>2. LunOf(Target2(p)) = LunOf(p) /\ LunOf(Target2(q)) = LunOf(q)
      <4> HIDE DEF Target2
      <4> QED BY <1>3, <3>1, ReserveOfLun
    <3> QED BY <1>6, <3>2
  <2>1. CASE Target2(p) # Target(p) /\ Target2(q) # Target(q)
    BY <1>4, <2>0, <2>1
  <2>2. ASSUME NEW x \in Phy, NEW y \in Phy, Target2(x) = Target2(y), LunOf(x) = LunOf(y),
               Target2(x) # Target(x), Target2(y) = Target(y), Target2(y) # y
        PROVE  FALSE
    <3>1. Target(y) < reserved[d][LunOf(y)]
          /\ Target(y) \in (LunOf(y) * TotalBlocks + UserBlocks)..(EndOf(LunOf(y)) - 1)
      BY <2>2 DEF Substitutes
    <3>2. Target2(x) >= reserved[d][LunOf(x)]
      BY <1>4, <2>2
    <3> HIDE DEF Target, Target2
    <3>3. Target(y) \in Int /\ reserved[d][LunOf(y)] \in Nat
      BY <1>2, <1>3, <3>1
    <3> QED BY <2>2, <3>1, <3>2, <3>3
  <2>3. CASE Target2(p) = Target(p) /\ Target2(q) = Target(q)
    BY <1>6, <2>3 DEF Substitutes
  <2> HIDE DEF Target, Target2
  <2> QED BY <1>6, <2>0, <2>1, <2>2, <2>3
\* The blocks found without a substitute.
<1> DEFINE L == {l \in Lun : l * TotalBlocks + blockNo \in bad[d] /\ Good(d, l) = {}}
           N == {l * UserBlocks + blockNo : l \in L}
<1>7. Unmapped(d)' \subseteq Unmapped(d) \cup N
  <2> SUFFICES ASSUME NEW v \in Unmapped(d)', v \notin Unmapped(d) PROVE v \in N
    OBVIOUS
  <2>1. /\ v \in VBlock /\ v % UserBlocks < blockNo' /\ PhyOf(v) \in bad[d]
        /\ Target2(PhyOf(v)) = PhyOf(v)
    BY <1>0 DEF Unmapped
  <2>2. PICK l \in Lun, n \in 0..(UserBlocks - 1) :
          v = l * UserBlocks + n /\ n = v % UserBlocks /\ PhyOf(v) = l * TotalBlocks + n
    BY <2>1, VirtualBlock
  <2>3. PhyOf(v) \in Phy /\ LunOf(PhyOf(v)) = l
    BY <2>2, UserBlock
  <2>4. n = blockNo
    <3> SUFFICES ASSUME n # blockNo PROVE FALSE
      OBVIOUS
    <3>1. n < blockNo
      <4>1. n < blockNo + 1 /\ n \in Nat
        BY <1>0, <2>1, <2>2, Sizes
      <4> QED BY <1>0, <4>1
    <3>2. Target2(PhyOf(v)) = Target(PhyOf(v))
      <4> SUFFICES ASSUME Target2(PhyOf(v)) # Target(PhyOf(v)) PROVE FALSE
        OBVIOUS
      <4>1. PhyOf(v) = l * TotalBlocks + blockNo
        BY <1>4, <2>3
      <4>2. l * TotalBlocks \in Nat /\ n \in Nat
        BY <1>2, Sizes
      <4> QED BY <1>0, <2>2, <3>1, <4>1, <4>2
    <3>3. v \in Unmapped(d)
      BY <2>1, <2>2, <3>1, <3>2 DEF Unmapped
    <3> QED BY <3>3
  <2>5. Good(d, l) = {}
    <3> SUFFICES ASSUME Good(d, l) # {} PROVE FALSE
      OBVIOUS
    <3>1. Target2(PhyOf(v)) = Min(Good(d, l))
      BY <2>1, <2>2, <2>3, <2>4 DEF RemapBadBlock
    <3>2. Min(Good(d, l)) \in Good(d, l)
      BY <1>0, GoodBlocks
    <3>3. Min(Good(d, l)) \in reserved[d][l]..(EndOf(l) - 1)
      BY <3>2 DEF Good
    <3>4. reserved[d][l] >= l * TotalBlocks + UserBlocks
      BY DEF Substitutes
    <3>5. l * TotalBlocks \in Nat /\ reserved[d][l] \in Nat /\ EndOf(l) \in Nat /\ UserBlocks \in Nat
      BY <1>2, Sizes
    <3>6. Min(Good(d, l)) = l * TotalBlocks + blockNo
      BY <2>1, <2>2, <2>4, <3>1
    <3> QED BY <1>0, <3>3, <3>4, <3>5, <3>6
  <2> QED BY <2>1, <2>2, <2>4, <2>5
<1>8. Cardinality(Unmapped(d)') <= badBlockCount'[d]
  <2>1. badBlockCount'[d] = badBlockCount[d] + Cardinality(L)
    BY DEF RemapBadBlock
  <2>2. L \in SUBSET Lun
    OBVIOUS
  <2> DEFINE U == Unmapped(d)  U2 == Unmapped(d)'
  <2>3. U \in SUBSET VBlock
    BY DEF Unmapped
  <2> HIDE DEF L
  <2>4. IsFiniteSet(N) /\ Cardinality(N) <= Cardinality(L)
    BY <1>0, <2>2, ImageCount
  <2>5. IsFiniteSet(U)
    BY <2>3, VBlockFinite, FS_Subset
  <2>6. Cardinality(U) <= badBlockCount[d]
    BY DEF Substitutes
  <2>7. U2 \subseteq U \cup N
    BY <1>7
  <2> HIDE DEF N, U, U2
  <2>8. /\ IsFiniteSet(U \cup N)
        /\ Cardinality(U \cup N) = Cardinality(U) + Cardinality(N) - Cardinality(U \cap N)
    BY <2>4, <2>5, FS_Union
  <2>9. IsFiniteSet(U2) /\ Cardinality(U2) <= Cardinality(U \cup N)
    <3>1. U2 \in SUBSET (U \cup N)
      BY <2>7
    <3> QED BY <2>8, <3>1, FS_Subset
  <2>10. IsFiniteSet(U \cap N) /\ IsFiniteSet(L)
    <3>1. U \cap N \in SUBSET U
      OBVIOUS
    <3>2. IsFiniteSet(Lun)
      BY Sizes, FS_Interval DEF Lun
    <3> QED BY <2>2, <2>5, <3>1, <3>2, FS_Subset
  <2>11. /\ Cardinality(U) \in Nat /\ Cardinality(N) \in Nat /\ Cardinality(U \cap N) \in Nat
         /\ Cardinality(L) \in Nat /\ Cardinality(U2) \in Nat /\ badBlockCount[d] \in Nat
    BY <1>0, <2>4, <2>5, <2>9, <2>10, FS_CardinalityType DEF TypeOK
  <2>12. Cardinality(U2) <= badBlockCount'[d]
    BY <2>1, <2>4, <2>6, <2>8, <2>9, <2>11
  <2> QED BY <2>12 DEF U2
<1> QED BY <1>1, <1>5, <1>6, <1>8 DEF Substitutes

\* The end of the search: what is in use lies on good blocks.
LEMMA MapEnds ==
  ASSUME TInv, MapInv, InitBlockMap
  PROVE  MapInv'
<1>0. /\ TypeOK /\ pc = "remap" /\ blockNo = UserBlocks
      /\ remapped' = remapped /\ bad' = bad
      /\ pc' \in {"run", "erase_user"}
      /\ vbad' = [d \in Die |-> {v \in VBlock : remapped[d][PhyOf(v)] \in bad[d]}]
      /\ lost' = MaxBadBlockCount
  BY DEF TInv, InitBlockMap, badVars
<1>1. ASSUME NEW d \in Die, NEW v \in Usable(d)'
      PROVE  /\ v \in VBlock /\ PhyOf(v) \in Phy /\ Place(d, v)' = remapped[d][PhyOf(v)]
             /\ Place(d, v)' # Table
             /\ LunOf(Place(d, v)') = LunOf(PhyOf(v))
             /\ \A page \in Page : BlockOf(d, v, page)' = Place(d, v)'
             /\ Place(d, v)' # PhyOf(v) =>
                  Place(d, v)' \in (LunOf(PhyOf(v)) * TotalBlocks + UserBlocks)
                                   ..(EndOf(LunOf(PhyOf(v))) - 1)
  <2>1. v \in VBlock /\ Place(d, v)' = remapped[d][PhyOf(v)] /\ remapped[d][PhyOf(v)] \notin bad[d]
    BY <1>0, <1>1 DEF Usable, Place
  <2>2. PhyOf(v) \in Phy /\ LunOf(PhyOf(v)) \in Lun
    BY <2>1, BlockOfVirtual, LunOfBlock
  <2>3. Table \in bad[d] /\ Substitutes(d)
    BY <1>0 DEF MapInv
  <2>4. remapped[d][PhyOf(v)] # PhyOf(v) =>
          remapped[d][PhyOf(v)] \in (LunOf(PhyOf(v)) * TotalBlocks + UserBlocks)
                                   ..(EndOf(LunOf(PhyOf(v))) - 1)
    BY <2>2, <2>3 DEF Substitutes
  <2>5. LunOf(remapped[d][PhyOf(v)]) = LunOf(PhyOf(v))
    BY <2>2, <2>4, ReserveOfLun
  <2>6. \A page \in Page : BlockOf(d, v, page)' = Place(d, v)'
    <3>1. LunOf(Place(d, v)) = LunOf(PhyOf(v))
      BY <2>5 DEF Place
    <3>2. \A page \in Page : BlockOf(d, v, page)' = BlockOf(d, v, page)
      BY <1>0 DEF BlockOf
    <3> QED BY <1>0, <2>1, <3>1, <3>2, RequestFindsPlace DEF Place
  <2> QED BY <2>1, <2>2, <2>3, <2>4, <2>5, <2>6
<1>2. ASSUME NEW d \in Die, NEW v \in Usable(d)', NEW w \in Usable(d)', Place(d, v)' = Place(d, w)'
      PROVE  v = w
  <2>1. /\ v \in VBlock /\ w \in VBlock
        /\ Place(d, v)' = remapped[d][PhyOf(v)] /\ Place(d, w)' = remapped[d][PhyOf(w)]
    BY <1>1
  <2>2. PhyOf(v) = PhyOf(w) => v = w
    BY <2>1, BlockOfVirtual
  <2>3. CASE Place(d, v)' = PhyOf(v) /\ Place(d, w)' = PhyOf(w)
    BY <1>2, <2>2, <2>3
  <2>4. CASE Place(d, v)' # PhyOf(v) /\ Place(d, w)' # PhyOf(w)
    <3>1. PhyOf(v) \in Phy /\ PhyOf(w) \in Phy /\ Substitutes(d)
      BY <1>0, <1>1 DEF MapInv
    <3> QED BY <1>2, <2>1, <2>2, <2>4, <3>1 DEF Substitutes
  <2>5. ASSUME NEW x \in Usable(d)', NEW y \in Usable(d)', Place(d, x)' = Place(d, y)',
               Place(d, x)' = PhyOf(x), Place(d, y)' # PhyOf(y)
        PROVE  FALSE
    <3> DEFINE l == LunOf(PhyOf(y))  n == x % UserBlocks  t == PhyOf(x)
    <3>1. LunOf(t) = l
      BY <1>1, <2>5
    <3>2. t = l * TotalBlocks + n /\ n \in 0..(UserBlocks - 1)
      BY <1>1, <3>1, BlockOfVirtual
    <3>3. t \in (l * TotalBlocks + UserBlocks)..(EndOf(l) - 1)
      BY <1>1, <2>5
    <3>4. l \in Lun
      BY <1>1, LunOfBlock
    <3> HIDE DEF l, n, t
    <3>5. l * TotalBlocks \in Nat /\ UserBlocks \in Nat /\ EndOf(l) \in Nat
      <4>1. TotalBlocks \in Nat /\ UserBlocks \in Nat /\ l \in {0, 1}
        BY <3>4, Sizes
      <4>2. CASE l = 0
        BY <4>1, <4>2 DEF EndOf
      <4>3. CASE l = 1
        BY <4>1, <4>3 DEF EndOf
      <4> QED BY <4>1, <4>2, <4>3
    <3> QED BY <3>2, <3>3, <3>5
  <2> QED BY <1>2, <2>3, <2>4, <2>5
<1>3. BlocksApart'
  BY <1>1, <1>2 DEF BlocksApart
<1>4. ASSUME NEW d \in Die PROVE Cardinality(Usable(d)') >= Cardinality(VBlock) - lost'
  <2> DEFINE B == vbad'[d]  U == Unmapped(d)
  <2>1. B \subseteq U
    <3> SUFFICES ASSUME NEW v \in B PROVE v \in U
      OBVIOUS
    <3>1. v \in VBlock /\ remapped[d][PhyOf(v)] \in bad[d]
      BY <1>0
    <3>2. PhyOf(v) \in Phy /\ v % UserBlocks < UserBlocks
      BY <3>1, BlockOfVirtual, Sizes
    <3>3. remapped[d][PhyOf(v)] = PhyOf(v)
      <4>1. Substitutes(d)
        BY <1>0 DEF MapInv
      <4> QED BY <3>1, <3>2, <4>1 DEF Substitutes
    <3> QED BY <1>0, <3>1, <3>2, <3>3 DEF Unmapped
  <2>2. B \subseteq VBlock /\ U \subseteq VBlock
    BY <1>0 DEF Unmapped
  <2>3. Usable(d)' = VBlock \ B
    BY DEF Usable
  <2>4. Cardinality(U) <= badBlockCount[d]
    BY <1>0 DEF MapInv, Substitutes
  <2>5. /\ badBlockCount[d] <= lost' /\ lost' \in Nat /\ badBlockCount[d] \in Nat
    BY <1>0, LostType DEF TypeOK
  <2> HIDE DEF B, U
  <2>6. IsFiniteSet(U) /\ IsFiniteSet(B) /\ Cardinality(B) <= Cardinality(U)
    <3>1. IsFiniteSet(U)
      BY <2>2, VBlockFinite, FS_Subset
    <3> QED BY <2>1, <3>1, FS_Subset
  <2>7. Cardinality(VBlock \ B) = Cardinality(VBlock) - Cardinality(VBlock \cap B)
    BY VBlockFinite, FS_Difference
  <2>8. VBlock \cap B = B
    BY <2>2
  <2>9. Cardinality(U) \in Nat /\ Cardinality(B) \in Nat /\ Cardinality(VBlock) \in Nat
    BY <2>6, VBlockFinite, FS_CardinalityType
  <2> QED BY <2>3, <2>4, <2>5, <2>6, <2>7, <2>8, <2>9
<1>5. CapacityBacked'
  BY <1>4 DEF CapacityBacked
<1> QED BY <1>0, <1>3, <1>5 DEF MapInv

\* Requests change their way only with the map.
LEMMA SameRequests ==
  ASSUME UNCHANGED remapped
  PROVE  \A d, v, page : BlockOf(d, v, page)' = BlockOf(d, v, page)
BY DEF BlockOf

\* The map is built by the boot and left alone by everything else.
LEMMA MapInvInductive ==
  ASSUME TInv, MapInv, [Next]_vars
  PROVE  MapInv'
<1>1. CASE MarkTableBlocks
  BY <1>1, RemapStarts
<1>2. CASE RemapBadBlock
  <2>1. \A d \in Die : Table \in bad'[d] /\ Substitutes(d)'
    BY <1>2, RoundKeepsSubstitutes DEF RemapBadBlock, MapInv, badVars
  <2>2. pc' = "remap"
    BY <1>2 DEF RemapBadBlock
  <2> QED BY <2>1, <2>2 DEF MapInv, BlocksApart, CapacityBacked, Mapped
<1>3. CASE InitBlockMap
  BY <1>3, MapEnds
<1>4. CASE PowerCut
  BY <1>4 DEF PowerCut, MapInv, BlocksApart, CapacityBacked, Mapped
<1>5. CASE UNCHANGED vars
  <2>1. UNCHANGED <<bad, remapped, vbad, lost, pc, blockNo, reserved, badBlockCount>>
    BY <1>5 DEF vars, mapVars, badVars, remapVars
  <2>2. BlocksApart' /\ CapacityBacked'
    BY <2>1, SameRequests DEF MapInv, BlocksApart, CapacityBacked, Mapped, Usable, Place
  <2> QED BY <2>1, <2>2 DEF MapInv, Substitutes, Unmapped
\* A step that leaves the map alone.
<1>6. ASSUME UNCHANGED mapVars, pc' # "remap", Mapped' => Mapped,
             pc' \in {"off", "erase_total", "read", "scan", "save", "mark"} =>
               pc \in {"off", "erase_total", "read", "scan", "save", "mark"}
      PROVE  MapInv'
  <2>1. BlocksApart' /\ CapacityBacked'
    BY <1>6, SameRequests DEF MapInv, BlocksApart, CapacityBacked, Usable, Place, mapVars
  <2> QED BY <1>6, <2>1 DEF MapInv, mapVars
<1>7. CASE PowerOn \/ EraseTotalBlockSpace
  BY <1>6, <1>7 DEF PowerOn, EraseTotalBlockSpace, Mapped
<1>8. ASSUME NEW failed \in SUBSET Die, ReadBadBlockTable(failed) \/ FindBadBlock(failed)
      PROVE  MapInv'
  <2>1. pc \in {"read", "scan"} /\ pc' \in {"mark", "scan", "save"} /\ UNCHANGED mapVars
    BY <1>8 DEF ReadBadBlockTable, FindBadBlock
  <2> QED BY <1>6, <2>1 DEF Mapped
<1>9. ASSUME NEW d \in Die, SaveErase(d) \/ SaveWrite(d) PROVE MapInv'
  <2>1. pc' = pc /\ pc \in {"save", "flush"} /\ UNCHANGED mapVars
    BY <1>9 DEF SaveErase, SaveWrite
  <2> QED BY <1>6, <2>1 DEF Mapped
<1>10. CASE EraseUserBlockSpace
  <2>1. pc = "erase_user" /\ pc' \in {"erase_user", "run"} /\ UNCHANGED mapVars
    BY <1>10 DEF EraseUserBlockSpace
  <2> QED BY <1>6, <2>1 DEF Mapped
<1>11. ASSUME NEW d \in Die, NEW v \in VBlock, NEW page \in Page, UseBlock(d, v, page)
       PROVE  MapInv'
  <2>1. pc' = pc /\ pc \in {"run", "flush"} /\ UNCHANGED mapVars
    BY <1>11 DEF UseBlock
  <2> QED BY <1>6, <2>1 DEF Mapped
<1>12. CASE Shutdown \/ ShutdownDone \/ Resume
  <2>1. pc \in {"run", "flush", "down"} /\ pc' \in {"run", "flush", "down"} /\ UNCHANGED mapVars
    BY <1>12 DEF Shutdown, ShutdownDone, Resume
  <2> QED BY <1>6, <2>1 DEF Mapped
<1> QED BY <1>1, <1>2, <1>3, <1>4, <1>5, <1>7, <1>8, <1>9, <1>10, <1>11, <1>12 DEF Next

\* The map stays as it was proved at the boot: no two virtual blocks in use on a
\* block, whatever blocks are bad (RemapBadBlock, InitBlockMap).
THEOREM BlocksApartHolds == Spec => []BlocksApart
<1>1. Init => MapInv
  BY DEF Init, MapInv, BlocksApart, CapacityBacked, Mapped
<1>2. TInv /\ MapInv /\ [Next]_vars => MapInv'
  BY MapInvInductive
<1>3. MapInv => BlocksApart
  BY DEF MapInv
<1> QED BY <1>1, <1>2, <1>3, TypeCorrect, PTL DEF Spec

\* Every die has the blocks the advertised capacity counts on (mbPerbadBlockSpace).
THEOREM CapacityBackedHolds == Spec => []CapacityBacked
<1>1. Init => MapInv
  BY DEF Init, MapInv, BlocksApart, CapacityBacked, Mapped
<1>2. TInv /\ MapInv /\ [Next]_vars => MapInv'
  BY MapInvInductive
<1>3. MapInv => CapacityBacked
  BY DEF MapInv
<1> QED BY <1>1, <1>2, <1>3, TypeCorrect, PTL DEF Spec

-----------------------------------------------------------------------------
(* A boot avoids what is known to be bad.                                  *)

\* Its table, if one is written, names them.
InTable(S, d) == table[d].state = "written" => S \ {Table} \subseteq table[d].bad

\* What a die's table must name to be of use to the next boot: what was known when
\* the last shutdown began, and the maker's marks.
TableKnows(d) ==
  /\ InTable(kept[d], d)
  /\ d \notin stale => InTable(FactoryBad[d], d)

\* The same, of memory.
MemoryKnows(d) ==
  /\ kept[d] \subseteq told[d] /\ told[d] \ {Table} \subseteq bad[d]
  /\ d \notin stale => FactoryBad[d] \ {Table} \subseteq bad[d]

\* The scan of a die, up to the block it has come to.
ScanKnows(d) ==
  /\ kept[d] = {} /\ told[d] \subseteq 0..(blockNo - 1)
  /\ told[d] \cup (FactoryBad[d] \cap 0..(blockNo - 1)) \subseteq bad[d] \cap image[d]

\* The image of a table not yet written, at the boot, and the memory beside it.
NewImageKnows(d) ==
  kept[d] = {} /\ (told[d] \cup FactoryBad[d]) \ {Table} \subseteq image[d] \cap bad[d]

\* The shutdown in progress saves what was known when it began, in the table or in
\* the image of it.
FlushKnows(d) ==
  /\ kept[d] \subseteq atShutdown[d] /\ atShutdown[d] \subseteq told[d]
  /\ todo[d] = "done" => InTable(atShutdown[d], d)
  /\ todo[d] # "done" =>
       /\ d \in booked /\ atShutdown[d] \ {Table} \subseteq image[d]
       /\ d \notin stale => FactoryBad[d] \ {Table} \subseteq image[d]

\* What each phase of a boot, a run and a shutdown knows of a die.
DieKnown(d) ==
  /\ clean[d] \cap FactoryBad[d] = {} /\ TableKnows(d)
  /\ pc = "scan" => IF d \in Scanned THEN ScanKnows(d)
                    ELSE MemoryKnows(d) /\ InTable(told[d], d)
  /\ pc = "save" => /\ MemoryKnows(d)
                    /\ IF todo[d] = "done" THEN InTable(told[d], d) ELSE NewImageKnows(d)
  /\ pc \in {"mark", "remap"} => MemoryKnows(d) /\ InTable(told[d], d)
  /\ Mapped => MemoryKnows(d) /\ (d \in booked \/ InTable(told[d], d))
  /\ pc = "flush" => FlushKnows(d)

\* Every phase knows what it has to; this is inductive.
AvoidInv == \A d \in Die : DieKnown(d)

\* What an operation on block p of die d leaves of a die: no maker's mark is
\* erased, a table is as it was or not there, and what is found bad is told.
Operated(d, p, e) ==
  /\ clean'[e] \cap FactoryBad[e] \subseteq clean[e]
  /\ table'[e] = table[e] \/ table'[e].state # "written"
  /\ e \in booked => e \in booked'
  /\ \/ bad'[e] = bad[e] /\ told'[e] = told[e]
     \/ e = d /\ e \in booked' /\ bad'[e] = bad[e] \cup {p} /\ told'[e] = told[e] \cup {p}

\* A failure is told, and its die booked.
LEMMA FailureOperates ==
  ASSUME TypeOK, NEW d \in Die, NEW p \in Phy, UpdatePhyBlockMapForGrownBadBlock(d, p), NEW e \in Die
  PROVE  /\ e \in booked => e \in booked'
         /\ \/ bad'[e] = bad[e] /\ told'[e] = told[e]
            \/ e = d /\ e \in booked' /\ bad'[e] = bad[e] \cup {p} /\ told'[e] = told[e] \cup {p}
BY DEF TypeOK, UpdatePhyBlockMapForGrownBadBlock

\* An erase removes no maker's mark, and of a table it leaves nothing or all.
LEMMA EraseOperates ==
  ASSUME TypeOK, NEW d \in Die, NEW p \in Phy, EraseBlock(d, p), NEW e \in Die
  PROVE  Operated(d, p, e)
<1>1. clean'[e] \cap FactoryBad[e] \subseteq clean[e]
  <2>1. CASE p \notin FactoryBad[d] /\ clean' = [clean EXCEPT ![d] = @ \cup {p}]
    <3>1. CASE e = d
      <4>1. clean'[e] = clean[e] \cup {p}
        BY <2>1, <3>1 DEF TypeOK
      <4> QED BY <2>1, <3>1, <4>1
    <3>2. CASE e # d
      BY <2>1, <3>2 DEF TypeOK
    <3> QED BY <3>1, <3>2
  <2>2. CASE UNCHANGED clean
    BY <2>2
  <2> QED BY <2>1, <2>2 DEF EraseBlock
<1>2. table'[e] = table[e] \/ table'[e].state # "written"
  <2>1. CASE e = d
    BY <2>1, EraseRecorded
  <2>2. CASE e # d
    BY <2>2, EraseRecorded
  <2> QED BY <2>1, <2>2
<1>3. CASE UNCHANGED <<badVars, told, failures>>
  BY <1>1, <1>2, <1>3 DEF Operated, badVars
<1>4. CASE UpdatePhyBlockMapForGrownBadBlock(d, p)
  BY <1>1, <1>2, <1>4, FailureOperates DEF Operated
<1> QED BY <1>3, <1>4 DEF EraseBlock

\* An operation unlearns nothing.
LEMMA OperatedKnows ==
  ASSUME NEW d \in Die, NEW p \in Phy, NEW e \in Die, Operated(d, p, e),
         kept' = kept, stale' = stale
  PROVE  /\ clean[e] \cap FactoryBad[e] = {} => clean'[e] \cap FactoryBad[e] = {}
         /\ TableKnows(e) => TableKnows(e)'
         /\ MemoryKnows(e) => MemoryKnows(e)'
         /\ e \in booked \/ InTable(told[e], e) => e \in booked' \/ InTable(told[e], e)'
         /\ \A S : InTable(S, e) => InTable(S, e)'
         /\ told[e] \subseteq told'[e]
<1>1. \A S : InTable(S, e) => InTable(S, e)'
  BY DEF Operated, InTable
<1>2. TableKnows(e) => TableKnows(e)'
  BY DEF Operated, InTable, TableKnows
<1>3. MemoryKnows(e) => MemoryKnows(e)'
  BY DEF Operated, MemoryKnows
<1>4. e \in booked \/ InTable(told[e], e) => e \in booked' \/ InTable(told[e], e)'
  BY DEF Operated, InTable
<1> QED BY <1>1, <1>2, <1>3, <1>4 DEF Operated

\* So of the device that runs.
LEMMA RunningKnows ==
  ASSUME NEW d \in Die, NEW p \in Phy, \A e \in Die : Operated(d, p, e), AvoidInv,
         kept' = kept, stale' = stale, atShutdown' = atShutdown, image' = image,
         pc' = pc, todo' = todo, Mapped
  PROVE  AvoidInv'
<1> SUFFICES ASSUME NEW e \in Die PROVE DieKnown(e)'
  BY DEF AvoidInv
<1>1. /\ DieKnown(e) /\ Operated(d, p, e) /\ Mapped'
      /\ pc \notin {"scan", "save", "mark", "remap"}
  BY DEF AvoidInv, Mapped
<1>2. /\ clean'[e] \cap FactoryBad[e] = {} /\ TableKnows(e)'
      /\ MemoryKnows(e)' /\ (e \in booked' \/ InTable(told[e], e)')
  BY <1>1, OperatedKnows DEF DieKnown
<1>3. pc = "flush" => FlushKnows(e)'
  <2>1. (\A S : InTable(S, e) => InTable(S, e)') /\ told[e] \subseteq told'[e]
    BY <1>1, OperatedKnows
  <2>2. InTable(atShutdown[e], e) => InTable(atShutdown[e], e)'
    BY <2>1 DEF InTable
  <2>3. pc = "flush" => FlushKnows(e)
    BY <1>1 DEF DieKnown
  <2>4. e \in booked => e \in booked'
    BY <1>1 DEF Operated
  <2> QED BY <2>1, <2>2, <2>3, <2>4 DEF FlushKnows
<1> QED BY <1>1, <1>2, <1>3 DEF DieKnown

\* A boot that ends has put nothing on a block it knows to be bad.
LEMMA BootAvoids ==
  ASSUME TInv, MapInv, AvoidInv, [Next]_vars, ~Mapped, Mapped',
         NEW d \in Die, NEW v \in VBlock \ vbad'[d]
  PROVE  /\ Place(d, v) \notin kept[d]
         /\ d \notin stale => Place(d, v) \notin FactoryBad[d]
<1>1. InitBlockMap
  <2>1. pc \notin {"run", "flush", "down", "erase_user"} /\ pc' \in {"run", "flush", "down", "erase_user"}
    BY DEF Mapped
  <2>2. ASSUME NEW failed \in SUBSET Die, ReadBadBlockTable(failed) \/ FindBadBlock(failed)
        PROVE  FALSE
    BY <2>1, <2>2 DEF ReadBadBlockTable, FindBadBlock
  <2>3. ASSUME NEW e \in Die, SaveErase(e) \/ SaveWrite(e) PROVE FALSE
    BY <2>1, <2>3 DEF SaveErase, SaveWrite
  <2>4. ASSUME NEW e \in Die, NEW w \in VBlock, NEW page \in Page, UseBlock(e, w, page) PROVE FALSE
    BY <2>1, <2>4 DEF UseBlock
  <2>5. ~UNCHANGED vars
    BY <2>1 DEF vars
  <2>6. ~PowerOn /\ ~EraseTotalBlockSpace /\ ~MarkTableBlocks /\ ~RemapBadBlock
    BY <2>1 DEF PowerOn, EraseTotalBlockSpace, MarkTableBlocks, RemapBadBlock
  <2>7. ~EraseUserBlockSpace /\ ~Shutdown /\ ~ShutdownDone /\ ~Resume /\ ~PowerCut
    BY <2>1 DEF EraseUserBlockSpace, Shutdown, ShutdownDone, Resume, PowerCut
  <2> QED BY <2>2, <2>3, <2>4, <2>5, <2>6, <2>7 DEF Next
<1>2. pc = "remap" /\ vbad' = [e \in Die |-> {w \in VBlock : remapped[e][PhyOf(w)] \in bad[e]}]
  BY <1>1 DEF InitBlockMap
<1>3. Place(d, v) \notin bad[d]
  BY <1>2 DEF Place
<1>4. MemoryKnows(d) /\ Table \in bad[d]
  BY <1>2 DEF AvoidInv, DieKnown, MapInv
<1> QED BY <1>3, <1>4 DEF MemoryKnows

\* The read of the tables: a die that has one knows what it names, and one that
\* has none is to be scanned.
LEMMA ReadKnows ==
  ASSUME TInv, AvoidInv, NEW failed \in SUBSET Die, ReadBadBlockTable(failed)
  PROVE  AvoidInv'
<1> SUFFICES ASSUME NEW d \in Die PROVE DieKnown(d)'
  BY DEF AvoidInv
<1>0. TypeOK /\ CountBounded /\ DieKnown(d)
  BY DEF TInv, AvoidInv
<1>1. PICK r \in [Die -> BOOLEAN \X SUBSET Phy] :
        /\ \A e \in Die : r[e] \in Readings(e, e \in failed)
        /\ bad' = [e \in Die |-> IF r[e][1] THEN r[e][2]
                                ELSE IF e \in failed THEN bad[e] \cup {Table} ELSE bad[e]]
        /\ dieState' = [e \in Die |-> IF r[e][1] THEN "EXIST" ELSE "NOT_EXIST"]
        /\ pc' = IF \A e \in Die : r[e][1] THEN "mark" ELSE "scan"
  BY DEF ReadBadBlockTable
<1> DEFINE sound == {e \in Die : table[e].state = "written" /\ e \notin failed}
<1>2. /\ table' = table /\ clean' = clean /\ told' = kept' /\ blockNo' = 0
      /\ kept' = [e \in Die |-> IF e \in sound THEN kept[e] ELSE {}]
      /\ stale' = {e \in Die : \/ dieState'[e] = "EXIST" /\ e \notin sound
                               \/ e \in stale /\ table[e].state = "written"}
  BY <1>0 DEF ReadBadBlockTable, CountBounded, flashVars
<1>3. ASSUME d \in sound PROVE r[d][1] /\ r[d][2] = table[d].bad /\ table[d].state = "written"
  <2>1. table[d].state = "written" /\ d \notin failed
    BY <1>3
  <2>2. r[d] = <<TRUE, table[d].bad>>
    BY <1>1, <2>1 DEF Readings
  <2> QED BY <2>1, <2>2
<1>4. kept'[d] = IF d \in sound THEN kept[d] ELSE {}
  BY <1>2
<1>5. d \in stale' <=> (r[d][1] /\ d \notin sound) \/ (d \in stale /\ table[d].state = "written")
  BY <1>1, <1>2
<1> HIDE DEF sound
<1>6. clean'[d] \cap FactoryBad[d] = {} /\ TableKnows(d)'
  BY <1>0, <1>2, <1>4, <1>5 DEF DieKnown, TableKnows, InTable
<1>7. d \in Scanned' <=> ~r[d][1]
  BY <1>1 DEF Scanned
<1>8. ASSUME r[d][1] PROVE MemoryKnows(d)' /\ InTable(told[d], d)'
  <2>1. bad'[d] = r[d][2]
    BY <1>1, <1>8
  <2>2. CASE d \in sound
    <3>1. table[d].state = "written" /\ bad'[d] = table[d].bad
      BY <1>3, <2>1, <2>2
    <3>2. d \notin stale' => d \notin stale
      BY <1>5, <3>1
    <3> QED BY <1>0, <1>2, <1>4, <2>2, <3>1, <3>2 DEF DieKnown, TableKnows, MemoryKnows, InTable
  <2>3. CASE d \notin sound
    BY <1>2, <1>4, <1>5, <1>8, <2>3 DEF MemoryKnows, InTable
  <2> QED BY <2>2, <2>3
<1>9. ASSUME ~r[d][1] PROVE ScanKnows(d)'
  <2>1. kept'[d] = {} /\ told'[d] = {}
    BY <1>2, <1>3, <1>4, <1>9
  <2>2. 0..(blockNo' - 1) = {}
    BY <1>2
  <2> QED BY <2>1, <2>2 DEF ScanKnows
<1>10. pc' \in {"mark", "scan"} /\ (pc' = "mark" => r[d][1])
  BY <1>1
<1> QED BY <1>6, <1>7, <1>8, <1>9, <1>10 DEF DieKnown, Mapped

\* The scan: a maker's mark is found where it is come to.
LEMMA FindKnows ==
  ASSUME TInv, AvoidInv, NEW failed \in SUBSET Die, FindBadBlock(failed)
  PROVE  AvoidInv'
<1> SUFFICES ASSUME NEW d \in Die PROVE DieKnown(d)'
  BY DEF AvoidInv
<1>0. /\ TypeOK /\ DieKnown(d)
      /\ pc = "scan" /\ blockNo \in Phy /\ blockNo \in Nat
  BY DEF TInv, AvoidInv, FindBadBlock, CountBounded, Phy
<1>1. UNCHANGED <<clean, table, kept, stale, dieState>> /\ Scanned' = Scanned
  BY DEF FindBadBlock, flashVars, Scanned
<1>2. clean'[d] \cap FactoryBad[d] = {} /\ TableKnows(d)'
  BY <1>0, <1>1 DEF DieKnown, TableKnows, InTable
<1>3. pc' \in {"scan", "save"}
  BY <1>0 DEF FindBadBlock
<1>4. CASE d \notin Scanned
  <2>1. bad'[d] = bad[d] /\ told'[d] = told[d]
    BY <1>4 DEF FindBadBlock, FoundBad, Noted
  <2>2. MemoryKnows(d)' /\ InTable(told[d], d)'
    BY <1>0, <1>1, <1>4, <2>1 DEF DieKnown, MemoryKnows, InTable
  <2>3. pc' = "save" => todo'[d] = "done"
    BY <1>0, <1>4 DEF FindBadBlock
  <2> QED BY <1>1, <1>2, <1>3, <1>4, <2>2, <2>3 DEF DieKnown, Mapped
<1>5. CASE d \in Scanned
  <2>1. /\ bad'[d] = IF d \in FoundBad(failed) THEN bad[d] \cup {blockNo} ELSE bad[d] \ {blockNo}
        /\ image'[d] = IF d \in FoundBad(failed) THEN image[d] \cup {blockNo}
                       ELSE image[d] \ {blockNo}
        /\ told'[d] = IF d \in FoundBad(failed) THEN told[d] \cup {blockNo} ELSE told[d]
    BY <1>5 DEF FindBadBlock, Noted
  <2>2. ScanKnows(d)
    BY <1>0, <1>5 DEF DieKnown
  <2>3. blockNo \in FactoryBad[d] => d \in FoundBad(failed)
    BY <1>0, <1>5 DEF DieKnown, FoundBad
  <2>4. \A q : q \in 0..blockNo <=> q = blockNo \/ q \in 0..(blockNo - 1)
    BY <1>0
  <2>5. blockNo \notin 0..(blockNo - 1)
    BY <1>0
  <2>6. told'[d] \subseteq 0..blockNo
    BY <2>1, <2>2, <2>4 DEF ScanKnows
  <2>7. told'[d] \cup (FactoryBad[d] \cap 0..blockNo) \subseteq bad'[d] \cap image'[d]
    <3>1. CASE d \in FoundBad(failed)
      BY <2>1, <2>2, <2>4, <3>1 DEF ScanKnows
    <3>2. CASE d \notin FoundBad(failed)
      <4>1. FactoryBad[d] \cap 0..blockNo = FactoryBad[d] \cap 0..(blockNo - 1)
        BY <2>3, <2>4, <3>2
      <4>2. blockNo \notin told[d] /\ blockNo \notin FactoryBad[d]
        BY <2>2, <2>3, <2>5, <3>2 DEF ScanKnows
      <4> QED BY <2>1, <2>2, <3>2, <4>1, <4>2 DEF ScanKnows
    <3> QED BY <3>1, <3>2
  <2>8. CASE blockNo' = blockNo + 1 /\ UNCHANGED <<pc, todo>>
    <3>1. blockNo' - 1 = blockNo
      BY <1>0, <2>8
    <3>2. ScanKnows(d)'
      BY <1>1, <2>2, <2>6, <2>7, <3>1 DEF ScanKnows
    <3> QED BY <1>0, <1>1, <1>2, <1>5, <2>8, <3>2 DEF DieKnown, Mapped
  <2>9. CASE /\ blockNo + 1 \notin Phy /\ pc' = "save"
             /\ todo' = [e \in Die |-> IF e \in Scanned THEN "erase" ELSE "done"]
    <3>1. FactoryBad[d] \subseteq 0..blockNo
      BY <1>0, <2>9, LastBlock, DieAssumption
    <3>2. told'[d] \cup FactoryBad[d] \subseteq bad'[d] \cap image'[d]
      BY <2>7, <3>1
    <3>3. kept'[d] = {}
      BY <1>1, <2>2 DEF ScanKnows
    <3>4. MemoryKnows(d)' /\ NewImageKnows(d)' /\ todo'[d] # "done"
      BY <1>5, <2>9, <3>2, <3>3 DEF MemoryKnows, NewImageKnows
    <3> QED BY <1>2, <2>9, <3>4 DEF DieKnown, Mapped
  <2> QED BY <2>8, <2>9 DEF FindBadBlock
<1> QED BY <1>4, <1>5

\* The erase of a table, at the boot or in a shutdown.
LEMMA SaveEraseKnows ==
  ASSUME TInv, AvoidInv, NEW d \in Die, SaveErase(d)
  PROVE  AvoidInv'
<1> SUFFICES ASSUME NEW e \in Die PROVE DieKnown(e)'
  BY DEF AvoidInv
<1>0. TypeOK /\ DieKnown(e) /\ Table \in Phy
  BY Sizes DEF TInv, AvoidInv
<1>1. /\ pc \in {"save", "flush"} /\ todo[d] = "erase" /\ todo'[d] = "write"
      /\ \A x \in Die \ {d} : todo'[x] = todo[x]
      /\ UNCHANGED <<image, kept, stale, atShutdown, pc>>
  BY <1>0 DEF SaveErase, TypeOK
<1>2. Operated(d, Table, e)
  BY <1>0, EraseOperates DEF SaveErase
<1>3. /\ (clean'[e] \cap FactoryBad[e] = {}) /\ TableKnows(e)'
      /\ MemoryKnows(e)'
      /\ e \in booked \/ InTable(told[e], e) => e \in booked' \/ InTable(told[e], e)'
      /\ \A S : InTable(S, e) => InTable(S, e)'
      /\ told[e] \subseteq told'[e]
  <2>1. MemoryKnows(e) /\ clean[e] \cap FactoryBad[e] = {} /\ TableKnows(e)
    BY <1>0, <1>1 DEF DieKnown, Mapped
  <2> QED BY <1>0, <1>1, <1>2, <2>1, OperatedKnows
<1>4. todo'[e] = "done" <=> todo[e] = "done"
  BY <1>1
<1>5. CASE pc = "save"
  <2>1. told'[e] \ {Table} = told[e] \ {Table}
    BY <1>2 DEF Operated
  <2>2. InTable(told[e], e) => InTable(told[e], e)'
    BY <1>3, <2>1 DEF InTable
  <2>3. NewImageKnows(e) => NewImageKnows(e)'
    BY <1>1, <1>2, <2>1 DEF NewImageKnows, Operated
  <2> QED BY <1>0, <1>1, <1>3, <1>4, <1>5, <2>2, <2>3 DEF DieKnown, Mapped
<1>6. CASE pc = "flush"
  <2>1. InTable(atShutdown[e], e) => InTable(atShutdown[e], e)'
    BY <1>1, <1>3 DEF InTable
  <2>2. FlushKnows(e)'
    BY <1>0, <1>1, <1>2, <1>3, <1>4, <1>6, <2>1 DEF DieKnown, FlushKnows, Operated
  <2> QED BY <1>0, <1>1, <1>3, <1>6, <2>2 DEF DieKnown, Mapped
<1> QED BY <1>1, <1>5, <1>6

\* The write of a table: of the image, or of nothing that can be read.
LEMMA SaveWriteKnows ==
  ASSUME TInv, AvoidInv, NEW d \in Die, SaveWrite(d)
  PROVE  AvoidInv'
<1> SUFFICES ASSUME NEW e \in Die PROVE DieKnown(e)'
  BY DEF AvoidInv
<1>0. TypeOK /\ DieKnown(e) /\ Table \in Phy
  BY Sizes DEF TInv, AvoidInv
<1>1. /\ pc \in {"save", "flush"} /\ todo[d] = "write" /\ todo'[d] = "done"
      /\ \A x \in Die \ {d} : todo'[x] = todo[x]
      /\ stale' = IF pc = "save" THEN stale \ {d} ELSE stale
      /\ UNCHANGED <<clean, image, kept, atShutdown, pc>>
  BY <1>0 DEF SaveWrite, TypeOK
<1>2. /\ e \in booked => e \in booked'
      /\ \/ bad'[e] = bad[e] /\ told'[e] = told[e]
         \/ e = d /\ e \in booked' /\ bad'[e] = bad[e] \cup {Table} /\ told'[e] = told[e] \cup {Table}
  <2>1. CASE UNCHANGED <<badVars, told, failures>>
    BY <2>1 DEF badVars
  <2>2. CASE UpdatePhyBlockMapForGrownBadBlock(d, Table)
    BY <1>0, <2>2, FailureOperates
  <2> QED BY <2>1, <2>2 DEF SaveWrite
<1>3. \E x \in {Torn, Written(image[d])} : table' = [table EXCEPT ![d] = x]
  BY DEF SaveWrite
<1>4. CASE e # d
  <2>1. /\ table'[e] = table[e] /\ todo'[e] = todo[e]
        /\ bad'[e] = bad[e] /\ told'[e] = told[e] /\ (e \in stale' <=> e \in stale)
    BY <1>0, <1>1, <1>2, <1>3, <1>4 DEF TypeOK
  <2>2. /\ MemoryKnows(e) => MemoryKnows(e)'
        /\ TableKnows(e) => TableKnows(e)'
        /\ InTable(told[e], e) => InTable(told[e], e)'
        /\ NewImageKnows(e) => NewImageKnows(e)'
    BY <1>1, <2>1 DEF MemoryKnows, TableKnows, NewImageKnows, InTable
  <2>3. FlushKnows(e) => FlushKnows(e)'
    BY <1>1, <1>2, <2>1 DEF FlushKnows, InTable
  <2> QED BY <1>0, <1>1, <1>2, <2>1, <2>2, <2>3 DEF DieKnown, Mapped
<1>5. CASE e = d
  <2>1. table'[e] \in {Torn, Written(image[e])}
    BY <1>0, <1>3, <1>5 DEF TypeOK
  <2>2. \A S : S \ {Table} \subseteq image[e] => InTable(S, e)'
    BY <2>1 DEF InTable, Torn, Written
  <2>3. told'[e] \ {Table} = told[e] \ {Table} /\ bad[e] \subseteq bad'[e] /\ told[e] \subseteq told'[e]
    BY <1>2
  <2>4. todo[e] # "done" /\ todo'[e] = "done"
    BY <1>1, <1>5
  <2>5. CASE pc = "save"
    <3>1. MemoryKnows(e) /\ NewImageKnows(e)
      BY <1>0, <2>4, <2>5 DEF DieKnown
    <3>2. FactoryBad[e] \ {Table} \subseteq image[e] /\ told'[e] \ {Table} \subseteq image[e] /\ kept[e] = {}
      BY <2>3, <3>1 DEF NewImageKnows
    <3>3. InTable(FactoryBad[e], e)' /\ InTable(told[e], e)' /\ InTable(kept[e], e)'
      BY <1>1, <2>2, <3>2 DEF InTable
    <3>4. TableKnows(e)'
      BY <3>3 DEF TableKnows, InTable
    <3>5. MemoryKnows(e)'
      <4>1. FactoryBad[e] \ {Table} \subseteq bad[e]
        BY <3>1 DEF NewImageKnows
      <4>2. kept'[e] = {}
        BY <1>1, <3>2
      <4> QED BY <2>3, <3>1, <4>1, <4>2 DEF MemoryKnows
    <3> QED BY <1>0, <1>1, <2>4, <2>5, <3>3, <3>4, <3>5 DEF DieKnown, Mapped
  <2>6. CASE pc = "flush"
    <3>1. MemoryKnows(e) /\ FlushKnows(e) /\ stale' = stale
      BY <1>0, <1>1, <2>6 DEF DieKnown, Mapped
    <3>2. /\ kept[e] \subseteq atShutdown[e] /\ atShutdown[e] \subseteq told[e]
          /\ e \in booked /\ atShutdown[e] \ {Table} \subseteq image[e]
          /\ e \notin stale => FactoryBad[e] \ {Table} \subseteq image[e]
      BY <2>4, <3>1 DEF FlushKnows
    <3>3. InTable(atShutdown[e], e)' /\ InTable(kept[e], e)'
      BY <1>1, <2>2, <3>2 DEF InTable
    <3>4. TableKnows(e)'
      BY <2>2, <3>1, <3>2, <3>3 DEF TableKnows, InTable
    <3>5. MemoryKnows(e)'
      BY <1>1, <2>3, <3>1 DEF MemoryKnows
    <3>6. e \in booked' /\ FlushKnows(e)'
      BY <1>1, <1>2, <2>3, <2>4, <3>2, <3>3 DEF FlushKnows
    <3> QED BY <1>0, <1>1, <2>6, <3>4, <3>5, <3>6 DEF DieKnown, Mapped
  <2> QED BY <1>1, <2>5, <2>6
<1> QED BY <1>4, <1>5

\* No step forgets a block that a later boot has to avoid.
LEMMA AvoidInvInductive ==
  ASSUME TInv, AvoidInv, [Next]_vars
  PROVE  AvoidInv'
<1>0. TypeOK /\ CountBounded /\ Table \in Phy
  BY Sizes DEF TInv
\* A step that leaves what is known of a die.
<1>1. ASSUME NEW e \in Die, UNCHANGED <<clean, table, kept, stale>>
      PROVE  clean'[e] \cap FactoryBad[e] = {} /\ TableKnows(e)'
  BY <1>1 DEF AvoidInv, DieKnown, TableKnows, InTable
<1>2. CASE PowerOn
  BY <1>1, <1>2 DEF PowerOn, flashVars, pastVars, AvoidInv, DieKnown, Mapped
<1>3. CASE PowerCut
  <2> SUFFICES ASSUME NEW e \in Die PROVE DieKnown(e)'
    BY DEF AvoidInv
  <2>1. /\ clean' = clean /\ kept' = kept /\ stale' = stale /\ pc' = "off"
        /\ table'[e] = table[e] \/ table'[e].state # "written"
    BY <1>3 DEF PowerCut, Torn
  <2>2. clean'[e] \cap FactoryBad[e] = {} /\ TableKnows(e)'
    BY <2>1 DEF AvoidInv, DieKnown, TableKnows, InTable
  <2> QED BY <2>1, <2>2 DEF DieKnown, Mapped
<1>4. CASE EraseTotalBlockSpace
  <2>1. pc' \in {"erase_total", "read"} /\ kept' = kept /\ stale' = stale
    BY <1>4 DEF EraseTotalBlockSpace
  <2>2. ASSUME NEW d \in Die, erased[d] \in Phy, EraseBlock(d, erased[d]) PROVE AvoidInv'
    <3> SUFFICES ASSUME NEW e \in Die PROVE DieKnown(e)'
      BY DEF AvoidInv
    <3>1. Operated(d, erased[d], e)
      BY <1>0, <2>2, EraseOperates
    <3>2. clean[e] \cap FactoryBad[e] = {} /\ TableKnows(e)
      BY DEF AvoidInv, DieKnown
    <3>3. clean'[e] \cap FactoryBad[e] = {} /\ TableKnows(e)'
      BY <2>1, <2>2, <3>1, <3>2, OperatedKnows
    <3> QED BY <2>1, <3>3 DEF DieKnown, Mapped
  <2>3. CASE UNCHANGED <<flashVars, badVars, told, failures>>
    BY <1>1, <2>1, <2>3 DEF flashVars, AvoidInv, DieKnown, Mapped
  <2> QED BY <1>4, <2>2, <2>3 DEF EraseTotalBlockSpace
<1>5. ASSUME NEW failed \in SUBSET Die, ReadBadBlockTable(failed) \/ FindBadBlock(failed)
      PROVE  AvoidInv'
  BY <1>5, ReadKnows, FindKnows
<1>6. ASSUME NEW d \in Die, SaveErase(d) \/ SaveWrite(d) PROVE AvoidInv'
  BY <1>6, SaveEraseKnows, SaveWriteKnows
<1>7. CASE MarkTableBlocks \/ RemapBadBlock \/ InitBlockMap
  <2> SUFFICES ASSUME NEW e \in Die PROVE DieKnown(e)'
    BY DEF AvoidInv
  <2>1. /\ UNCHANGED <<clean, table, kept, stale, told>>
        /\ pc' \in {"remap", "erase_user", "run"}
        /\ bad[e] \subseteq bad'[e]
    BY <1>7 DEF MarkTableBlocks, RemapBadBlock, InitBlockMap, flashVars, badVars, pastVars
  <2>2. MemoryKnows(e) /\ InTable(told[e], e)
    <3>1. CASE pc = "save"
      <4>1. todo[e] = "done"
        BY <1>7, <3>1 DEF MarkTableBlocks, RemapBadBlock, InitBlockMap
      <4> QED BY <3>1, <4>1 DEF AvoidInv, DieKnown
    <3>2. CASE pc \in {"mark", "remap"}
      BY <3>2 DEF AvoidInv, DieKnown
    <3> QED BY <1>7, <3>1, <3>2 DEF MarkTableBlocks, RemapBadBlock, InitBlockMap
  <2>3. MemoryKnows(e)' /\ InTable(told[e], e)'
    BY <2>1, <2>2 DEF MemoryKnows, InTable
  <2>4. clean'[e] \cap FactoryBad[e] = {} /\ TableKnows(e)'
    BY <1>1, <2>1
  <2> QED BY <2>1, <2>3, <2>4 DEF DieKnown
<1>8. CASE EraseUserBlockSpace
  <2>0. /\ pc = "erase_user" /\ pc' \in {"erase_user", "run"} /\ Mapped
        /\ UNCHANGED <<kept, stale, atShutdown, image, todo>>
    BY <1>8 DEF EraseUserBlockSpace, Mapped, saveVars
  <2> SUFFICES ASSUME NEW e \in Die PROVE DieKnown(e)'
    BY DEF AvoidInv
  <2>1. DieKnown(e)
    BY DEF AvoidInv
  <2>2. ASSUME NEW d \in Die, erased[d] \in VBlock, EraseBlock(d, BlockOf(d, erased[d], 0))
        PROVE  DieKnown(e)'
    <3>1. BlockOf(d, erased[d], 0) \in Phy
      BY <1>0, <2>2, FirstPage, BlockOfRequest
    <3> DEFINE p == BlockOf(d, erased[d], 0)
    <3>2. Operated(d, p, e)
      BY <1>0, <2>2, <3>1, EraseOperates
    <3> HIDE DEF p
    <3>3. /\ clean'[e] \cap FactoryBad[e] = {} /\ TableKnows(e)' /\ MemoryKnows(e)'
          /\ e \in booked' \/ InTable(told[e], e)'
      BY <2>0, <2>1, <3>1, <3>2, OperatedKnows DEF DieKnown, p
    <3> QED BY <2>0, <3>3 DEF DieKnown
  <2>3. CASE UNCHANGED <<flashVars, badVars, told, failures>>
    <3>1. UNCHANGED <<clean, table, bad, booked, told>>
      BY <2>3 DEF flashVars, badVars
    <3> QED BY <2>0, <2>1, <3>1 DEF DieKnown, TableKnows, MemoryKnows, InTable
  <2> QED BY <1>8, <2>2, <2>3 DEF EraseUserBlockSpace
<1>9. ASSUME NEW d \in Die, NEW v \in VBlock, NEW page \in Page, UseBlock(d, v, page)
      PROVE  AvoidInv'
  <2>0. /\ Mapped /\ UNCHANGED <<table, kept, stale, atShutdown, image, todo, pc>>
    BY <1>9 DEF UseBlock, Mapped, saveVars
  <2>1. BlockOf(d, v, page) \in Phy
    BY <1>0, BlockOfRequest
  <2> DEFINE p == BlockOf(d, v, page)
  <2>2. ASSUME NEW e \in Die PROVE Operated(d, p, e)
    <3>1. PICK c \in {clean[d] \cup ({p} \ FactoryBad[d]), clean[d] \ {p}} :
            clean' = [clean EXCEPT ![d] = c]
      BY <1>9 DEF UseBlock
    <3> HIDE DEF p
    <3>2. clean'[e] \cap FactoryBad[e] \subseteq clean[e]
      <4>1. CASE e = d
        BY <1>0, <3>1, <4>1 DEF TypeOK
      <4>2. CASE e # d
        BY <1>0, <3>1, <4>2 DEF TypeOK
      <4> QED BY <4>1, <4>2
    <3>3. CASE UNCHANGED <<badVars, told, failures>>
      BY <2>0, <3>2, <3>3 DEF Operated, badVars
    <3>4. CASE UpdatePhyBlockMapForGrownBadBlock(d, p)
      BY <1>0, <2>0, <2>1, <3>2, <3>4, FailureOperates DEF Operated, p
    <3> QED BY <1>9, <3>3, <3>4 DEF UseBlock, p
  <2> HIDE DEF p
  <2> QED BY <2>0, <2>1, <2>2, RunningKnows DEF p
<1>10. CASE Shutdown
  <2> SUFFICES ASSUME NEW e \in Die PROVE DieKnown(e)'
    BY DEF AvoidInv
  <2>1. /\ UNCHANGED <<clean, table, kept, stale, told, bad, booked>>
        /\ pc' = "flush" /\ atShutdown' = told
        /\ image'[e] = IF e \in booked THEN bad[e] \ {Table} ELSE {}
        /\ todo'[e] = IF e \in booked THEN "erase" ELSE "done"
    BY <1>10 DEF Shutdown, flashVars, badVars
  <2>2. MemoryKnows(e) /\ (e \in booked \/ InTable(told[e], e))
    BY <1>10 DEF Shutdown, AvoidInv, DieKnown, Mapped
  <2>3. MemoryKnows(e)' /\ (e \in booked' \/ InTable(told[e], e)')
    BY <2>1, <2>2 DEF MemoryKnows, InTable
  <2>4. FlushKnows(e)'
    BY <2>1, <2>2 DEF FlushKnows, MemoryKnows, InTable
  <2>5. clean'[e] \cap FactoryBad[e] = {} /\ TableKnows(e)'
    BY <1>1, <2>1
  <2> QED BY <2>1, <2>3, <2>4, <2>5 DEF DieKnown
<1>11. CASE ShutdownDone
  <2> SUFFICES ASSUME NEW e \in Die PROVE DieKnown(e)'
    BY DEF AvoidInv
  <2>1. /\ UNCHANGED <<clean, table, stale, told, bad, booked>>
        /\ pc = "flush" /\ pc' = "down" /\ todo[e] = "done"
        /\ kept'[e] = IF table[e].state = "written" THEN atShutdown[e] ELSE {}
    BY <1>11 DEF ShutdownDone, flashVars, badVars
  <2>2. /\ MemoryKnows(e) /\ (e \in booked \/ InTable(told[e], e)) /\ FlushKnows(e)
        /\ TableKnows(e) /\ clean[e] \cap FactoryBad[e] = {}
    BY <2>1 DEF AvoidInv, DieKnown, Mapped
  <2>3. kept'[e] \subseteq told[e] /\ InTable(kept[e], e)'
    BY <2>1, <2>2 DEF FlushKnows, InTable
  <2>4. MemoryKnows(e)' /\ (e \in booked' \/ InTable(told[e], e)') /\ TableKnows(e)'
    BY <2>1, <2>2, <2>3 DEF MemoryKnows, TableKnows, InTable
  <2> QED BY <2>1, <2>2, <2>4 DEF DieKnown
<1>12. CASE Resume
  <2> SUFFICES ASSUME NEW e \in Die PROVE DieKnown(e)'
    BY DEF AvoidInv
  <2>1. /\ UNCHANGED <<clean, table, kept, stale, told, bad, booked>> /\ pc = "down" /\ pc' = "run"
    BY <1>12 DEF Resume, flashVars, badVars, pastVars
  <2>2. MemoryKnows(e) /\ (e \in booked \/ InTable(told[e], e))
    BY <2>1 DEF AvoidInv, DieKnown, Mapped
  <2>3. MemoryKnows(e)' /\ (e \in booked' \/ InTable(told[e], e)')
    BY <2>1, <2>2 DEF MemoryKnows, InTable
  <2> QED BY <1>1, <2>1, <2>3 DEF DieKnown
<1>13. CASE UNCHANGED vars
  <2>1. UNCHANGED <<clean, table, kept, stale, told, bad, booked, pc, dieState, image, todo,
                    blockNo, atShutdown>>
    BY <1>13 DEF vars, flashVars, badVars, saveVars, pastVars
  <2> QED BY <2>1 DEF AvoidInv, DieKnown, Mapped, Scanned, ScanKnows, NewImageKnows, FlushKnows,
                      MemoryKnows, TableKnows, InTable
<1> QED BY <1>2, <1>3, <1>4, <1>5, <1>6, <1>7, <1>8, <1>9, <1>10, <1>11, <1>12, <1>13 DEF Next

\* No boot, whatever fails in it and wherever the power went before, puts a virtual
\* block on a block known to be bad when the last completed shutdown began, or,
\* unless a table was believed that could not be read, on one with the maker's mark.
THEOREM BootAvoidsBadBlocksHolds == Spec => BootAvoidsBadBlocks
<1>1. Init => MapInv /\ AvoidInv
  <2> SUFFICES ASSUME Init PROVE MapInv /\ AvoidInv
    OBVIOUS
  <2>1. MapInv
    BY DEF Init, MapInv, BlocksApart, CapacityBacked, Mapped
  <2>2. ASSUME NEW d \in Die PROVE DieKnown(d)
    <3>1. clean[d] = Phy \ FactoryBad[d] /\ table[d].state = "erased" /\ pc = "off"
      BY DEF Init, Erased
    <3> QED BY <3>1 DEF DieKnown, TableKnows, InTable, Mapped
  <2> QED BY <2>1, <2>2 DEF AvoidInv
<1>2. TInv /\ MapInv /\ [Next]_vars => MapInv'
  BY MapInvInductive
<1>3. TInv /\ AvoidInv /\ [Next]_vars => AvoidInv'
  BY AvoidInvInductive
<1>4. TInv /\ MapInv /\ AvoidInv /\ [Next]_vars =>
        (~Mapped /\ Mapped' => \A d \in Die : \A v \in VBlock \ vbad'[d] :
           /\ Place(d, v) \notin kept[d]
           /\ d \notin stale => Place(d, v) \notin FactoryBad[d])
  BY BootAvoids
<1> QED BY <1>1, <1>2, <1>3, <1>4, TypeCorrect, PTL DEF Spec, BootAvoidsBadBlocks
=============================================================================
