--------------------------- MODULE FtlMap_proofs ---------------------------
(***************************************************************************)
(* FtlMap and FtlData: for any dies, blocks, pages, slices and reserve,    *)
(* the maps agree, the block lists are exact, garbage collection never     *)
(* stops the program, and no slice loses its content.                      *)
(***************************************************************************)
EXTENDS FtlData, CommonLemmas, FiniteSetTheorems, TLAPS

-----------------------------------------------------------------------------
(* The inductive invariant.                                                *)

\* A write is at hand from its first call to its last, and meanwhile its slice
\* has no place.
WriteAtHand ==
  /\ phase = "idle" <=> lsa = NoLsa
  /\ phase # "idle" => logicalSlice[lsa] = NoVsa

\* A page holds a slice, valid or not, exactly when it was given out.
GivenRecorded ==
  \A v \in Vsa : virtualSlice[v] # NoLsa <=> v[3] < pagesUsed[v[1]][v[2]]

\* Only the open block has pages left.
OtherBlocksFull ==
  \A d \in Die, b \in Block :
    ~free[d][b] /\ b # currentBlock[d] => pagesUsed[d][b] = PagesPerBlock

\* What the host was asked for when the write began still holds when the page
\* is looked for, and a block just opened has a page.
FoundAsWorked ==
  /\ phase = "find" => Workload
  /\ phase = "give" => ~OpenBlockFull(targetDie)

\* The victim is full and not free; pages that were passed are not valid, and
\* an open block that is the victim still has a page to move, so that another
\* block is opened before it is erased.
VictimKept ==
  phase \in {"copy", "erase"} =>
    /\ ~free[targetDie][victim]
    /\ pagesUsed[targetDie][victim] = PagesPerBlock
    /\ victim = currentBlock[targetDie] =>
         /\ phase = "copy"
         /\ \E p \in Page : gcPage <= p /\ ValidPage(<<targetDie, victim, p>>)
    /\ \A p \in Page : phase = "erase" \/ p < gcPage => ~ValidPage(<<targetDie, victim, p>>)

\* The pages copied so far: garbage collection starts when the open block is
\* full, and the first copy opens another one.
Copied == IF OpenBlockFull(targetDie) THEN 0 ELSE pagesUsed[targetDie][currentBlock[targetDie]]

\* The reserve is whole but for the block garbage collection copies to, which
\* the victim fills less than completely.
ReserveKept ==
  /\ \A d \in Die :
       IF phase \in {"copy", "erase"} /\ d = targetDie
       THEN Len(freeList[d]) = IF OpenBlockFull(d) THEN ReservedFreeBlocks ELSE ReservedFreeBlocks - 1
       ELSE Len(freeList[d]) >= ReservedFreeBlocks
  /\ phase = "collected" => ~MustCollect(targetDie)
  /\ phase = "copy" =>
       \/ Copied < gcPage
       \/ Copied = gcPage /\ \E p \in Page : gcPage <= p /\ ~ValidPage(<<targetDie, victim, p>>)

\* The inductive invariant.
IInv ==
  /\ TypeOK
  /\ WriteAtHand
  /\ MapsAgree
  /\ GivenRecorded
  /\ FreeBlocksUnused
  /\ OtherBlocksFull
  /\ VictimListsExact
  /\ FoundAsWorked
  /\ VictimKept
  /\ ReserveKept

-----------------------------------------------------------------------------
(* Places and counts.                                                      *)

\* The sizes, from their assumptions.
LEMMA Sizes ==
  /\ Dies \in Nat /\ Dies > 0 /\ PagesPerBlock \in Nat /\ PagesPerBlock > 0
  /\ ReservedFreeBlocks \in Nat /\ ReservedFreeBlocks > 0
  /\ BlocksPerDie \in Nat /\ BlocksPerDie > ReservedFreeBlocks + 1
  /\ 0 \in Die /\ 0 \in Block /\ 0 \in Page
BY SizeAssumption, ReserveAssumption DEF Die, Block, Page

\* A place has a die, a block and a page.
LEMMA VsaParts ==
  /\ \A v \in Vsa : /\ v[1] \in Die /\ v[2] \in Block /\ v[3] \in Page
                    /\ v = <<v[1], v[2], v[3]>>
  /\ \A d \in Die, b \in Block, p \in Page : <<d, b, p>> \in Vsa
BY DEF Vsa

\* The pages of a block given out and the place of no slice.
InvalidPages(d, b) == {p \in Page : p < pagesUsed[d][b] /\ ~ValidPage(<<d, b, p>>)}

\* The sets counted over are finite.
LEMMA PagesFinite ==
  ASSUME NEW S \in SUBSET Page
  PROVE  IsFiniteSet(S) /\ Cardinality(S) \in 0..PagesPerBlock /\ (S = {} <=> Cardinality(S) = 0)
         /\ (Cardinality(S) = PagesPerBlock => S = Page)
<1>1. IsFiniteSet(Page) /\ Cardinality(Page) = PagesPerBlock
  <2>1. 0 \in Int /\ PagesPerBlock - 1 \in Int /\ ~(0 > PagesPerBlock - 1)
        /\ (PagesPerBlock - 1) - 0 + 1 = PagesPerBlock
    BY Sizes
  <2> QED BY <2>1, FS_Interval DEF Page
<1>2. /\ IsFiniteSet(S) /\ Cardinality(S) <= Cardinality(Page)
      /\ Cardinality(S) = Cardinality(Page) => S = Page
  BY <1>1, FS_Subset
<1>3. Cardinality(S) \in Nat
  BY <1>2, FS_CardinalityType
<1>4. S = {} <=> Cardinality(S) = 0
  BY <1>2, FS_EmptySet
<1> QED BY <1>1, <1>2, <1>3, <1>4, Sizes

\* A page more.
LEMMA PageMore ==
  ASSUME NEW S \in SUBSET Page, NEW p \in Page \ S
  PROVE  Cardinality(S \cup {p}) = Cardinality(S) + 1 /\ Cardinality(S) < PagesPerBlock
<1>1. IsFiniteSet(S) /\ S \cup {p} \in SUBSET Page
  BY PagesFinite
<1>2. Cardinality(S \cup {p}) = Cardinality(S) + 1
  BY <1>1, FS_AddElement
<1>3. Cardinality(S) \in 0..PagesPerBlock /\ Cardinality(S \cup {p}) \in 0..PagesPerBlock
  BY <1>1, PagesFinite
<1> QED BY <1>2, <1>3, Sizes

\* The list garbage collection takes its victim from is not empty.
LEMMA FullestIsThere ==
  ASSUME NEW d \in Die, VictimCounts(d) # {}
  PROVE  FullestList(d) \in VictimCounts(d)
<1> DEFINE S == VictimCounts(d)
<1>1. S \in SUBSET Nat /\ \A y \in S : y <= PagesPerBlock
  BY Sizes DEF VictimCounts
<1>2. \E n \in S : \A m \in S : m <= n
  <2> HIDE DEF S
  <2> QED BY <1>1, MaxOf, Sizes DEF S
<1> QED BY <1>2 DEF FullestList

-----------------------------------------------------------------------------
(* The initial state.                                                      *)

\* The maps a boot starts with.
LEMMA InitIInv == ASSUME Init PROVE IInv
<1> USE Sizes DEF Init
<1>1. TypeOK
  <2>1. [i \in 1..(BlocksPerDie - 1) |-> i] \in Seq(Block)
    <3>1. BlocksPerDie - 1 \in Nat /\ \A i \in 1..(BlocksPerDie - 1) : i \in Block
      BY DEF Block
    <3> QED BY <3>1
  <2>2. "idle" \in Phase
    BY DEF Phase
  <2> QED BY <2>1, <2>2 DEF TypeOK
<1>2. WriteAtHand /\ FoundAsWorked /\ VictimKept
  BY DEF WriteAtHand, FoundAsWorked, VictimKept
<1>3. MapsAgree
  BY DEF MapsAgree
<1>4. GivenRecorded
  BY VsaParts DEF GivenRecorded, Page
<1>5. FreeBlocksUnused
  <2> SUFFICES ASSUME NEW d \in Die
               PROVE  /\ \A b \in Block : free[d][b] <=> b \in ToSet(freeList[d])
                      /\ \A i, j \in 1..Len(freeList[d]) : freeList[d][i] = freeList[d][j] => i = j
                      /\ \A b \in Block : free[d][b] => pagesUsed[d][b] = 0 /\ b # currentBlock[d]
    BY DEF FreeBlocksUnused
  <2>1. freeList[d] = [i \in 1..(BlocksPerDie - 1) |-> i] /\ free[d] = [b \in Block |-> b # 0]
    OBVIOUS
  <2>2. Len(freeList[d]) = BlocksPerDie - 1 /\ ToSet(freeList[d]) = 1..(BlocksPerDie - 1)
    BY <2>1 DEF ToSet
  <2>3. \A b \in Block : free[d][b] <=> b \in ToSet(freeList[d])
    <3> TAKE b \in Block
    <3>1. free[d][b] <=> b # 0
      BY <2>1
    <3>2. b # 0 <=> b \in 1..(BlocksPerDie - 1)
      BY DEF Block
    <3> QED BY <2>2, <3>1, <3>2
  <2> QED BY <2>1, <2>2, <2>3
<1>6. OtherBlocksFull
  BY DEF OtherBlocksFull
<1>7. VictimListsExact
  <2>1. InvalidCountExact
    <3> SUFFICES ASSUME NEW d \in Die, NEW b \in Block
                 PROVE  invalidSliceCnt[d][b] = Cardinality(InvalidPages(d, b))
      BY DEF InvalidCountExact, InvalidPages
    <3>1. InvalidPages(d, b) = {}
      BY DEF InvalidPages, Page
    <3> QED BY <3>1, PagesFinite
  <2>2. ASSUME NEW d \in Die, NEW n \in 1..PagesPerBlock
        PROVE  /\ \A b \in Block : b \in ToSet(victimList[d][n]) <=>
                    invalidSliceCnt[d][b] = n /\ ~Collecting(d, b)
               /\ \A i, j \in 1..Len(victimList[d][n]) :
                    victimList[d][n][i] = victimList[d][n][j] => i = j
    <3>1. victimList[d][n] = <<>> /\ ToSet(<<>>) = {}
      BY DEF ToSet
    <3>2. \A b \in Block : invalidSliceCnt[d][b] # n
      OBVIOUS
    <3> QED BY <3>1, <3>2
  <2> QED BY <2>1, <2>2 DEF VictimListsExact
<1>8. ReserveKept
  <2>1. \A d \in Die : Len(freeList[d]) = BlocksPerDie - 1
    OBVIOUS
  <2> QED BY <2>1 DEF ReserveKept
<1> QED BY <1>1, <1>2, <1>3, <1>4, <1>5, <1>6, <1>7, <1>8 DEF IInv

-----------------------------------------------------------------------------
(* A write begins: its old page becomes invalid.                           *)

\* The two maps before the step and after it.
LEMMA OldPlace ==
  ASSUME IInv, NEW l \in Lsa, AddrTransWrite(l)
  PROVE  LET v == logicalSlice[l] IN
         /\ v = NoVsa => UNCHANGED <<victimList, invalidSliceCnt, logicalSlice>>
         /\ v # NoVsa =>
              /\ v \in Vsa /\ ValidPage(v) /\ v[3] < pagesUsed[v[1]][v[2]] /\ ~free[v[1]][v[2]]
              /\ MoveVictim(v[2], v[1], invalidSliceCnt[v[1]][v[2]])
              /\ invalidSliceCnt' = [invalidSliceCnt EXCEPT ![v[1]][v[2]] = invalidSliceCnt[v[1]][v[2]] + 1]
         /\ logicalSlice' = [logicalSlice EXCEPT ![l] = NoVsa]
         /\ \A u \in Vsa : ValidPage(u)' <=> ValidPage(u) /\ u # v
<1> DEFINE v == logicalSlice[l]
<1> USE NoneAssumption
<1>1. logicalSlice \in [Lsa -> Vsa \cup {NoVsa}] /\ v \in Vsa \cup {NoVsa}
  BY DEF IInv, TypeOK
<1>2. CASE v = NoVsa
  <2>1. UNCHANGED <<victimList, invalidSliceCnt, logicalSlice, virtualSlice>>
    BY <1>2 DEF AddrTransWrite
  <2>2. logicalSlice' = [logicalSlice EXCEPT ![l] = NoVsa]
    BY <1>1, <1>2, <2>1
  <2>3. \A u \in Vsa : ValidPage(u)' <=> ValidPage(u) /\ u # v
    BY <1>2, <2>1 DEF ValidPage
  <2> QED BY <1>2, <2>1, <2>2, <2>3
<1>3. CASE v # NoVsa
  <2>1. /\ v \in Vsa /\ virtualSlice[v] = l
        /\ v[3] < pagesUsed[v[1]][v[2]] /\ ~free[v[1]][v[2]]
    BY <1>1, <1>3 DEF IInv, MapsAgree
  <2>2. /\ MoveVictim(v[2], v[1], invalidSliceCnt[v[1]][v[2]])
        /\ invalidSliceCnt' = [invalidSliceCnt EXCEPT ![v[1]][v[2]] = invalidSliceCnt[v[1]][v[2]] + 1]
        /\ logicalSlice' = [logicalSlice EXCEPT ![l] = NoVsa]
        /\ UNCHANGED virtualSlice
    BY <1>3, <2>1 DEF AddrTransWrite
  <2>3. ValidPage(v)
    BY <2>1 DEF ValidPage
  <2>4. ASSUME NEW u \in Vsa PROVE ValidPage(u)' <=> ValidPage(u) /\ u # v
    <3>1. CASE virtualSlice[u] = l
      BY <1>1, <2>2, <3>1 DEF ValidPage
    <3>2. CASE virtualSlice[u] # l
      <4>1. u # v
        BY <2>1, <3>2
      <4>2. virtualSlice[u] \in Lsa => logicalSlice'[virtualSlice[u]] = logicalSlice[virtualSlice[u]]
        BY <1>1, <2>2, <3>2
      <4>3. virtualSlice[u] \in Lsa \cup {NoLsa}
        BY DEF IInv, TypeOK
      <4> QED BY <2>2, <4>1, <4>2, <4>3 DEF ValidPage
    <3> QED BY <3>1, <3>2
  <2> QED BY <1>3, <2>1, <2>2, <2>3, <2>4
<1> QED BY <1>2, <1>3

\* Invalidating the old page of a slice counts it once.
LEMMA AddrTransWriteCounts ==
  ASSUME IInv, NEW l \in Lsa, AddrTransWrite(l)
  PROVE  /\ InvalidCountExact'
         /\ invalidSliceCnt' \in [Die -> [Block -> 0..PagesPerBlock]]
         /\ LET v == logicalSlice[l] IN
              v # NoVsa => invalidSliceCnt[v[1]][v[2]] \in 0..(PagesPerBlock - 1)
<1> DEFINE v == logicalSlice[l]
<1>1. phase = "idle" /\ phase' = "find" /\ UNCHANGED pagesUsed
  BY DEF AddrTransWrite
<1>2. \A d \in Die, b \in Block : invalidSliceCnt[d][b] = Cardinality(InvalidPages(d, b))
  BY <1>1 DEF IInv, VictimListsExact, InvalidCountExact, Collecting, InvalidPages
<1>3. ASSUME NEW d \in Die, NEW b \in Block, v = NoVsa \/ v[1] # d \/ v[2] # b
      PROVE  InvalidPages(d, b)' = InvalidPages(d, b)
  <2>1. ASSUME NEW p \in Page PROVE ValidPage(<<d, b, p>>)' <=> ValidPage(<<d, b, p>>)
    <3>1. <<d, b, p>> \in Vsa /\ <<d, b, p>>[1] = d /\ <<d, b, p>>[2] = b
      BY VsaParts
    <3>2. NoVsa \notin Vsa
      BY NoneAssumption
    <3>3. <<d, b, p>> # v
      BY <1>3, <3>1, <3>2
    <3> QED BY <3>1, <3>3, OldPlace
  <2> QED BY <1>1, <2>1 DEF InvalidPages
<1>4. CASE v = NoVsa
  <2>1. UNCHANGED invalidSliceCnt
    BY <1>4, OldPlace
  <2>2. \A d \in Die, b \in Block : invalidSliceCnt'[d][b] = Cardinality(InvalidPages(d, b))'
    BY <1>2, <1>3, <1>4, <2>1
  <2> QED BY <1>4, <2>1, <2>2 DEF InvalidCountExact, InvalidPages, IInv, TypeOK
<1>5. CASE v # NoVsa
  <2>0. /\ v \in Vsa /\ ValidPage(v) /\ v[3] < pagesUsed[v[1]][v[2]]
        /\ invalidSliceCnt' = [invalidSliceCnt EXCEPT ![v[1]][v[2]] = invalidSliceCnt[v[1]][v[2]] + 1]
    BY <1>5, OldPlace
  <2>1. PICK e \in Die, c \in Block, q \in Page : v = <<e, c, q>>
    <3> HIDE DEF v
    <3> QED BY <2>0, VsaParts
  <2>2. /\ ValidPage(<<e, c, q>>) /\ q < pagesUsed[e][c]
        /\ invalidSliceCnt' = [invalidSliceCnt EXCEPT ![e][c] = invalidSliceCnt[e][c] + 1]
    <3>1. v[1] = e /\ v[2] = c /\ v[3] = q
      BY <2>1
    <3> QED BY <2>0, <2>1, <3>1
  <2>3. InvalidPages(e, c)' = InvalidPages(e, c) \cup {q} /\ q \notin InvalidPages(e, c)
    <3>1. ASSUME NEW p \in Page
          PROVE  ValidPage(<<e, c, p>>)' <=> ValidPage(<<e, c, p>>) /\ p # q
      <4>1. <<e, c, p>> \in Vsa /\ (<<e, c, p>> = v <=> p = q)
        BY <2>1, VsaParts
      <4> QED BY <4>1, OldPlace
    <3> QED BY <1>1, <2>2, <3>1 DEF InvalidPages
  <2>4. /\ Cardinality(InvalidPages(e, c))' = Cardinality(InvalidPages(e, c)) + 1
        /\ Cardinality(InvalidPages(e, c)) < PagesPerBlock
    <3> DEFINE S == InvalidPages(e, c)
    <3>1. S \in SUBSET Page /\ q \in Page \ S
      BY <2>3 DEF InvalidPages
    <3> HIDE DEF S
    <3>2. Cardinality(S \cup {q}) = Cardinality(S) + 1 /\ Cardinality(S) < PagesPerBlock
      BY <3>1, PageMore
    <3> QED BY <2>3, <3>2 DEF S
  <2>5. invalidSliceCnt \in [Die -> [Block -> 0..PagesPerBlock]]
    BY DEF IInv, TypeOK
  <2>6. invalidSliceCnt[e][c] \in 0..(PagesPerBlock - 1)
    BY <1>2, <2>4, <2>5, Sizes
  <2>7. invalidSliceCnt' \in [Die -> [Block -> 0..PagesPerBlock]]
    BY <2>2, <2>5, <2>6, Sizes
  <2>8. ASSUME NEW d \in Die, NEW b \in Block
        PROVE  invalidSliceCnt'[d][b] = Cardinality(InvalidPages(d, b))'
    <3>1. CASE d = e /\ b = c
      <4>1. invalidSliceCnt'[e][c] = invalidSliceCnt[e][c] + 1
        BY <2>2, <2>5
      <4>2. invalidSliceCnt[e][c] = Cardinality(InvalidPages(e, c))
        BY <1>2
      <4> QED BY <2>4, <3>1, <4>1, <4>2
    <3>2. CASE ~(d = e /\ b = c)
      <4>1. invalidSliceCnt'[d][b] = invalidSliceCnt[d][b]
        BY <2>2, <2>5, <3>2
      <4>2. InvalidPages(d, b)' = InvalidPages(d, b)
        BY <1>3, <2>1, <3>2
      <4> QED BY <1>2, <4>1, <4>2
    <3> QED BY <3>1, <3>2
  <2>9. InvalidCountExact'
    BY <2>8 DEF InvalidCountExact, InvalidPages
  <2> QED BY <2>1, <2>6, <2>7, <2>9
<1> QED BY <1>4, <1>5

\* Block c of die e was in the list of count n, and is in the next one.
VictimMoved(e, c, n) ==
  /\ victimList' \in [Die -> [0..PagesPerBlock -> Seq(Block)]]
  /\ \A d \in Die, m \in 1..PagesPerBlock :
       IF d = e /\ m = n
       THEN NoDup(victimList'[d][m]) /\ ToSet(victimList'[d][m]) = ToSet(victimList[d][m]) \ {c}
       ELSE IF d = e /\ m = n + 1
       THEN NoDup(victimList'[d][m]) /\ ToSet(victimList'[d][m]) = ToSet(victimList[d][m]) \cup {c}
       ELSE victimList'[d][m] = victimList[d][m]

\* A block leaves its victim list and joins the one of its new count.
LEMMA MoveVictimLists ==
  ASSUME NEW e \in Die, NEW c \in Block, NEW n \in 0..(PagesPerBlock - 1),
         victimList \in [Die -> [0..PagesPerBlock -> Seq(Block)]],
         \A m \in 1..PagesPerBlock : NoDup(victimList[e][m]) /\ (c \in ToSet(victimList[e][m]) <=> m = n),
         MoveVictim(c, e, n)
  PROVE  VictimMoved(e, c, n)
<1> DEFINE r == RemoveFirst(victimList[e][n], c)
           a == Append(victimList[e][n + 1], c)
           row == [victimList[e] EXCEPT ![n] = r, ![n + 1] = a]
<1>1. n \in 0..PagesPerBlock /\ n + 1 \in 1..PagesPerBlock /\ n + 1 \in 0..PagesPerBlock
  BY Sizes
<1>2. /\ victimList[e] \in [0..PagesPerBlock -> Seq(Block)]
      /\ victimList[e][n] \in Seq(Block) /\ victimList[e][n + 1] \in Seq(Block)
  BY <1>1
<1>3. r \in Seq(Block)
  BY <1>2, RemoveFirstType
<1>4. a \in Seq(Block) /\ NoDup(a) /\ ToSet(a) = ToSet(victimList[e][n + 1]) \cup {c}
  <2>1. NoDup(victimList[e][n + 1]) /\ c \notin ToSet(victimList[e][n + 1])
    BY <1>1
  <2> QED BY <1>2, <2>1, AppendQueue
<1>5. n > 0 => NoDup(r) /\ ToSet(r) = ToSet(victimList[e][n]) \ {c}
  <2> SUFFICES ASSUME n > 0 PROVE NoDup(r) /\ ToSet(r) = ToSet(victimList[e][n]) \ {c}
    OBVIOUS
  <2>1. NoDup(victimList[e][n]) /\ c \in ToSet(victimList[e][n])
    BY <1>1
  <2> QED BY <1>2, <2>1, RemoveFirstQueue
<1>6. victimList' = [victimList EXCEPT ![e] = row]
  <2>1. victimList' = [victimList EXCEPT ![e][n] = r, ![e][n + 1] = a]
    BY DEF MoveVictim
  <2>2. n # n + 1
    BY <1>1
  <2> HIDE DEF r, a
  <2> QED BY <1>1, <1>2, <2>1, <2>2
<1> HIDE DEF r, a
<1>7. /\ row \in [0..PagesPerBlock -> Seq(Block)]
      /\ row[n + 1] = a /\ row[n] = r
      /\ \A m \in 0..PagesPerBlock : m # n /\ m # n + 1 => row[m] = victimList[e][m]
  <2>1. n # n + 1
    BY <1>1
  <2> QED BY <1>1, <1>2, <1>3, <1>4, <2>1
<1> HIDE DEF row
<1>8. /\ victimList' \in [Die -> [0..PagesPerBlock -> Seq(Block)]]
      /\ victimList'[e] = row
      /\ \A d \in Die : d # e => victimList'[d] = victimList[d]
  BY <1>6, <1>7
<1>9. ASSUME NEW d \in Die, NEW m \in 1..PagesPerBlock
      PROVE  IF d = e /\ m = n
             THEN NoDup(victimList'[d][m]) /\ ToSet(victimList'[d][m]) = ToSet(victimList[d][m]) \ {c}
             ELSE IF d = e /\ m = n + 1
             THEN NoDup(victimList'[d][m]) /\ ToSet(victimList'[d][m]) = ToSet(victimList[d][m]) \cup {c}
             ELSE victimList'[d][m] = victimList[d][m]
  <2>1. CASE d # e
    BY <1>8, <2>1
  <2>2. CASE d = e /\ m = n
    <3>1. n > 0
      BY <2>2
    <3> QED BY <1>5, <1>7, <1>8, <2>2, <3>1
  <2>3. CASE d = e /\ m = n + 1
    <3>1. m # n
      BY <1>1, <2>3
    <3> QED BY <1>4, <1>7, <1>8, <2>3, <3>1
  <2>4. CASE d = e /\ m # n /\ m # n + 1
    BY <1>7, <1>8, <2>4
  <2> QED BY <2>1, <2>2, <2>3, <2>4
<1> QED BY <1>8, <1>9 DEF VictimMoved

\* The victim lists as IInv has them.
LEMMA ListsMeaning ==
  VictimListsExact <=>
    /\ InvalidCountExact
    /\ \A d \in Die, n \in 1..PagesPerBlock :
         /\ NoDup(victimList[d][n])
         /\ \A b \in Block : b \in ToSet(victimList[d][n]) <=>
              invalidSliceCnt[d][b] = n /\ ~Collecting(d, b)
BY DEF VictimListsExact, NoDup

\* A step that moves no count and no victim list.
LEMMA ListsKept ==
  ASSUME IInv, UNCHANGED <<invalidSliceCnt, victimList>>,
         \A d \in Die, b \in Block : Collecting(d, b)' <=> Collecting(d, b),
         \A d \in Die, b \in Block : ~Collecting(d, b) => InvalidPages(d, b)' = InvalidPages(d, b)
  PROVE  VictimListsExact'
<1>1. \A d \in Die, b \in Block : ~Collecting(d, b) =>
        invalidSliceCnt[d][b] = Cardinality(InvalidPages(d, b))
  BY DEF IInv, VictimListsExact, InvalidCountExact, InvalidPages
<1>2. \A d \in Die, b \in Block : ~Collecting(d, b)' =>
        invalidSliceCnt'[d][b] = Cardinality(InvalidPages(d, b))'
  BY <1>1
<1>3. InvalidCountExact'
  BY <1>2 DEF InvalidCountExact, InvalidPages
<1>4. ASSUME NEW d \in Die, NEW n \in 1..PagesPerBlock
      PROVE  /\ \A b \in Block : b \in ToSet(victimList'[d][n]) <=>
                  invalidSliceCnt'[d][b] = n /\ ~Collecting(d, b)'
             /\ \A i, j \in 1..Len(victimList'[d][n]) :
                  victimList'[d][n][i] = victimList'[d][n][j] => i = j
  BY DEF IInv, VictimListsExact
<1> QED BY <1>3, <1>4 DEF VictimListsExact

\* The victim lists follow the count of the block that lost a page.
LEMMA AddrTransWriteLists ==
  ASSUME IInv, NEW l \in Lsa, AddrTransWrite(l)
  PROVE  VictimListsExact' /\ victimList' \in [Die -> [0..PagesPerBlock -> Seq(Block)]]
<1> DEFINE v == logicalSlice[l]
<1>1. phase = "idle" /\ phase' = "find"
  BY DEF AddrTransWrite
<1>2. /\ \A d \in Die, n \in 1..PagesPerBlock :
           /\ NoDup(victimList[d][n])
           /\ \A b \in Block : b \in ToSet(victimList[d][n]) <=> invalidSliceCnt[d][b] = n
      /\ victimList \in [Die -> [0..PagesPerBlock -> Seq(Block)]]
      /\ invalidSliceCnt \in [Die -> [Block -> 0..PagesPerBlock]]
  BY <1>1, ListsMeaning DEF IInv, TypeOK, Collecting
<1>3. InvalidCountExact'
  BY AddrTransWriteCounts
<1>4. ASSUME \A d \in Die, n \in 1..PagesPerBlock :
               /\ NoDup(victimList'[d][n])
               /\ \A b \in Block : b \in ToSet(victimList'[d][n]) <=> invalidSliceCnt'[d][b] = n
      PROVE  VictimListsExact'
  BY <1>1, <1>3, <1>4, ListsMeaning DEF VictimListsExact, Collecting, NoDup
<1>5. CASE v = NoVsa
  <2>1. UNCHANGED <<victimList, invalidSliceCnt>>
    BY <1>5, OldPlace
  <2> QED BY <1>2, <1>4, <2>1
<1>6. CASE v # NoVsa
  <2>1. v \in Vsa /\ v[1] \in Die /\ v[2] \in Block
    <3>1. v \in Vsa
      BY <1>6, OldPlace
    <3> HIDE DEF v
    <3> QED BY <3>1, VsaParts
  <2>2. PICK e \in Die, c \in Block, n \in 0..PagesPerBlock :
          e = v[1] /\ c = v[2] /\ n = invalidSliceCnt[e][c]
    BY <1>2, <2>1
  <2>3. /\ MoveVictim(c, e, n)
        /\ invalidSliceCnt' = [invalidSliceCnt EXCEPT ![e][c] = n + 1]
    BY <1>6, <2>2, OldPlace
  <2>4. n \in 0..(PagesPerBlock - 1)
    BY <1>6, <2>2, AddrTransWriteCounts
  <2>5. VictimMoved(e, c, n)
    <3>1. \A m \in 1..PagesPerBlock : NoDup(victimList[e][m]) /\ (c \in ToSet(victimList[e][m]) <=> m = n)
      BY <1>2, <2>2
    <3> QED BY <1>2, <2>3, <2>4, <3>1, MoveVictimLists
  <2>6. ASSUME NEW d \in Die, NEW m \in 1..PagesPerBlock
        PROVE  /\ NoDup(victimList'[d][m])
               /\ \A b \in Block : b \in ToSet(victimList'[d][m]) <=> invalidSliceCnt'[d][b] = m
    <3>1. \A b \in Block : invalidSliceCnt'[d][b] =
                             IF d = e /\ b = c THEN n + 1 ELSE invalidSliceCnt[d][b]
      BY <1>2, <2>3
    <3>2. /\ NoDup(victimList[d][m])
          /\ \A b \in Block : b \in ToSet(victimList[d][m]) <=> invalidSliceCnt[d][b] = m
      BY <1>2
    <3>3. CASE d = e /\ m = n
      <4>1. NoDup(victimList'[d][m]) /\ ToSet(victimList'[d][m]) = ToSet(victimList[d][m]) \ {c}
        BY <2>5, <3>3 DEF VictimMoved
      <4>2. m # n + 1
        BY <3>3, <2>4
      <4> QED BY <3>1, <3>2, <3>3, <4>1, <4>2
    <3>4. CASE d = e /\ m = n + 1
      <4>1. m # n
        BY <3>4, <2>4
      <4>2. NoDup(victimList'[d][m]) /\ ToSet(victimList'[d][m]) = ToSet(victimList[d][m]) \cup {c}
        BY <2>5, <3>4, <4>1 DEF VictimMoved
      <4> QED BY <3>1, <3>2, <3>4, <4>2
    <3>5. CASE ~(d = e /\ m \in {n, n + 1})
      <4>1. victimList'[d][m] = victimList[d][m]
        BY <2>5, <3>5 DEF VictimMoved
      <4>2. \A b \in Block : d = e /\ b = c => invalidSliceCnt[d][b] # m /\ invalidSliceCnt'[d][b] # m
        BY <2>2, <3>1, <3>5
      <4> QED BY <3>1, <3>2, <4>1, <4>2
    <3> QED BY <3>3, <3>4, <3>5
  <2> QED BY <1>4, <2>5, <2>6 DEF VictimMoved
<1> QED BY <1>2, <1>5, <1>6, OldPlace

\* A host write gives up the old page of its slice.
LEMMA AddrTransWriteStep ==
  ASSUME IInv, NEW l \in Lsa, AddrTransWrite(l), Workload'
  PROVE  IInv'
<1> DEFINE v == logicalSlice[l]
<1> USE NoneAssumption, Sizes
<1>1. /\ phase = "idle" /\ phase' = "find" /\ lsa' = l
      /\ UNCHANGED <<virtualSlice, free, pagesUsed, freeList, currentBlock, targetDie, victim, gcPage>>
  BY DEF AddrTransWrite, gcVars
<1>2. /\ logicalSlice' = [logicalSlice EXCEPT ![l] = NoVsa]
      /\ \A u \in Vsa : ValidPage(u)' <=> ValidPage(u) /\ u # v
  BY OldPlace
<1>3. logicalSlice \in [Lsa -> Vsa \cup {NoVsa}]
  BY DEF IInv, TypeOK
<1>4. VictimListsExact' /\ victimList' \in [Die -> [0..PagesPerBlock -> Seq(Block)]]
      /\ invalidSliceCnt' \in [Die -> [Block -> 0..PagesPerBlock]]
  BY AddrTransWriteCounts, AddrTransWriteLists
<1>5. TypeOK'
  BY <1>1, <1>2, <1>3, <1>4 DEF IInv, TypeOK, Phase
<1>6. WriteAtHand'
  BY <1>1, <1>2, <1>3 DEF WriteAtHand
<1>7. MapsAgree'
  BY <1>1, <1>2, <1>3 DEF IInv, MapsAgree
<1>8. GivenRecorded' /\ FreeBlocksUnused' /\ OtherBlocksFull'
  BY <1>1 DEF IInv, GivenRecorded, FreeBlocksUnused, OtherBlocksFull
<1>9. FoundAsWorked'
  BY <1>1 DEF FoundAsWorked
<1>10. VictimKept'
  BY <1>1 DEF VictimKept
<1>11. ReserveKept'
  BY <1>1 DEF IInv, ReserveKept
<1> QED BY <1>4, <1>5, <1>6, <1>7, <1>8, <1>9, <1>10, <1>11 DEF IInv

-----------------------------------------------------------------------------
(* Free blocks.                                                            *)

\* What it is for the free list to be exact, spelled out.
LEMMA FreeMeaning ==
  FreeBlocksUnused <=>
    \A d \in Die :
      /\ NoDup(freeList[d])
      /\ \A b \in Block : free[d][b] <=> b \in ToSet(freeList[d])
      /\ \A b \in Block : free[d][b] => pagesUsed[d][b] = 0 /\ b # currentBlock[d]
BY DEF FreeBlocksUnused, NoDup

\* The block that is opened next.
LEMMA NextFreeBlock ==
  ASSUME IInv, NEW d \in Die, freeList[d] # <<>>
  PROVE  LET b == Head(freeList[d]) IN
         /\ b \in Block /\ free[d][b] /\ pagesUsed[d][b] = 0 /\ b # currentBlock[d]
         /\ Tail(freeList[d]) \in Seq(Block) /\ NoDup(Tail(freeList[d]))
         /\ ToSet(Tail(freeList[d])) = ToSet(freeList[d]) \ {b}
         /\ Len(Tail(freeList[d])) = Len(freeList[d]) - 1
<1> DEFINE s == freeList[d]
<1>1. s \in Seq(Block) /\ NoDup(s)
  BY FreeMeaning DEF IInv, TypeOK
<1>2. s # <<>>
  OBVIOUS
<1>3. /\ Tail(s) \in Seq(Block) /\ Head(s) \in Block /\ Head(s) \in ToSet(s)
      /\ NoDup(Tail(s)) /\ ToSet(Tail(s)) = ToSet(s) \ {Head(s)} /\ Len(Tail(s)) = Len(s) - 1
  <2> HIDE DEF s
  <2> QED BY <1>1, <1>2, TailQueue
<1>4. free[d][Head(s)] /\ pagesUsed[d][Head(s)] = 0 /\ Head(s) # currentBlock[d]
  BY <1>3, FreeMeaning DEF IInv
<1> QED BY <1>3, <1>4

\* A block is taken from the free list when the open one is full.
LEMMA OpenBlockStep ==
  ASSUME IInv, OpenBlock
  PROVE  IInv'
<1> DEFINE d == targetDie
           b == Head(freeList[d])
<1> USE NoneAssumption, Sizes
<1>1. d \in Die /\ freeList[d] \in Seq(Block) /\ Len(freeList[d]) > ReservedFreeBlocks
      /\ pagesUsed[d][currentBlock[d]] = PagesPerBlock
  BY DEF OpenBlock, NormalBlockAvailable, OpenBlockFull, IInv, TypeOK
<1>2. /\ b \in Block /\ free[d][b] /\ pagesUsed[d][b] = 0 /\ b # currentBlock[d]
      /\ Tail(freeList[d]) \in Seq(Block) /\ NoDup(Tail(freeList[d]))
      /\ ToSet(Tail(freeList[d])) = ToSet(freeList[d]) \ {b}
      /\ Len(Tail(freeList[d])) = Len(freeList[d]) - 1
  <2>1. freeList[d] # <<>>
    BY <1>1
  <2> QED BY <1>1, <2>1, NextFreeBlock
<1>3. /\ phase \in {"find", "collected"} /\ phase' = "give"
      /\ currentBlock' = [currentBlock EXCEPT ![d] = b]
      /\ freeList' = [freeList EXCEPT ![d] = Tail(freeList[d])]
      /\ free' = [free EXCEPT ![d][b] = FALSE]
      /\ UNCHANGED <<logicalSlice, virtualSlice, invalidSliceCnt, pagesUsed, victimList, targetDie,
                     lsa, victim, gcPage>>
  BY DEF OpenBlock, maps, gcVars
<1> HIDE DEF b
<1>4. TypeOK'
  <2>1. /\ currentBlock' \in [Die -> Block] /\ freeList' \in [Die -> Seq(Block)]
        /\ free' \in [Die -> [Block -> BOOLEAN]]
    BY <1>1, <1>2, <1>3 DEF IInv, TypeOK
  <2> QED BY <1>3, <2>1 DEF IInv, TypeOK, Phase
<1>5. \A e \in Die, c \in Block : free'[e][c] <=> free[e][c] /\ ~(e = d /\ c = b)
  BY <1>1, <1>2, <1>3 DEF IInv, TypeOK
<1>6. /\ \A e \in Die : currentBlock'[e] = IF e = d THEN b ELSE currentBlock[e]
      /\ \A e \in Die : freeList'[e] = IF e = d THEN Tail(freeList[d]) ELSE freeList[e]
  BY <1>1, <1>3 DEF IInv, TypeOK
<1>7. WriteAtHand' /\ GivenRecorded'
  BY <1>3 DEF IInv, WriteAtHand, GivenRecorded
<1>8. MapsAgree'
  <2> SUFFICES ASSUME NEW l \in Lsa, logicalSlice[l] # NoVsa
               PROVE  LET v == logicalSlice[l] IN
                      /\ virtualSlice[v] = l /\ v[3] < pagesUsed[v[1]][v[2]] /\ ~free'[v[1]][v[2]]
    BY <1>3 DEF MapsAgree
  <2>1. LET v == logicalSlice[l] IN
          /\ v[1] \in Die /\ v[2] \in Block
          /\ virtualSlice[v] = l /\ v[3] < pagesUsed[v[1]][v[2]] /\ ~free[v[1]][v[2]]
    <3>1. logicalSlice[l] \in Vsa
      BY DEF IInv, TypeOK
    <3> QED BY <3>1, VsaParts DEF IInv, MapsAgree
  <2> QED BY <1>5, <2>1
<1>9. FreeBlocksUnused'
  <2>1. ASSUME NEW e \in Die
        PROVE  /\ NoDup(freeList'[e])
               /\ \A c \in Block : free'[e][c] <=> c \in ToSet(freeList'[e])
               /\ \A c \in Block : free'[e][c] => pagesUsed'[e][c] = 0 /\ c # currentBlock'[e]
    <3>1. /\ NoDup(freeList[e])
          /\ \A c \in Block : free[e][c] <=> c \in ToSet(freeList[e])
          /\ \A c \in Block : free[e][c] => pagesUsed[e][c] = 0 /\ c # currentBlock[e]
      BY FreeMeaning DEF IInv
    <3>2. CASE e = d
      BY <1>2, <1>3, <1>5, <1>6, <3>1, <3>2
    <3>3. CASE e # d
      BY <1>3, <1>5, <1>6, <3>1, <3>3
    <3> QED BY <3>2, <3>3
  <2> QED BY <2>1 DEF FreeBlocksUnused, NoDup
<1>10. OtherBlocksFull'
  <2> SUFFICES ASSUME NEW e \in Die, NEW c \in Block, ~free'[e][c], c # currentBlock'[e]
               PROVE  pagesUsed[e][c] = PagesPerBlock
    BY <1>3 DEF OtherBlocksFull
  <2>1. ~free[e][c] /\ (c # currentBlock[e] \/ e = d)
    BY <1>5, <1>6
  <2>2. CASE c # currentBlock[e]
    BY <2>1, <2>2 DEF IInv, OtherBlocksFull
  <2> QED BY <1>1, <2>1, <2>2
<1>11. VictimListsExact'
  BY <1>3, ListsKept DEF Collecting, InvalidPages, ValidPage
<1>12. FoundAsWorked'
  <2>1. currentBlock'[d] = b /\ pagesUsed'[d][b] = 0
    BY <1>1, <1>2, <1>3, <1>6
  <2> QED BY <1>3, <2>1 DEF FoundAsWorked, OpenBlockFull
<1>13. VictimKept'
  BY <1>3 DEF VictimKept
<1>14. ReserveKept'
  <2>1. \A e \in Die : Len(freeList'[e]) >= ReservedFreeBlocks
    <3>1. \A e \in Die : Len(freeList[e]) >= ReservedFreeBlocks
      BY <1>3 DEF IInv, ReserveKept
    <3>2. Len(freeList[d]) - 1 >= ReservedFreeBlocks
      BY <1>1
    <3> QED BY <1>1, <1>2, <1>6, <3>1, <3>2
  <2> QED BY <1>3, <2>1 DEF ReserveKept
<1> QED BY <1>4, <1>7, <1>8, <1>9, <1>10, <1>11, <1>12, <1>13, <1>14 DEF IInv

-----------------------------------------------------------------------------
(* A slice gets a page: a write, or a copy.                                *)

\* Slice l is recorded at the next page of block b of die d.
Placed(l, d, b) ==
  LET w == <<d, b, pagesUsed[d][b]>> IN
  /\ pagesUsed' = [pagesUsed EXCEPT ![d][b] = pagesUsed[d][b] + 1]
  /\ logicalSlice' = [logicalSlice EXCEPT ![l] = w]
  /\ virtualSlice' = [virtualSlice EXCEPT ![w] = l]

\* What that does to the maps and the pages.
PlacedEffect(l, d, b, p) ==
  /\ logicalSlice' \in [Lsa -> Vsa \cup {NoVsa}] /\ virtualSlice' \in [Vsa -> Lsa \cup {NoLsa}]
  /\ pagesUsed' \in [Die -> [Block -> 0..PagesPerBlock]]
  /\ \A e \in Die, c \in Block :
       pagesUsed'[e][c] = IF e = d /\ c = b THEN p + 1 ELSE pagesUsed[e][c]
  /\ <<d, b, p>> \in Vsa /\ virtualSlice[<<d, b, p>>] = NoLsa
  /\ \A k \in Lsa : logicalSlice'[k] = IF k = l THEN <<d, b, p>> ELSE logicalSlice[k]
  /\ \A u \in Vsa : virtualSlice'[u] = IF u = <<d, b, p>> THEN l ELSE virtualSlice[u]

\* What writing a slice to the next page of a block does to the maps.
LEMMA PlacedMaps ==
  ASSUME IInv, NEW l \in Lsa, NEW d \in Die, NEW b \in Block, NEW p \in Page,
         p = pagesUsed[d][b], Placed(l, d, b)
  PROVE  PlacedEffect(l, d, b, p)
<1> DEFINE w == <<d, b, p>>
<1>1. w \in Vsa /\ w[1] = d /\ w[2] = b /\ w[3] = p
  BY VsaParts
<1>2. virtualSlice[w] = NoLsa
  <2>1. ~(p < pagesUsed[d][b])
    BY Sizes DEF Page
  <2> QED BY <1>1, <2>1 DEF IInv, GivenRecorded
<1>3. /\ logicalSlice \in [Lsa -> Vsa \cup {NoVsa}] /\ virtualSlice \in [Vsa -> Lsa \cup {NoLsa}]
      /\ pagesUsed \in [Die -> [Block -> 0..PagesPerBlock]]
  BY DEF IInv, TypeOK
<1>4. p + 1 \in 0..PagesPerBlock
  BY Sizes DEF Page
<1>5. /\ pagesUsed' = [pagesUsed EXCEPT ![d][b] = p + 1]
      /\ logicalSlice' = [logicalSlice EXCEPT ![l] = w]
      /\ virtualSlice' = [virtualSlice EXCEPT ![w] = l]
  BY DEF Placed
<1>6. /\ pagesUsed' \in [Die -> [Block -> 0..PagesPerBlock]]
      /\ \A e \in Die, c \in Block :
              pagesUsed'[e][c] = IF e = d /\ c = b THEN p + 1 ELSE pagesUsed[e][c]
  BY <1>3, <1>4, <1>5
<1> HIDE DEF w
<1>7. /\ logicalSlice' \in [Lsa -> Vsa \cup {NoVsa}] /\ virtualSlice' \in [Vsa -> Lsa \cup {NoLsa}]
      /\ \A k \in Lsa : logicalSlice'[k] = IF k = l THEN w ELSE logicalSlice[k]
      /\ \A u \in Vsa : virtualSlice'[u] = IF u = w THEN l ELSE virtualSlice[u]
  BY <1>1, <1>3, <1>5
<1> QED BY <1>1, <1>2, <1>6, <1>7 DEF w, PlacedEffect

\* The two maps agree about a slice just written.
LEMMA PlacedAgrees ==
  ASSUME IInv, NEW l \in Lsa, NEW d \in Die, NEW b \in Block, NEW p \in Page,
         p = pagesUsed[d][b], Placed(l, d, b),
         \A e \in Die, c \in Block : free'[e][c] => free[e][c], ~free'[d][b]
  PROVE  MapsAgree' /\ GivenRecorded'
<1> USE NoneAssumption
<1>0. DEFINE w == <<d, b, p>>
<1>1. w \in Vsa /\ w[1] = d /\ w[2] = b /\ w[3] = p
  BY VsaParts
<1>2. /\ virtualSlice[w] = NoLsa
      /\ \A e \in Die, c \in Block :
              pagesUsed'[e][c] = IF e = d /\ c = b THEN p + 1 ELSE pagesUsed[e][c]
      /\ \A k \in Lsa : logicalSlice'[k] = IF k = l THEN w ELSE logicalSlice[k]
      /\ \A u \in Vsa : virtualSlice'[u] = IF u = w THEN l ELSE virtualSlice[u]
  <2>1. PlacedEffect(l, d, b, p)
    BY PlacedMaps
  <2> QED BY <2>1 DEF PlacedEffect, w
<1>3. /\ logicalSlice \in [Lsa -> Vsa \cup {NoVsa}]
      /\ pagesUsed \in [Die -> [Block -> 0..PagesPerBlock]]
  BY DEF IInv, TypeOK
<1> HIDE DEF w
<1>4. ASSUME NEW k \in Lsa, logicalSlice'[k] # NoVsa
      PROVE  LET v == logicalSlice'[k] IN
             /\ virtualSlice'[v] = k /\ v[3] < pagesUsed'[v[1]][v[2]] /\ ~free'[v[1]][v[2]]
  <2>1. CASE k = l
    <3>1. p < pagesUsed'[d][b]
      BY <1>2, Sizes DEF Page
    <3> QED BY <1>1, <1>2, <2>1, <3>1
  <2>2. CASE k # l
    <3>1. logicalSlice'[k] = logicalSlice[k]
      BY <1>2, <2>2
    <3>2. PICK v \in Vsa : v = logicalSlice[k]
      BY <1>3, <1>4, <3>1
    <3>3. virtualSlice[v] = k /\ v[3] < pagesUsed[v[1]][v[2]] /\ ~free[v[1]][v[2]]
      BY <1>4, <3>1, <3>2 DEF IInv, MapsAgree
    <3>4. v # w
      BY <1>2, <3>3
    <3>5. v[1] \in Die /\ v[2] \in Block /\ v[3] \in Page
      BY VsaParts
    <3>6. v[3] < pagesUsed'[v[1]][v[2]]
      <4>1. pagesUsed[v[1]][v[2]] \in Nat /\ v[3] \in Nat /\ p \in Nat
        BY <1>3, <3>5 DEF Page
      <4> QED BY <1>2, <3>3, <3>5, <4>1
    <3>7. virtualSlice'[v] = k /\ ~free'[v[1]][v[2]]
      BY <1>2, <3>3, <3>4, <3>5
    <3> QED BY <3>1, <3>2, <3>6, <3>7
  <2> QED BY <2>1, <2>2
<1>5. MapsAgree'
  BY <1>4 DEF MapsAgree
<1>6. ASSUME NEW u \in Vsa
      PROVE  virtualSlice'[u] # NoLsa <=> u[3] < pagesUsed'[u[1]][u[2]]
  <2>1. u[1] \in Die /\ u[2] \in Block /\ u[3] \in Page /\ u = <<u[1], u[2], u[3]>>
    BY VsaParts
  <2>2. virtualSlice[u] # NoLsa <=> u[3] < pagesUsed[u[1]][u[2]]
    BY DEF IInv, GivenRecorded
  <2>3. pagesUsed[u[1]][u[2]] \in Nat /\ u[3] \in Nat /\ p \in Nat
    BY <1>3, <2>1 DEF Page
  <2>4. CASE u = w
    BY <1>1, <1>2, <2>3, <2>4
  <2>5. CASE u # w /\ u[1] = d /\ u[2] = b
    <3>1. u[3] # p
      BY <2>1, <2>5 DEF w
    <3> QED BY <1>2, <2>1, <2>2, <2>3, <2>5, <3>1
  <2>6. CASE u # w /\ ~(u[1] = d /\ u[2] = b)
    BY <1>2, <2>1, <2>2, <2>6
  <2> QED BY <2>4, <2>5, <2>6
<1>7. GivenRecorded'
  BY <1>6 DEF GivenRecorded
<1> QED BY <1>5, <1>7

\* The new page is valid, the old place of the slice is not any more.
LEMMA PlacedValid ==
  ASSUME IInv, NEW l \in Lsa, NEW d \in Die, NEW b \in Block, NEW p \in Page,
         p = pagesUsed[d][b], Placed(l, d, b)
  PROVE  /\ \A u \in Vsa : ValidPage(u)' <=> u = <<d, b, p>> \/ (ValidPage(u) /\ u # logicalSlice[l])
         /\ \A e \in Die, c \in Block :
              (\A q \in Page : logicalSlice[l] # <<e, c, q>>) =>
                InvalidPages(e, c)' = InvalidPages(e, c)
<1> USE NoneAssumption
<1>0. DEFINE w == <<d, b, p>>
<1>1. w \in Vsa /\ w[1] = d /\ w[2] = b /\ w[3] = p
  BY VsaParts
<1>2. /\ virtualSlice[w] = NoLsa
      /\ \A e \in Die, c \in Block :
              pagesUsed'[e][c] = IF e = d /\ c = b THEN p + 1 ELSE pagesUsed[e][c]
      /\ \A k \in Lsa : logicalSlice'[k] = IF k = l THEN w ELSE logicalSlice[k]
      /\ \A u \in Vsa : virtualSlice'[u] = IF u = w THEN l ELSE virtualSlice[u]
  <2>1. PlacedEffect(l, d, b, p)
    BY PlacedMaps
  <2> QED BY <2>1 DEF PlacedEffect, w
<1>3. /\ virtualSlice \in [Vsa -> Lsa \cup {NoLsa}]
      /\ pagesUsed \in [Die -> [Block -> 0..PagesPerBlock]]
  BY DEF IInv, TypeOK
<1> HIDE DEF w
<1>4. ASSUME NEW u \in Vsa
      PROVE  ValidPage(u)' <=> u = w \/ (ValidPage(u) /\ u # logicalSlice[l])
  <2>1. CASE u = w
    BY <1>1, <1>2, <2>1 DEF ValidPage
  <2>2. CASE u # w
    <3>1. virtualSlice'[u] = virtualSlice[u] /\ virtualSlice[u] \in Lsa \cup {NoLsa}
      BY <1>2, <1>3, <2>2
    <3>2. u = logicalSlice[l] => virtualSlice[u] = l
      BY DEF IInv, MapsAgree
    <3>3. CASE virtualSlice[u] = l
      BY <1>2, <2>2, <3>1, <3>3 DEF ValidPage
    <3>4. CASE virtualSlice[u] # l
      BY <1>2, <2>2, <3>1, <3>2, <3>4 DEF ValidPage
    <3> QED BY <3>3, <3>4
  <2> QED BY <2>1, <2>2
<1>5. ASSUME NEW e \in Die, NEW c \in Block, \A q \in Page : logicalSlice[l] # <<e, c, q>>
      PROVE  InvalidPages(e, c)' = InvalidPages(e, c)
  <2>1. ASSUME NEW q \in Page
        PROVE  q < pagesUsed'[e][c] /\ ~ValidPage(<<e, c, q>>)'
                 <=> q < pagesUsed[e][c] /\ ~ValidPage(<<e, c, q>>)
    <3>1. <<e, c, q>> \in Vsa /\ (<<e, c, q>> = w <=> e = d /\ c = b /\ q = p)
      BY VsaParts DEF w
    <3>2. ValidPage(<<e, c, q>>)' <=> <<e, c, q>> = w \/ ValidPage(<<e, c, q>>)
      BY <1>4, <1>5, <3>1
    <3>3. q \in Nat /\ p \in Nat /\ pagesUsed[e][c] \in Nat
      BY <1>3 DEF Page
    <3>4. <<e, c, q>> = w => ~(q < pagesUsed[e][c])
      BY <3>1, <3>3
    <3>5. <<e, c, q>> # w => (q < pagesUsed'[e][c] <=> q < pagesUsed[e][c])
      BY <1>2, <3>1, <3>3
    <3> QED BY <3>2, <3>4, <3>5
  <2> QED BY <2>1 DEF InvalidPages
<1> QED BY <1>4, <1>5 DEF w

\* The die after the last is the first.
LEMMA NextDie == (targetDie \in Die) => (targetDie + 1) % Dies \in Die
<1> SUFFICES ASSUME targetDie \in Die PROVE (targetDie + 1) % Dies \in Die
  OBVIOUS
<1>1. targetDie + 1 \in Nat /\ Dies \in Nat /\ Dies > 0
  BY Sizes DEF Die
<1>2. (targetDie + 1) % Dies \in 0..(Dies - 1)
  BY <1>1, Division
<1> QED BY <1>2 DEF Die

\* The new page of a host write.
LEMMA GiveSliceStep ==
  ASSUME IInv, GiveSlice
  PROVE  IInv'
<1>1. PICK d \in Die, b \in Block : d = targetDie /\ b = currentBlock[targetDie]
  BY DEF IInv, TypeOK
<1>2. PICK l \in Lsa : l = lsa /\ logicalSlice[l] = NoVsa
  BY NoneAssumption DEF GiveSlice, IInv, TypeOK, WriteAtHand
<1>3. pagesUsed[d][b] # PagesPerBlock
  BY <1>1 DEF GiveSlice, OpenBlockFull, IInv, FoundAsWorked
<1>4. PICK p \in Page : p = pagesUsed[d][b]
  <2>1. pagesUsed[d][b] \in 0..PagesPerBlock
    BY DEF IInv, TypeOK
  <2> QED BY <1>3, <2>1, Sizes DEF Page
<1>5. Placed(l, d, b)
  BY <1>1, <1>2 DEF GiveSlice, Placed
<1>6. /\ phase \in {"give", "find", "collected"} /\ phase' = "idle" /\ lsa' = NoLsa
      /\ targetDie' = (targetDie + 1) % Dies
      /\ UNCHANGED <<free, invalidSliceCnt, freeList, victimList, currentBlock, victim, gcPage>>
  BY DEF GiveSlice, lists, gcVars
<1>7. /\ logicalSlice' \in [Lsa -> Vsa \cup {NoVsa}] /\ virtualSlice' \in [Vsa -> Lsa \cup {NoLsa}]
      /\ pagesUsed' \in [Die -> [Block -> 0..PagesPerBlock]]
      /\ \A e \in Die, c \in Block :
              pagesUsed'[e][c] = IF e = d /\ c = b THEN p + 1 ELSE pagesUsed[e][c]
  <2>1. PlacedEffect(l, d, b, p)
    BY <1>4, <1>5, PlacedMaps
  <2> QED BY <2>1 DEF PlacedEffect
<1>8. ~free[d][b]
  BY <1>1 DEF IInv, FreeBlocksUnused
<1>9. TypeOK'
  BY <1>6, <1>7, NextDie DEF IInv, TypeOK, Phase
<1>10. WriteAtHand'
  BY <1>6, NoneAssumption DEF WriteAtHand
<1>11. MapsAgree' /\ GivenRecorded'
  BY <1>4, <1>5, <1>6, <1>8, PlacedAgrees
<1>12. FreeBlocksUnused'
  <2> SUFFICES ASSUME NEW e \in Die
               PROVE  /\ \A c \in Block : free[e][c] <=> c \in ToSet(freeList[e])
                      /\ \A i, j \in 1..Len(freeList[e]) : freeList[e][i] = freeList[e][j] => i = j
                      /\ \A c \in Block : free[e][c] => pagesUsed'[e][c] = 0 /\ c # currentBlock[e]
    BY <1>6 DEF FreeBlocksUnused
  <2>1. /\ \A c \in Block : free[e][c] <=> c \in ToSet(freeList[e])
        /\ \A i, j \in 1..Len(freeList[e]) : freeList[e][i] = freeList[e][j] => i = j
        /\ \A c \in Block : free[e][c] => pagesUsed[e][c] = 0 /\ c # currentBlock[e]
    BY DEF IInv, FreeBlocksUnused
  <2>2. ASSUME NEW c \in Block, free[e][c] PROVE pagesUsed'[e][c] = 0
    <3>1. ~(e = d /\ c = b)
      BY <1>8, <2>2
    <3> QED BY <1>7, <2>1, <2>2, <3>1
  <2> QED BY <2>1, <2>2
<1>13. OtherBlocksFull'
  BY <1>1, <1>6, <1>7 DEF IInv, OtherBlocksFull
<1>14. VictimListsExact'
  <2>1. \A e \in Die, c \in Block : ~Collecting(e, c) /\ ~Collecting(e, c)'
    BY <1>6 DEF Collecting
  <2>2. \A e \in Die, c \in Block : InvalidPages(e, c)' = InvalidPages(e, c)
    <3>1. \A e \in Die, c \in Block, q \in Page : logicalSlice[l] # <<e, c, q>>
      BY <1>2, VsaParts, NoneAssumption
    <3> QED BY <1>4, <1>5, <3>1, PlacedValid
  <2> QED BY <1>6, <2>1, <2>2, ListsKept
<1>15. FoundAsWorked' /\ VictimKept'
  BY <1>6 DEF FoundAsWorked, VictimKept
<1>16. ReserveKept'
  BY <1>6 DEF IInv, ReserveKept
<1> QED BY <1>9, <1>10, <1>11, <1>12, <1>13, <1>14, <1>15, <1>16 DEF IInv

-----------------------------------------------------------------------------
(* Garbage collection takes a victim.                                      *)

\* The victim, its list and its pages.
LEMMA VictimTaken ==
  ASSUME IInv, ~OpenVictim, GarbageCollection, NEW d \in Die, d = targetDie
  PROVE  \E n \in 1..PagesPerBlock, b \in Block :
           /\ victim' = b /\ invalidSliceCnt[d][b] = n
           /\ n = PagesPerBlock => b # currentBlock[d]
           /\ ~free[d][b] /\ pagesUsed[d][b] = PagesPerBlock
           /\ OpenBlockFull(d) /\ Len(freeList[d]) = ReservedFreeBlocks
           /\ victimList' = [victimList EXCEPT ![d][n] = Tail(victimList[d][n])]
           /\ Tail(victimList[d][n]) \in Seq(Block) /\ NoDup(Tail(victimList[d][n]))
           /\ ToSet(Tail(victimList[d][n])) = ToSet(victimList[d][n]) \ {b}
<1>1. /\ phase = "find" /\ MustCollect(d) /\ VictimCounts(d) # {}
      /\ \A n \in 1..PagesPerBlock : n = FullestList(d) =>
           /\ victim' = Head(victimList[d][n])
           /\ victimList' = [victimList EXCEPT ![d][n] = Tail(victimList[d][n])]
  BY DEF GarbageCollection
<1>2. PICK n \in 1..PagesPerBlock : n = FullestList(d) /\ victimList[d][n] # <<>>
  BY <1>1, FullestIsThere DEF VictimCounts
<1> DEFINE s == victimList[d][n]
           b == Head(s)
<1>3. victim' = b /\ victimList' = [victimList EXCEPT ![d][n] = Tail(victimList[d][n])]
  BY <1>1, <1>2
<1>4. s \in Seq(Block) /\ NoDup(s) /\ \A c \in ToSet(s) \cap Block : invalidSliceCnt[d][c] = n
  <2>1. n \in 0..PagesPerBlock
    BY Sizes
  <2>2. s \in Seq(Block)
    <3>1. victimList[d] \in [0..PagesPerBlock -> Seq(Block)]
      BY DEF IInv, TypeOK
    <3> QED BY <2>1, <3>1
  <2>3. NoDup(s) /\ \A c \in Block : c \in ToSet(s) => invalidSliceCnt[d][c] = n
    BY ListsMeaning DEF IInv
  <2> QED BY <2>2, <2>3
<1>5. /\ Tail(s) \in Seq(Block) /\ b \in Block /\ b \in ToSet(s)
      /\ NoDup(Tail(s)) /\ ToSet(Tail(s)) = ToSet(s) \ {b}
  <2>1. s # <<>>
    BY <1>2
  <2> HIDE DEF s
  <2> QED BY <1>4, <2>1, TailQueue
<1>6. invalidSliceCnt[d][b] = n
  BY <1>4, <1>5
<1>7. ~free[d][b]
  <2>1. invalidSliceCnt[d][b] = Cardinality(InvalidPages(d, b))
    BY <1>1, <1>5 DEF IInv, VictimListsExact, InvalidCountExact, Collecting, InvalidPages
  <2>2. pagesUsed[d][b] # 0
    <3> SUFFICES ASSUME pagesUsed[d][b] = 0 PROVE FALSE
      OBVIOUS
    <3>1. InvalidPages(d, b) = {}
      BY DEF InvalidPages, Page
    <3> HIDE DEF b
    <3>2. Cardinality(InvalidPages(d, b)) = 0
      BY <3>1, PagesFinite
    <3> QED BY <1>6, <2>1, <3>2
  <2> QED BY <1>5, <2>2 DEF IInv, FreeBlocksUnused
<1>8. OpenBlockFull(d) /\ Len(freeList[d]) = ReservedFreeBlocks
  <2>1. Len(freeList[d]) >= ReservedFreeBlocks
    BY <1>1 DEF IInv, ReserveKept
  <2>2. Len(freeList[d]) \in Nat
    BY DEF IInv, TypeOK
  <2> QED BY <1>1, <2>1, <2>2, Sizes DEF MustCollect, NormalBlockAvailable
<1>9. pagesUsed[d][b] = PagesPerBlock
  BY <1>5, <1>7, <1>8 DEF IInv, OtherBlocksFull, OpenBlockFull
<1>10. n = PagesPerBlock => b # currentBlock[d]
  <2>1. ~OpenBlockIsVictim(d)
    BY <1>1 DEF IInv, FoundAsWorked, Workload
  <2> QED BY <1>1, <1>2, <2>1 DEF OpenBlockIsVictim
<1> HIDE DEF b
<1> QED BY <1>3, <1>5, <1>6, <1>7, <1>8, <1>9, <1>10

\* A victim is taken from the list of the most invalid pages.
LEMMA GarbageCollectionStep ==
  ASSUME IInv, ~OpenVictim, GarbageCollection
  PROVE  IInv'
<1>1. PICK d \in Die : d = targetDie
  BY DEF IInv, TypeOK
<1>2. PICK n \in 1..PagesPerBlock, b \in Block :
           /\ victim' = b /\ invalidSliceCnt[d][b] = n
           /\ n = PagesPerBlock => b # currentBlock[d]
           /\ ~free[d][b] /\ pagesUsed[d][b] = PagesPerBlock
           /\ OpenBlockFull(d) /\ Len(freeList[d]) = ReservedFreeBlocks
           /\ victimList' = [victimList EXCEPT ![d][n] = Tail(victimList[d][n])]
           /\ Tail(victimList[d][n]) \in Seq(Block) /\ NoDup(Tail(victimList[d][n]))
           /\ ToSet(Tail(victimList[d][n])) = ToSet(victimList[d][n]) \ {b}
  BY <1>1, VictimTaken
<1>3. /\ phase = "find"
      /\ UNCHANGED <<logicalSlice, virtualSlice, free, invalidSliceCnt, pagesUsed, freeList,
                     currentBlock, targetDie, lsa>>
      /\ IF n # PagesPerBlock THEN phase' = "copy" /\ gcPage' = 0
         ELSE phase' = "erase" /\ UNCHANGED gcPage
  BY <1>1, <1>2 DEF GarbageCollection, maps, blocks
<1>4. \A e \in Die, c \in Block : ~Collecting(e, c) /\ (Collecting(e, c)' <=> e = d /\ c = b)
  BY <1>1, <1>2, <1>3 DEF Collecting
<1>5. \A e \in Die, c \in Block : InvalidPages(e, c)' = InvalidPages(e, c)
  BY <1>3 DEF InvalidPages, ValidPage
<1>6. n = Cardinality(InvalidPages(d, b))
  <2>1. ~Collecting(d, b)
    BY <1>4
  <2> QED BY <1>2, <2>1 DEF IInv, VictimListsExact, InvalidCountExact, InvalidPages
<1>7. \A p \in Page : ValidPage(<<d, b, p>>) <=> p \notin InvalidPages(d, b)
  <2>1. \A p \in Page : p < PagesPerBlock
    BY Sizes DEF Page
  <2> QED BY <1>2, <2>1 DEF InvalidPages
<1>8. /\ \E p \in Page : ~ValidPage(<<d, b, p>>)
      /\ n # PagesPerBlock => \E p \in Page : ValidPage(<<d, b, p>>)
      /\ n = PagesPerBlock => \A p \in Page : ~ValidPage(<<d, b, p>>)
  <2> DEFINE S == InvalidPages(d, b)
  <2>1. S \in SUBSET Page
    BY DEF InvalidPages
  <2> HIDE DEF S
  <2>2. /\ S = {} <=> Cardinality(S) = 0
        /\ Cardinality(S) = PagesPerBlock => S = Page
    BY <2>1, PagesFinite
  <2>3. Cardinality(Page) = PagesPerBlock
    <3>1. 0 \in Int /\ PagesPerBlock - 1 \in Int /\ ~(0 > PagesPerBlock - 1)
          /\ (PagesPerBlock - 1) - 0 + 1 = PagesPerBlock
      BY Sizes
    <3> QED BY <3>1, FS_Interval DEF Page
  <2>4. n = Cardinality(S) /\ \A p \in Page : ValidPage(<<d, b, p>>) <=> p \notin S
    BY <1>6, <1>7 DEF S
  <2>5. S # {} /\ (n # PagesPerBlock => S # Page) /\ (n = PagesPerBlock => S = Page)
    BY <2>2, <2>3, <2>4
  <2> QED BY <2>1, <2>4, <2>5
<1>9. TypeOK'
  <2>1. n \in 0..PagesPerBlock
    OBVIOUS
  <2>2. victimList' \in [Die -> [0..PagesPerBlock -> Seq(Block)]]
    BY <1>2, <2>1 DEF IInv, TypeOK
  <2>3. gcPage' \in Page
    BY <1>3, Sizes DEF IInv, TypeOK
  <2> QED BY <1>2, <1>3, <2>2, <2>3 DEF IInv, TypeOK, Phase
<1>10. WriteAtHand' /\ MapsAgree' /\ GivenRecorded' /\ FreeBlocksUnused' /\ OtherBlocksFull'
  BY <1>3 DEF IInv, WriteAtHand, MapsAgree, GivenRecorded, FreeBlocksUnused, OtherBlocksFull
<1>11. VictimListsExact'
  <2>1. InvalidCountExact'
    <3>1. \A e \in Die, c \in Block : invalidSliceCnt[e][c] = Cardinality(InvalidPages(e, c))
      BY <1>4 DEF IInv, VictimListsExact, InvalidCountExact, InvalidPages
    <3>2. \A e \in Die, c \in Block : invalidSliceCnt'[e][c] = Cardinality(InvalidPages(e, c))'
      BY <1>3, <1>5, <3>1
    <3> QED BY <3>2 DEF InvalidCountExact, InvalidPages
  <2>2. ASSUME NEW e \in Die, NEW m \in 1..PagesPerBlock
        PROVE  /\ NoDup(victimList'[e][m])
               /\ \A c \in Block : c \in ToSet(victimList'[e][m]) <=>
                    invalidSliceCnt[e][c] = m /\ ~(e = d /\ c = b)
    <3>1. /\ NoDup(victimList[e][m])
          /\ \A c \in Block : c \in ToSet(victimList[e][m]) <=> invalidSliceCnt[e][c] = m
      BY <1>4, ListsMeaning DEF IInv
    <3>2. victimList \in [Die -> [0..PagesPerBlock -> Seq(Block)]]
      BY DEF IInv, TypeOK
    <3>3. m \in 0..PagesPerBlock /\ n \in 0..PagesPerBlock
      OBVIOUS
    <3>4. CASE e = d /\ m = n
      <4>1. victimList'[e][m] = Tail(victimList[d][n])
        BY <1>2, <3>2, <3>3, <3>4
      <4> QED BY <1>2, <3>1, <3>4, <4>1
    <3>5. CASE ~(e = d /\ m = n)
      <4>1. victimList'[e][m] = victimList[e][m]
        BY <1>2, <3>2, <3>3, <3>5
      <4> QED BY <1>2, <3>1, <3>5, <4>1
    <3> QED BY <3>4, <3>5
  <2>3. ASSUME NEW e \in Die, NEW m \in 1..PagesPerBlock
        PROVE  /\ \A c \in Block : c \in ToSet(victimList'[e][m]) <=>
                    invalidSliceCnt'[e][c] = m /\ ~Collecting(e, c)'
               /\ \A i, j \in 1..Len(victimList'[e][m]) :
                    victimList'[e][m][i] = victimList'[e][m][j] => i = j
    BY <1>3, <1>4, <2>2 DEF NoDup
  <2> QED BY <2>1, <2>3 DEF VictimListsExact
<1>12. FoundAsWorked'
  BY <1>3 DEF FoundAsWorked
<1>13. VictimKept'
  <2>1. \A p \in Page : ValidPage(<<d, b, p>>)' <=> ValidPage(<<d, b, p>>)
    BY <1>3 DEF ValidPage
  <2>2. CASE n # PagesPerBlock
    <3>1. \A p \in Page : 0 <= p /\ ~(p < 0)
      BY DEF Page
    <3> QED BY <1>1, <1>2, <1>3, <1>8, <2>1, <2>2, <3>1 DEF VictimKept
  <2>3. CASE n = PagesPerBlock
    BY <1>1, <1>2, <1>3, <1>8, <2>1, <2>3 DEF VictimKept
  <2> QED BY <2>2, <2>3
<1>14. ReserveKept'
  <2>1. OpenBlockFull(d)' /\ (\A e \in Die : OpenBlockFull(e)' <=> OpenBlockFull(e))
    BY <1>2, <1>3 DEF OpenBlockFull
  <2>2. \A e \in Die : Len(freeList'[e]) >= ReservedFreeBlocks
    BY <1>3 DEF IInv, ReserveKept
  <2>3. \A e \in Die :
          IF phase' \in {"copy", "erase"} /\ e = targetDie'
          THEN Len(freeList'[e]) = IF OpenBlockFull(e)' THEN ReservedFreeBlocks ELSE ReservedFreeBlocks - 1
          ELSE Len(freeList'[e]) >= ReservedFreeBlocks
    BY <1>1, <1>2, <1>3, <2>1, <2>2
  <2>4. phase' = "copy" => Copied' = gcPage' /\ \E p \in Page : gcPage' <= p /\ ~ValidPage(<<targetDie, victim, p>>)'
    <3>1. \A p \in Page : ValidPage(<<targetDie, victim, p>>)' <=> ValidPage(<<d, b, p>>)
      BY <1>1, <1>2, <1>3 DEF ValidPage
    <3>2. \A p \in Page : 0 <= p
      BY DEF Page
    <3>3. Copied' = 0
      BY <1>1, <1>3, <2>1 DEF Copied
    <3> QED BY <1>3, <1>8, <3>1, <3>2, <3>3
  <2> QED BY <1>3, <2>3, <2>4 DEF ReserveKept
<1> QED BY <1>9, <1>10, <1>11, <1>12, <1>13, <1>14 DEF IInv

-----------------------------------------------------------------------------
(* Garbage collection looks at a page of the victim.                       *)

\* Where a valid page is copied to, and what that takes from the free list.
CopyTo(l, d, b, q) ==
  /\ logicalSlice[l] = <<d, victim, gcPage>>
  /\ b # victim /\ q = pagesUsed[d][b] /\ q = Copied /\ q + 1 < PagesPerBlock
  /\ q <= gcPage
  /\ q = gcPage => \E p \in Page : gcPage + 1 <= p /\ ~ValidPage(<<d, victim, p>>)
  /\ b # currentBlock[d] => pagesUsed[d][currentBlock[d]] = PagesPerBlock
  /\ Placed(l, d, b)
  /\ currentBlock' = [currentBlock EXCEPT ![d] = b]
  /\ free' = [free EXCEPT ![d][b] = FALSE]
  /\ freeList' \in [Die -> Seq(Block)]
  /\ \A e \in Die : e # d => freeList'[e] = freeList[e]
  /\ NoDup(freeList'[d]) /\ ToSet(freeList'[d]) = ToSet(freeList[d]) \ {b}
  /\ Len(freeList'[d]) = ReservedFreeBlocks - 1
  /\ UNCHANGED <<invalidSliceCnt, victimList>>

\* The page a valid page of the victim is copied to.
LEMMA CopyTarget ==
  ASSUME IInv, CopyPage, NEW d \in Die, d = targetDie, ValidPage(<<d, victim, gcPage>>)
  PROVE  \E l \in Lsa, b \in Block, q \in Page : CopyTo(l, d, b, q)
<1> DEFINE v == <<d, victim, gcPage>>
           opens == victim = currentBlock[d] \/ OpenBlockFull(d)
           b == IF opens THEN Head(freeList[d]) ELSE currentBlock[d]
<1>1. phase = "copy" /\ victim \in Block /\ gcPage \in Page /\ currentBlock[d] \in Block
  BY DEF CopyPage, IInv, TypeOK
<1>2. PICK l \in Lsa : l = virtualSlice[v] /\ logicalSlice[l] = v
  <2>1. v \in Vsa
    BY <1>1, VsaParts
  <2>2. virtualSlice[v] \in Lsa \cup {NoLsa}
    BY <2>1 DEF IInv, TypeOK
  <2> QED BY <2>2 DEF ValidPage
<1>3. /\ ~free[d][victim] /\ pagesUsed[d][victim] = PagesPerBlock
      /\ Len(freeList[d]) = IF OpenBlockFull(d) THEN ReservedFreeBlocks ELSE ReservedFreeBlocks - 1
  BY <1>1 DEF IInv, VictimKept, ReserveKept
<1>4. opens <=> OpenBlockFull(d)
  BY <1>3 DEF OpenBlockFull
<1>5. /\ opens => freeList[d] # <<>>
      /\ currentBlock' = [currentBlock EXCEPT ![d] = b]
      /\ freeList' = IF opens THEN [freeList EXCEPT ![d] = Tail(freeList[d])] ELSE freeList
      /\ free' = [free EXCEPT ![d][b] = FALSE]
      /\ Placed(l, d, b)
      /\ UNCHANGED <<invalidSliceCnt, victimList>>
  BY <1>2 DEF CopyPage, Placed, OpenBlockFull
<1>6. freeList \in [Die -> Seq(Block)] /\ NoDup(freeList[d])
      /\ \A c \in Block : free[d][c] <=> c \in ToSet(freeList[d])
  BY FreeMeaning DEF IInv, TypeOK
<1>7. /\ b \in Block /\ b # victim
      /\ freeList' \in [Die -> Seq(Block)]
      /\ \A e \in Die : e # d => freeList'[e] = freeList[e]
      /\ NoDup(freeList'[d]) /\ ToSet(freeList'[d]) = ToSet(freeList[d]) \ {b}
      /\ Len(freeList'[d]) = ReservedFreeBlocks - 1
      /\ pagesUsed[d][b] = Copied
      /\ b # currentBlock[d] => pagesUsed[d][currentBlock[d]] = PagesPerBlock
  <2>1. CASE opens
    <3>1. LET c == Head(freeList[d]) IN
          /\ c \in Block /\ free[d][c] /\ pagesUsed[d][c] = 0 /\ c # currentBlock[d]
          /\ Tail(freeList[d]) \in Seq(Block) /\ NoDup(Tail(freeList[d]))
          /\ ToSet(Tail(freeList[d])) = ToSet(freeList[d]) \ {c}
          /\ Len(Tail(freeList[d])) = Len(freeList[d]) - 1
      BY <1>5, <2>1, NextFreeBlock
    <3>2. b = Head(freeList[d]) /\ freeList' = [freeList EXCEPT ![d] = Tail(freeList[d])]
      BY <1>5, <2>1
    <3>3. Copied = 0 /\ pagesUsed[d][currentBlock[d]] = PagesPerBlock
      BY <1>4, <2>1 DEF Copied, OpenBlockFull
    <3>4. Len(freeList[d]) = ReservedFreeBlocks
      BY <1>3, <1>4, <2>1
    <3> HIDE DEF opens, b
    <3> QED BY <1>3, <1>6, <3>1, <3>2, <3>3, <3>4
  <2>2. CASE ~opens
    <3>1. b = currentBlock[d] /\ freeList' = freeList /\ ~OpenBlockFull(d) /\ b # victim
      BY <1>5, <2>2
    <3>2. Copied = pagesUsed[d][b] /\ ~free[d][b]
      BY <1>1, <3>1 DEF Copied, IInv, FreeBlocksUnused
    <3> HIDE DEF opens, b
    <3> QED BY <1>1, <1>3, <1>6, <3>1, <3>2
  <2> QED BY <2>1, <2>2
<1> HIDE DEF b, opens
<1>8. PICK q \in Page :
        /\ q = Copied /\ q + 1 < PagesPerBlock /\ q <= gcPage
        /\ q = gcPage => \E p \in Page : gcPage + 1 <= p /\ ~ValidPage(<<d, victim, p>>)
  <2>1. pagesUsed[d][b] \in 0..PagesPerBlock
    BY <1>7 DEF IInv, TypeOK
  <2>2. Copied \in Nat /\ gcPage \in Nat /\ gcPage + 1 <= PagesPerBlock
    BY <1>1, <1>7, <2>1, Sizes DEF Page
  <2>3. \/ Copied < gcPage
        \/ Copied = gcPage /\ \E p \in Page : gcPage <= p /\ ~ValidPage(<<d, victim, p>>)
    BY <1>1 DEF IInv, ReserveKept
  <2>4. ASSUME Copied = gcPage, NEW p \in Page, gcPage <= p, ~ValidPage(<<d, victim, p>>)
        PROVE  gcPage + 1 <= p /\ p < PagesPerBlock
    <3>1. p # gcPage
      BY <2>4
    <3> QED BY <2>2, <2>4, <3>1, Sizes DEF Page
  <2>5. CASE Copied < gcPage
    BY <2>2, <2>5, Sizes DEF Page
  <2>6. CASE Copied = gcPage
    <3>1. PICK p \in Page : gcPage <= p /\ ~ValidPage(<<d, victim, p>>)
      BY <2>2, <2>3, <2>6
    <3>2. gcPage + 1 <= p /\ p < PagesPerBlock
      BY <2>4, <2>6, <3>1
    <3>3. Copied \in Page /\ Copied + 1 < PagesPerBlock
      BY <1>1, <2>2, <2>6, <3>2, Sizes DEF Page
    <3> QED BY <2>2, <2>6, <3>1, <3>2, <3>3
  <2> QED BY <2>3, <2>5, <2>6
<1>9. CopyTo(l, d, b, q)
  BY <1>2, <1>5, <1>7, <1>8 DEF CopyTo
<1> QED BY <1>7, <1>9

\* On to the next page, or to the erase.
LEMMA NextPage ==
  ASSUME IInv, CopyPage
  PROVE  /\ phase = "copy" /\ gcPage \in Page
         /\ phase' = "erase" <=> gcPage + 1 = PagesPerBlock
         /\ phase' = "copy" <=> gcPage + 1 < PagesPerBlock
         /\ phase' = "copy" => gcPage' = gcPage + 1
         /\ gcPage' \in Page /\ phase' \in {"copy", "erase"}
         /\ \A p \in Page : p < gcPage + 1 => p < gcPage \/ p = gcPage
         /\ \A p \in Page : phase' = "erase" => p < gcPage + 1
         /\ UNCHANGED <<targetDie, lsa, victim>>
<1>1. /\ phase = "copy"
      /\ phase' = IF gcPage + 1 = PagesPerBlock THEN "erase" ELSE "copy"
      /\ gcPage' = (gcPage + 1) % PagesPerBlock
      /\ UNCHANGED <<targetDie, lsa, victim>>
  BY DEF CopyPage
<1>2. gcPage \in 0..(PagesPerBlock - 1)
  BY DEF IInv, TypeOK, Page
<1>3. gcPage + 1 \in Nat /\ PagesPerBlock \in Nat /\ PagesPerBlock > 0
  BY <1>2, Sizes
<1> DEFINE r == (gcPage + 1) % PagesPerBlock
           t == (gcPage + 1) \div PagesPerBlock
<1>4. r \in 0..(PagesPerBlock - 1) /\ t \in Nat /\ gcPage + 1 = PagesPerBlock * t + r
  BY <1>3, Division
<1>5. gcPage + 1 < PagesPerBlock => r = gcPage + 1
  <2> SUFFICES ASSUME gcPage + 1 < PagesPerBlock PROVE r = gcPage + 1
    OBVIOUS
  <2>1. gcPage + 1 \in 0..(PagesPerBlock - 1) /\ gcPage + 1 = PagesPerBlock * 0 + (gcPage + 1)
    BY <1>2, <1>3
  <2> HIDE DEF r, t
  <2> QED BY <1>3, <1>4, <2>1, DivisionUnique
<1>6. gcPage' = r
  BY <1>1
<1> HIDE DEF r, t
<1> QED BY <1>1, <1>2, <1>3, <1>4, <1>5, <1>6 DEF Page

\* A page that is not valid is passed.
LEMMA PassPageStep ==
  ASSUME IInv, CopyPage, ~ValidPage(<<targetDie, victim, gcPage>>)
  PROVE  IInv'
<1>1. UNCHANGED <<logicalSlice, virtualSlice, free, invalidSliceCnt, pagesUsed, freeList, victimList,
                  currentBlock>>
  BY DEF CopyPage, maps, blocks, lists
<1>2. /\ phase = "copy" /\ gcPage \in Page
      /\ phase' = "erase" <=> gcPage + 1 = PagesPerBlock
      /\ phase' = "copy" <=> gcPage + 1 < PagesPerBlock
      /\ phase' = "copy" => gcPage' = gcPage + 1
      /\ gcPage' \in Page /\ phase' \in {"copy", "erase"}
      /\ \A p \in Page : p < gcPage + 1 => p < gcPage \/ p = gcPage
      /\ \A p \in Page : phase' = "erase" => p < gcPage + 1
      /\ UNCHANGED <<targetDie, lsa, victim>>
  BY NextPage
<1>3. \A p \in Page : ValidPage(<<targetDie, victim, p>>)' <=> ValidPage(<<targetDie, victim, p>>)
  BY <1>1, <1>2 DEF ValidPage
<1>4. ASSUME NEW p \in Page, gcPage <= p, p # gcPage
      PROVE  gcPage + 1 <= p /\ phase' = "copy"
  <2>1. p \in Nat /\ gcPage \in Nat /\ p < PagesPerBlock
    BY <1>2, Sizes DEF Page
  <2> QED BY <1>2, <1>4, <2>1, Sizes
<1>5. TypeOK'
  BY <1>1, <1>2 DEF IInv, TypeOK, Phase
<1>6. WriteAtHand' /\ MapsAgree' /\ GivenRecorded' /\ FreeBlocksUnused' /\ OtherBlocksFull' /\ FoundAsWorked'
  BY <1>1, <1>2 DEF IInv, WriteAtHand, MapsAgree, GivenRecorded, FreeBlocksUnused, OtherBlocksFull,
                    FoundAsWorked
<1>7. VictimListsExact'
  <2>1. \A d \in Die, b \in Block : Collecting(d, b)' <=> Collecting(d, b)
    BY <1>2 DEF Collecting
  <2>2. \A d \in Die, b \in Block : InvalidPages(d, b)' = InvalidPages(d, b)
    BY <1>1 DEF InvalidPages, ValidPage
  <2> QED BY <1>1, <2>1, <2>2, ListsKept
<1>8. VictimKept'
  <2>1. /\ ~free[targetDie][victim] /\ pagesUsed[targetDie][victim] = PagesPerBlock
        /\ victim = currentBlock[targetDie] =>
             \E p \in Page : gcPage <= p /\ ValidPage(<<targetDie, victim, p>>)
        /\ \A p \in Page : p < gcPage => ~ValidPage(<<targetDie, victim, p>>)
    BY <1>2 DEF IInv, VictimKept
  <2>2. victim = currentBlock[targetDie] =>
          /\ phase' = "copy"
          /\ \E p \in Page : gcPage' <= p /\ ValidPage(<<targetDie, victim, p>>)'
    <3> SUFFICES ASSUME victim = currentBlock[targetDie]
                 PROVE  /\ phase' = "copy"
                        /\ \E p \in Page : gcPage' <= p /\ ValidPage(<<targetDie, victim, p>>)'
      OBVIOUS
    <3>1. PICK p \in Page : gcPage <= p /\ ValidPage(<<targetDie, victim, p>>)
      BY <2>1
    <3>2. gcPage + 1 <= p /\ phase' = "copy"
      BY <1>4, <3>1
    <3> QED BY <1>2, <1>3, <3>1, <3>2
  <2>3. \A p \in Page : phase' = "erase" \/ p < gcPage' => ~ValidPage(<<targetDie, victim, p>>)'
    BY <1>2, <1>3, <2>1
  <2> QED BY <1>1, <1>2, <2>1, <2>2, <2>3 DEF VictimKept
<1>9. ReserveKept'
  <2>1. \A d \in Die : OpenBlockFull(d)' <=> OpenBlockFull(d)
    BY <1>1 DEF OpenBlockFull
  <2>2. \A d \in Die :
          IF phase' \in {"copy", "erase"} /\ d = targetDie'
          THEN Len(freeList'[d]) = IF OpenBlockFull(d)' THEN ReservedFreeBlocks ELSE ReservedFreeBlocks - 1
          ELSE Len(freeList'[d]) >= ReservedFreeBlocks
    BY <1>1, <1>2, <2>1 DEF IInv, ReserveKept
  <2>3. phase' = "copy" => Copied' < gcPage'
    <3> SUFFICES ASSUME phase' = "copy" PROVE Copied' < gcPage'
      OBVIOUS
    <3>1. Copied' = Copied
      BY <1>1, <1>2 DEF Copied, OpenBlockFull
    <3>2. Copied < gcPage \/ Copied = gcPage
      BY <1>2 DEF IInv, ReserveKept
    <3>3. Copied \in Nat /\ gcPage \in Nat
      BY <1>2 DEF Copied, Page, IInv, TypeOK
    <3> QED BY <1>2, <3>1, <3>2, <3>3
  <2> QED BY <1>2, <2>2, <2>3 DEF ReserveKept
<1> QED BY <1>2, <1>5, <1>6, <1>7, <1>8, <1>9 DEF IInv

\* A valid page is copied.
LEMMA MovePageStep ==
  ASSUME IInv, CopyPage, ValidPage(<<targetDie, victim, gcPage>>)
  PROVE  IInv'
<1>1. PICK d \in Die : d = targetDie
  BY DEF IInv, TypeOK
<1>2. PICK l \in Lsa, b \in Block, q \in Page : CopyTo(l, d, b, q)
  BY <1>1, CopyTarget
<1>3. /\ phase = "copy" /\ gcPage \in Page
      /\ phase' = "erase" <=> gcPage + 1 = PagesPerBlock
      /\ phase' = "copy" <=> gcPage + 1 < PagesPerBlock
      /\ phase' = "copy" => gcPage' = gcPage + 1
      /\ gcPage' \in Page /\ phase' \in {"copy", "erase"}
      /\ \A p \in Page : p < gcPage + 1 => p < gcPage \/ p = gcPage
      /\ \A p \in Page : phase' = "erase" => p < gcPage + 1
      /\ UNCHANGED <<targetDie, lsa, victim>>
  BY NextPage
<1>4. /\ logicalSlice[l] = <<d, victim, gcPage>> /\ b # victim /\ q = pagesUsed[d][b]
      /\ Placed(l, d, b)
      /\ currentBlock' = [currentBlock EXCEPT ![d] = b]
      /\ free' = [free EXCEPT ![d][b] = FALSE]
      /\ freeList' \in [Die -> Seq(Block)]
      /\ UNCHANGED <<invalidSliceCnt, victimList>>
  BY <1>2 DEF CopyTo
<1>5. /\ ~free[d][victim] /\ pagesUsed[d][victim] = PagesPerBlock
      /\ \A p \in Page : p < gcPage => ~ValidPage(<<d, victim, p>>)
      /\ victim \in Block
  BY <1>1, <1>3 DEF IInv, VictimKept, TypeOK
<1>6. PlacedEffect(l, d, b, q)
  BY <1>4, PlacedMaps
<1>7. \A e \in Die, c \in Block :
        /\ pagesUsed'[e][c] = IF e = d /\ c = b THEN q + 1 ELSE pagesUsed[e][c]
        /\ free'[e][c] <=> free[e][c] /\ ~(e = d /\ c = b)
  <2>1. free \in [Die -> [Block -> BOOLEAN]]
    BY DEF IInv, TypeOK
  <2> QED BY <1>4, <1>6, <2>1 DEF PlacedEffect
<1>8. \A e \in Die : currentBlock'[e] = IF e = d THEN b ELSE currentBlock[e]
  BY <1>4 DEF IInv, TypeOK
<1>9. \A p \in Page : ValidPage(<<d, victim, p>>)' <=> ValidPage(<<d, victim, p>>) /\ p # gcPage
  <2>1. \A u \in Vsa : ValidPage(u)' <=> u = <<d, b, q>> \/ (ValidPage(u) /\ u # logicalSlice[l])
    <3>1. q = pagesUsed[d][b] /\ Placed(l, d, b)
      BY <1>4
    <3> QED BY <3>1, PlacedValid
  <2> TAKE p \in Page
  <2>2. <<d, victim, p>> \in Vsa /\ <<d, victim, p>> # <<d, b, q>>
        /\ (<<d, victim, p>> = logicalSlice[l] <=> p = gcPage)
    BY <1>4, <1>5, VsaParts
  <2>3. ValidPage(<<d, victim, p>>)' <=>
          <<d, victim, p>> = <<d, b, q>> \/ (ValidPage(<<d, victim, p>>) /\ <<d, victim, p>> # logicalSlice[l])
    <3>1. PICK u \in Vsa : u = <<d, victim, p>>
      BY <2>2
    <3>2. ValidPage(<<d, victim, p>>)' <=> ValidPage(u)'
      BY <1>3, <3>1 DEF ValidPage
    <3> QED BY <2>1, <3>1, <3>2
  <2> QED BY <2>2, <2>3
<1>10. TypeOK'
  <2>1. /\ logicalSlice' \in [Lsa -> Vsa \cup {NoVsa}] /\ virtualSlice' \in [Vsa -> Lsa \cup {NoLsa}]
        /\ pagesUsed' \in [Die -> [Block -> 0..PagesPerBlock]]
    BY <1>6 DEF PlacedEffect
  <2>2. currentBlock' \in [Die -> Block] /\ free' \in [Die -> [Block -> BOOLEAN]]
    BY <1>4 DEF IInv, TypeOK
  <2> QED BY <1>3, <1>4, <2>1, <2>2 DEF IInv, TypeOK, Phase
<1>11. WriteAtHand'
  <2>1. lsa \in Lsa /\ logicalSlice[lsa] = NoVsa /\ lsa # NoLsa
    BY <1>3 DEF IInv, WriteAtHand, TypeOK
  <2>2. lsa # l
    <3>1. logicalSlice[l] \in Vsa
      BY <1>3, <1>4, <1>5, VsaParts
    <3> QED BY <2>1, <3>1, NoneAssumption
  <2>3. logicalSlice'[lsa] = NoVsa
    BY <1>6, <2>1, <2>2 DEF PlacedEffect
  <2> QED BY <1>3, <2>1, <2>3 DEF WriteAtHand
<1>12. MapsAgree' /\ GivenRecorded'
  BY <1>4, <1>7, PlacedAgrees
<1>13. FreeBlocksUnused'
  <2>1. ASSUME NEW e \in Die
        PROVE  /\ NoDup(freeList'[e])
               /\ \A c \in Block : free'[e][c] <=> c \in ToSet(freeList'[e])
               /\ \A c \in Block : free'[e][c] => pagesUsed'[e][c] = 0 /\ c # currentBlock'[e]
    <3>1. /\ NoDup(freeList[e])
          /\ \A c \in Block : free[e][c] <=> c \in ToSet(freeList[e])
          /\ \A c \in Block : free[e][c] => pagesUsed[e][c] = 0 /\ c # currentBlock[e]
      BY FreeMeaning DEF IInv
    <3>2. CASE e = d
      <4>1. NoDup(freeList'[d]) /\ ToSet(freeList'[d]) = ToSet(freeList[d]) \ {b}
        BY <1>2 DEF CopyTo
      <4> QED BY <1>7, <1>8, <3>1, <3>2, <4>1
    <3>3. CASE e # d
      <4>1. freeList'[e] = freeList[e]
        BY <1>2, <3>3 DEF CopyTo
      <4> QED BY <1>7, <1>8, <3>1, <3>3, <4>1
    <3> QED BY <3>2, <3>3
  <2> QED BY <2>1 DEF FreeBlocksUnused, NoDup
<1>14. OtherBlocksFull'
  <2>1. b # currentBlock[d] => pagesUsed[d][currentBlock[d]] = PagesPerBlock
    BY <1>2 DEF CopyTo
  <2>2. ASSUME NEW e \in Die, NEW c \in Block, ~free'[e][c], c # currentBlock'[e]
        PROVE  pagesUsed'[e][c] = PagesPerBlock
    <3>1. ~(e = d /\ c = b) /\ ~free[e][c] /\ pagesUsed'[e][c] = pagesUsed[e][c]
      BY <1>7, <1>8, <2>2
    <3>2. CASE c = currentBlock[e]
      <4>1. e = d /\ b # currentBlock[d]
        BY <1>8, <2>2, <3>1, <3>2
      <4> QED BY <2>1, <3>1, <3>2, <4>1
    <3>3. CASE c # currentBlock[e]
      BY <3>1, <3>3 DEF IInv, OtherBlocksFull
    <3> QED BY <3>2, <3>3
  <2> QED BY <2>2 DEF OtherBlocksFull
<1>15. VictimListsExact'
  <2>1. \A e \in Die, c \in Block : Collecting(e, c)' <=> Collecting(e, c)
    BY <1>3 DEF Collecting
  <2>2. ASSUME NEW e \in Die, NEW c \in Block, ~Collecting(e, c)
        PROVE  InvalidPages(e, c)' = InvalidPages(e, c)
    <3>1. \A p \in Page : logicalSlice[l] # <<e, c, p>>
      BY <1>1, <1>3, <1>4, <2>2 DEF Collecting
    <3> QED BY <1>4, <3>1, PlacedValid
  <2> QED BY <1>4, <2>1, <2>2, ListsKept
<1>16. FoundAsWorked'
  BY <1>3 DEF FoundAsWorked
<1>17. VictimKept'
  <2>1. ~free'[d][victim] /\ pagesUsed'[d][victim] = PagesPerBlock /\ victim # currentBlock'[d]
    BY <1>4, <1>5, <1>7, <1>8
  <2>2. \A p \in Page : phase' = "erase" \/ p < gcPage' => ~ValidPage(<<d, victim, p>>)'
    BY <1>3, <1>5, <1>9
  <2> QED BY <1>1, <1>3, <2>1, <2>2 DEF VictimKept
<1>18. ReserveKept'
  <2>1. /\ q + 1 < PagesPerBlock /\ q <= gcPage /\ Len(freeList'[d]) = ReservedFreeBlocks - 1
        /\ q = gcPage => \E p \in Page : gcPage + 1 <= p /\ ~ValidPage(<<d, victim, p>>)
        /\ \A e \in Die : e # d => freeList'[e] = freeList[e]
    BY <1>2 DEF CopyTo
  <2>2. q \in Nat /\ gcPage \in Nat
    BY <1>3 DEF Page
  <2>3. ~OpenBlockFull(d)'
    <3>1. currentBlock'[d] = b /\ pagesUsed'[d][b] = q + 1
      BY <1>7, <1>8
    <3>2. q + 1 # PagesPerBlock
      BY <2>1, <2>2, Sizes
    <3> QED BY <3>1, <3>2 DEF OpenBlockFull
  <2>4. \A e \in Die :
          IF phase' \in {"copy", "erase"} /\ e = targetDie'
          THEN Len(freeList'[e]) = IF OpenBlockFull(e)' THEN ReservedFreeBlocks ELSE ReservedFreeBlocks - 1
          ELSE Len(freeList'[e]) >= ReservedFreeBlocks
    <3>1. \A e \in Die : e # d => Len(freeList'[e]) >= ReservedFreeBlocks
      BY <1>1, <2>1 DEF IInv, ReserveKept
    <3> QED BY <1>1, <1>3, <2>1, <2>3, <3>1
  <2>5. Copied' = q + 1
    <3>1. currentBlock'[d] = b /\ pagesUsed'[d][b] = q + 1
      BY <1>7, <1>8
    <3>2. targetDie' = d /\ ~OpenBlockFull(targetDie)'
      BY <1>1, <1>3, <2>3 DEF OpenBlockFull
    <3> QED BY <3>1, <3>2 DEF Copied
  <2>6. phase' = "copy" =>
          \/ Copied' < gcPage'
          \/ Copied' = gcPage' /\ \E p \in Page : gcPage' <= p /\ ~ValidPage(<<targetDie, victim, p>>)'
    <3> SUFFICES ASSUME phase' = "copy"
                 PROVE  \/ Copied' < gcPage'
                        \/ /\ Copied' = gcPage'
                           /\ \E p \in Page : gcPage' <= p /\ ~ValidPage(<<targetDie, victim, p>>)'
      OBVIOUS
    <3>1. gcPage' = gcPage + 1
      BY <1>3
    <3>2. \A p \in Page : ValidPage(<<targetDie, victim, p>>)' <=> ValidPage(<<d, victim, p>>)'
      BY <1>1, <1>3 DEF ValidPage
    <3>3. CASE q = gcPage
      BY <1>9, <2>1, <2>5, <3>1, <3>2, <3>3
    <3>4. CASE q # gcPage
      BY <2>1, <2>2, <2>5, <3>1, <3>4
    <3> QED BY <3>3, <3>4
  <2> QED BY <1>3, <2>4, <2>6 DEF ReserveKept
<1> QED BY <1>10, <1>11, <1>12, <1>13, <1>14, <1>15, <1>16, <1>17, <1>18 DEF IInv

-----------------------------------------------------------------------------
(* The victim is erased.                                                   *)

\* No slice has its place in a victim that is erased.
LEMMA VictimEmpty ==
  ASSUME IInv, EraseBlock, NEW l \in Lsa, logicalSlice[l] # NoVsa
  PROVE  LET v == logicalSlice[l] IN
         v \in Vsa /\ virtualSlice[v] = l /\ ~(v[1] = targetDie /\ v[2] = victim)
<1>1. PICK v \in Vsa : v = logicalSlice[l]
  BY DEF IInv, TypeOK
<1>2. virtualSlice[v] = l
  BY <1>1 DEF IInv, MapsAgree
<1>3. v[3] \in Page /\ v = <<v[1], v[2], v[3]>>
  BY VsaParts
<1>4. ValidPage(v)
  BY <1>1, <1>2, NoneAssumption DEF ValidPage
<1>5. \A p \in Page : ~ValidPage(<<targetDie, victim, p>>)
  BY DEF EraseBlock, IInv, VictimKept
<1>6. ~(v[1] = targetDie /\ v[2] = victim)
  BY <1>3, <1>4, <1>5
<1> QED BY <1>1, <1>2, <1>6

\* The victim, none of whose pages is valid, becomes free.
LEMMA EraseBlockStep ==
  ASSUME IInv, EraseBlock
  PROVE  IInv'
<1>1. PICK d \in Die, b \in Block : d = targetDie /\ b = victim
  BY DEF IInv, TypeOK
<1>2. /\ phase = "erase" /\ phase' = "collected"
      /\ free' = [free EXCEPT ![d][b] = TRUE]
      /\ invalidSliceCnt' = [invalidSliceCnt EXCEPT ![d][b] = 0]
      /\ pagesUsed' = [pagesUsed EXCEPT ![d][b] = 0]
      /\ freeList' = [freeList EXCEPT ![d] = Append(freeList[d], b)]
      /\ virtualSlice' = [v \in Vsa |-> IF v[1] = d /\ v[2] = b THEN NoLsa ELSE virtualSlice[v]]
      /\ UNCHANGED <<logicalSlice, victimList, currentBlock, targetDie, lsa, victim, gcPage>>
  BY <1>1 DEF EraseBlock, gcVars
<1>3. \A e \in Die, c \in Block :
        /\ free'[e][c] <=> free[e][c] \/ (e = d /\ c = b)
        /\ invalidSliceCnt'[e][c] = IF e = d /\ c = b THEN 0 ELSE invalidSliceCnt[e][c]
        /\ pagesUsed'[e][c] = IF e = d /\ c = b THEN 0 ELSE pagesUsed[e][c]
  BY <1>2 DEF IInv, TypeOK
<1>4. \A u \in Vsa : virtualSlice'[u] = IF u[1] = d /\ u[2] = b THEN NoLsa ELSE virtualSlice[u]
  BY <1>2
<1>5. ~free[d][b] /\ pagesUsed[d][b] = PagesPerBlock /\ b # currentBlock[d]
  BY <1>1, <1>2 DEF IInv, VictimKept
<1>6. /\ Append(freeList[d], b) \in Seq(Block) /\ NoDup(Append(freeList[d], b))
      /\ ToSet(Append(freeList[d], b)) = ToSet(freeList[d]) \cup {b}
      /\ Len(Append(freeList[d], b)) = Len(freeList[d]) + 1
  <2> DEFINE s == freeList[d]
  <2>1. s \in Seq(Block) /\ NoDup(s) /\ b \notin ToSet(s)
    BY <1>5, FreeMeaning DEF IInv, TypeOK
  <2> HIDE DEF s
  <2>2. /\ Append(s, b) \in Seq(Block) /\ NoDup(Append(s, b)) /\ ToSet(Append(s, b)) = ToSet(s) \cup {b}
    BY <2>1, AppendQueue
  <2>3. Len(Append(s, b)) = Len(s) + 1
    BY <2>1
  <2> QED BY <2>2, <2>3 DEF s
<1>7. \A e \in Die : freeList'[e] = IF e = d THEN Append(freeList[d], b) ELSE freeList[e]
  BY <1>2 DEF IInv, TypeOK
<1>8. TypeOK'
  <2>1. /\ free' \in [Die -> [Block -> BOOLEAN]]
        /\ invalidSliceCnt' \in [Die -> [Block -> 0..PagesPerBlock]]
        /\ pagesUsed' \in [Die -> [Block -> 0..PagesPerBlock]]
    <3>1. /\ free \in [Die -> [Block -> BOOLEAN]]
          /\ invalidSliceCnt \in [Die -> [Block -> 0..PagesPerBlock]]
          /\ pagesUsed \in [Die -> [Block -> 0..PagesPerBlock]]
      BY DEF IInv, TypeOK
    <3>2. 0 \in 0..PagesPerBlock
      BY Sizes
    <3>3. free' \in [Die -> [Block -> BOOLEAN]]
      BY <1>2, <3>1
    <3>4. invalidSliceCnt' \in [Die -> [Block -> 0..PagesPerBlock]]
      BY <1>2, <3>1, <3>2
    <3>5. pagesUsed' \in [Die -> [Block -> 0..PagesPerBlock]]
      BY <1>2, <3>1, <3>2
    <3> QED BY <3>3, <3>4, <3>5
  <2>2. freeList' \in [Die -> Seq(Block)]
    BY <1>2, <1>6 DEF IInv, TypeOK
  <2>3. virtualSlice' \in [Vsa -> Lsa \cup {NoLsa}]
    BY <1>2 DEF IInv, TypeOK
  <2> QED BY <1>2, <2>1, <2>2, <2>3 DEF IInv, TypeOK, Phase
<1>9. WriteAtHand'
  BY <1>2 DEF IInv, WriteAtHand
<1>10. \A l \in Lsa : logicalSlice[l] # NoVsa =>
         LET v == logicalSlice[l] IN
         v \in Vsa /\ virtualSlice[v] = l /\ ~(v[1] = d /\ v[2] = b)
  BY <1>1, VictimEmpty
<1>11. MapsAgree'
  <2> SUFFICES ASSUME NEW l \in Lsa, logicalSlice[l] # NoVsa
               PROVE  LET v == logicalSlice[l] IN
                      /\ virtualSlice'[v] = l /\ v[3] < pagesUsed'[v[1]][v[2]] /\ ~free'[v[1]][v[2]]
    BY <1>2 DEF MapsAgree
  <2>1. PICK v \in Vsa : v = logicalSlice[l] /\ virtualSlice[v] = l /\ ~(v[1] = d /\ v[2] = b)
    BY <1>10
  <2>2. v[1] \in Die /\ v[2] \in Block
    BY VsaParts
  <2>3. v[3] < pagesUsed[v[1]][v[2]] /\ ~free[v[1]][v[2]]
    BY <2>1 DEF IInv, MapsAgree
  <2>4. virtualSlice'[v] = l /\ v[3] < pagesUsed'[v[1]][v[2]] /\ ~free'[v[1]][v[2]]
    BY <1>3, <1>4, <2>1, <2>2, <2>3
  <2> QED BY <2>1, <2>4
<1>12. GivenRecorded'
  <2> SUFFICES ASSUME NEW u \in Vsa
               PROVE  virtualSlice'[u] # NoLsa <=> u[3] < pagesUsed'[u[1]][u[2]]
    BY DEF GivenRecorded
  <2>1. u[1] \in Die /\ u[2] \in Block /\ ~(u[3] < 0)
    BY VsaParts DEF Page
  <2>2. virtualSlice[u] # NoLsa <=> u[3] < pagesUsed[u[1]][u[2]]
    BY DEF IInv, GivenRecorded
  <2> QED BY <1>3, <1>4, <2>1, <2>2
<1>13. FreeBlocksUnused'
  <2>1. ASSUME NEW e \in Die
        PROVE  /\ NoDup(freeList'[e])
               /\ \A c \in Block : free'[e][c] <=> c \in ToSet(freeList'[e])
               /\ \A c \in Block : free'[e][c] => pagesUsed'[e][c] = 0 /\ c # currentBlock'[e]
    <3>1. /\ NoDup(freeList[e])
          /\ \A c \in Block : free[e][c] <=> c \in ToSet(freeList[e])
          /\ \A c \in Block : free[e][c] => pagesUsed[e][c] = 0 /\ c # currentBlock[e]
      BY FreeMeaning DEF IInv
    <3>2. CASE e = d
      BY <1>2, <1>3, <1>5, <1>6, <1>7, <3>1, <3>2
    <3>3. CASE e # d
      BY <1>2, <1>3, <1>7, <3>1, <3>3
    <3> QED BY <3>2, <3>3
  <2> QED BY <2>1 DEF FreeBlocksUnused, NoDup
<1>14. OtherBlocksFull'
  BY <1>2, <1>3 DEF IInv, OtherBlocksFull
<1>15. VictimListsExact'
  <2>1. \A e \in Die, c \in Block : ~Collecting(e, c)' /\ (Collecting(e, c) <=> e = d /\ c = b)
    BY <1>1, <1>2 DEF Collecting
  <2>2. ASSUME NEW e \in Die, NEW c \in Block
        PROVE  invalidSliceCnt'[e][c] = Cardinality(InvalidPages(e, c))'
    <3>1. CASE e = d /\ c = b
      <4>1. pagesUsed'[e][c] = 0 /\ invalidSliceCnt'[e][c] = 0
        BY <1>3, <3>1
      <4>2. InvalidPages(e, c)' = {}
        BY <4>1 DEF InvalidPages, Page
      <4> QED BY <4>1, <4>2, PagesFinite
    <3>2. CASE ~(e = d /\ c = b)
      <4>1. \A q \in Page : ValidPage(<<e, c, q>>)' <=> ValidPage(<<e, c, q>>)
        <5> TAKE q \in Page
        <5>1. <<e, c, q>> \in Vsa /\ <<e, c, q>>[1] = e /\ <<e, c, q>>[2] = c
          BY VsaParts
        <5>2. virtualSlice'[<<e, c, q>>] = virtualSlice[<<e, c, q>>]
          BY <1>4, <3>2, <5>1
        <5> QED BY <1>2, <5>2 DEF ValidPage
      <4>2. InvalidPages(e, c)' = InvalidPages(e, c)
        BY <1>3, <3>2, <4>1 DEF InvalidPages
      <4>3. invalidSliceCnt[e][c] = Cardinality(InvalidPages(e, c))
        BY <2>1, <3>2 DEF IInv, VictimListsExact, InvalidCountExact, InvalidPages
      <4>4. invalidSliceCnt'[e][c] = invalidSliceCnt[e][c]
        BY <1>3, <3>2
      <4> QED BY <4>2, <4>3, <4>4
    <3> QED BY <3>1, <3>2
  <2>3. InvalidCountExact'
    BY <2>2 DEF InvalidCountExact, InvalidPages
  <2>4. ASSUME NEW e \in Die, NEW m \in 1..PagesPerBlock
        PROVE  /\ \A c \in Block : c \in ToSet(victimList'[e][m]) <=>
                    invalidSliceCnt'[e][c] = m /\ ~Collecting(e, c)'
               /\ \A i, j \in 1..Len(victimList'[e][m]) :
                    victimList'[e][m][i] = victimList'[e][m][j] => i = j
    <3>1. /\ NoDup(victimList[e][m])
          /\ \A c \in Block : c \in ToSet(victimList[e][m]) <=>
               invalidSliceCnt[e][c] = m /\ ~(e = d /\ c = b)
      BY <2>1, ListsMeaning DEF IInv
    <3>2. m # 0
      OBVIOUS
    <3> QED BY <1>2, <1>3, <2>1, <3>1, <3>2 DEF NoDup
  <2> QED BY <2>3, <2>4 DEF VictimListsExact
<1>16. FoundAsWorked' /\ VictimKept'
  BY <1>2 DEF FoundAsWorked, VictimKept
<1>17. ReserveKept'
  <2>1. OpenBlockFull(d)' <=> OpenBlockFull(d)
    <3>1. currentBlock[d] \in Block
      BY DEF IInv, TypeOK
    <3>2. pagesUsed'[d][currentBlock[d]] = pagesUsed[d][currentBlock[d]]
      BY <1>3, <1>5, <3>1
    <3> QED BY <1>2, <3>2 DEF OpenBlockFull
  <2>2. Len(freeList[d]) = IF OpenBlockFull(d) THEN ReservedFreeBlocks ELSE ReservedFreeBlocks - 1
    BY <1>1, <1>2 DEF IInv, ReserveKept
  <2>3. Len(freeList'[d]) = IF OpenBlockFull(d) THEN ReservedFreeBlocks + 1 ELSE ReservedFreeBlocks
    <3>1. Len(freeList'[d]) = Len(freeList[d]) + 1
      BY <1>6, <1>7
    <3>2. CASE OpenBlockFull(d)
      BY <2>2, <3>1, <3>2, Sizes
    <3>3. CASE ~OpenBlockFull(d)
      BY <2>2, <3>1, <3>3, Sizes
    <3> QED BY <3>2, <3>3
  <2>4. \A e \in Die : Len(freeList'[e]) >= ReservedFreeBlocks
    <3>1. \A e \in Die : e # d => Len(freeList[e]) >= ReservedFreeBlocks
      BY <1>1 DEF IInv, ReserveKept
    <3> QED BY <1>7, <2>3, <3>1, Sizes
  <2>5. ~MustCollect(targetDie)'
    <3>1. CASE OpenBlockFull(d)
      <4>1. Len(freeList'[d]) > ReservedFreeBlocks
        BY <2>3, <3>1, Sizes
      <4> QED BY <1>1, <1>2, <4>1 DEF MustCollect, NormalBlockAvailable
    <3>2. CASE ~OpenBlockFull(d)
      BY <1>1, <1>2, <2>1, <3>2 DEF MustCollect, OpenBlockFull
    <3> QED BY <3>1, <3>2
  <2> QED BY <1>2, <2>4, <2>5 DEF ReserveKept
<1> QED BY <1>8, <1>9, <1>11, <1>12, <1>13, <1>14, <1>15, <1>16, <1>17 DEF IInv

-----------------------------------------------------------------------------
(* What holds of every behaviour.                                          *)

\* Every step keeps the invariant, if no victim is the open block.
LEMMA StepIInv ==
  ASSUME IInv, ~OpenVictim, [Next]_vars
  PROVE  IInv'
<1>1. ASSUME NEW l \in Lsa, AddrTransWrite(l), Workload'
      PROVE  IInv'
  BY <1>1, AddrTransWriteStep
<1>2. CASE OpenBlock
  BY <1>2, OpenBlockStep
<1>3. CASE GiveSlice
  BY <1>3, GiveSliceStep
<1>4. CASE GarbageCollection
  BY <1>4, GarbageCollectionStep
<1>5. CASE CopyPage
  BY <1>5, PassPageStep, MovePageStep
<1>6. CASE EraseBlock
  BY <1>6, EraseBlockStep
<1>7. CASE UNCHANGED vars
  <2>1. UNCHANGED <<logicalSlice, virtualSlice, free, invalidSliceCnt, pagesUsed, freeList, victimList,
                    currentBlock, targetDie, phase, lsa, victim, gcPage>>
    BY <1>7 DEF vars, maps, blocks, lists, gcVars
  <2>2. TypeOK' /\ WriteAtHand' /\ MapsAgree' /\ GivenRecorded' /\ FreeBlocksUnused' /\ OtherBlocksFull'
    BY <2>1 DEF IInv, TypeOK, WriteAtHand, MapsAgree, GivenRecorded, FreeBlocksUnused, OtherBlocksFull
  <2>3. VictimListsExact'
    <3>1. \A d \in Die, b \in Block : (Collecting(d, b)' <=> Collecting(d, b))
                                      /\ InvalidPages(d, b)' = InvalidPages(d, b)
      BY <2>1 DEF Collecting, InvalidPages, ValidPage
    <3> QED BY <2>1, <3>1, ListsKept
  <2>4. FoundAsWorked'
    BY <2>1 DEF IInv, FoundAsWorked, Workload, Balanced, ValidOn, OpenBlockIsVictim, MustCollect,
                VictimCounts, FullestList, OpenBlockFull, NormalBlockAvailable
  <2>5. VictimKept' /\ ReserveKept'
    BY <2>1 DEF IInv, VictimKept, ReserveKept, Copied, OpenBlockFull, MustCollect, NormalBlockAvailable,
                ValidPage
  <2> QED BY <2>2, <2>3, <2>4, <2>5 DEF IInv
<1> QED BY <1>1, <1>2, <1>3, <1>4, <1>5, <1>6, <1>7 DEF Next, Continue

\* InitAddressMap and InitGcVictimMap establish IInv, and every step keeps it,
\* as long as no write comes when the open block is the victim with nothing
\* left to move.
THEOREM IInvHolds ==
  ASSUME ~OpenVictim
  PROVE  Spec => []IInv
<1>1. Init => IInv
  BY InitIInv
<1>2. IInv /\ [Next]_vars => IInv'
  BY StepIInv
<1> QED BY <1>1, <1>2, PTL DEF Spec

\* Every address, count, page number and list keeps to its range; above all no
\* page number reaches PagesPerBlock, where it would be a page of the next block.
THEOREM TypeCorrect ==
  ASSUME ~OpenVictim
  PROVE  Spec => []TypeOK
<1>1. IInv => TypeOK
  BY DEF IInv
<1> QED BY <1>1, IInvHolds, PTL

\* The two maps agree: no two logical slices share a place, and none is on a
\* free block, through any number of collections (AddrTransWrite).
THEOREM MapsAgreeHolds ==
  ASSUME ~OpenVictim
  PROVE  Spec => []MapsAgree
<1>1. IInv => MapsAgree
  BY DEF IInv
<1> QED BY <1>1, IInvHolds, PTL

\* A block has the free bit exactly while it is in the free list, once, is not
\* open and holds nothing.
THEOREM FreeBlocksUnusedHolds ==
  ASSUME ~OpenVictim
  PROVE  Spec => []FreeBlocksUnused
<1>1. IInv => FreeBlocksUnused
  BY DEF IInv
<1> QED BY <1>1, IInvHolds, PTL

\* The counts of invalid slices are exact and each block is in the one victim
\* list of its count, so that none is lost to garbage collection.
THEOREM VictimListsExactHolds ==
  ASSUME ~OpenVictim
  PROVE  Spec => []VictimListsExact
<1>1. IInv => VictimListsExact
  BY DEF IInv
<1> QED BY <1>1, IInvHolds, PTL

\* The victim has all its pages given out, as EraseBlock passes on to the
\* request layer in programmedPageCnt.
THEOREM VictimIsFullHolds ==
  ASSUME ~OpenVictim
  PROVE  Spec => []VictimIsFull
<1>1. IInv => VictimIsFull
  BY DEF IInv, VictimKept, VictimIsFull
<1> QED BY <1>1, IInvHolds, PTL

-----------------------------------------------------------------------------
(* There is always something to collect: counting valid slices.            *)

\* The blocks of a die that are not free.
InUse(d) == {b \in Block : ~free[d][b]}

\* The blocks in use when only the reserve is free.
LEMMA InUseSize ==
  ASSUME IInv, NEW d \in Die, Len(freeList[d]) = ReservedFreeBlocks
  PROVE  IsFiniteSet(InUse(d)) /\ Cardinality(InUse(d)) = BlocksPerDie - ReservedFreeBlocks
<1> DEFINE s == freeList[d]
           F == ToSet(s)
<1>1. /\ s \in Seq(Block) /\ NoDup(s) /\ Len(s) = ReservedFreeBlocks
      /\ \A b \in Block : free[d][b] <=> b \in F
  BY FreeMeaning DEF IInv, TypeOK
<1>2. IsFiniteSet(F) /\ Cardinality(F) = ReservedFreeBlocks
  <2> HIDE DEF s
  <2>1. s \in Bijection(1..Len(s), F)
    BY <1>1 DEF NoDup, ToSet, Bijection, Injection, Surjection, IsInjective
  <2>2. 1 \in Int /\ Len(s) \in Int /\ Len(s) \in Nat
    BY <1>1, Sizes
  <2>3. IsFiniteSet(1..Len(s)) /\ Cardinality(1..Len(s)) = Len(s)
    <3>1. Cardinality(1..Len(s)) = IF 1 > Len(s) THEN 0 ELSE Len(s) - 1 + 1
      BY <2>2, FS_Interval
    <3>2. IsFiniteSet(1..Len(s))
      BY <2>2, FS_Interval
    <3> QED BY <2>2, <3>1, <3>2
  <2>4. ExistsBijection(1..Len(s), F)
    BY <2>1 DEF ExistsBijection
  <2> HIDE DEF F
  <2>5. IsFiniteSet(F) /\ Cardinality(F) = Cardinality(1..Len(s))
    BY <2>3, <2>4, FS_Bijection
  <2> QED BY <1>1, <2>3, <2>5
<1>3. F \subseteq Block
  BY <1>1 DEF ToSet
<1>4. IsFiniteSet(Block) /\ Cardinality(Block) = BlocksPerDie
  <2>1. 0 \in Int /\ BlocksPerDie - 1 \in Int /\ ~(0 > BlocksPerDie - 1)
        /\ (BlocksPerDie - 1) - 0 + 1 = BlocksPerDie
    BY Sizes
  <2> QED BY <2>1, FS_Interval DEF Block
<1>5. InUse(d) = Block \ F
  BY <1>1 DEF InUse
<1> HIDE DEF F, s
<1>6. /\ IsFiniteSet(Block \ F)
      /\ Cardinality(Block \ F) = Cardinality(Block) - Cardinality(Block \cap F)
  BY <1>4, FS_Difference
<1>7. Block \cap F = F
  BY <1>3
<1> QED BY <1>2, <1>4, <1>5, <1>6, <1>7

\* A die without invalid slices, whose open block is full, holds a valid slice
\* on each page that is not free.
LEMMA AllValid ==
  ASSUME IInv, NEW d \in Die, \A b \in Block : ~Collecting(d, b),
         OpenBlockFull(d), VictimCounts(d) = {},
         NEW b \in InUse(d), NEW p \in Page
  PROVE  ValidPage(<<d, b, p>>)
<1>1. b \in Block /\ ~free[d][b]
  BY DEF InUse
<1>2. pagesUsed[d][b] = PagesPerBlock
  BY <1>1 DEF IInv, OtherBlocksFull, OpenBlockFull
<1>3. invalidSliceCnt[d][b] \in 0..PagesPerBlock
  BY <1>1 DEF IInv, TypeOK
<1>4. invalidSliceCnt[d][b] = 0
  <2> SUFFICES ASSUME invalidSliceCnt[d][b] # 0 PROVE FALSE
    OBVIOUS
  <2>1. PICK n \in 1..PagesPerBlock : n = invalidSliceCnt[d][b]
    BY <1>3, Sizes
  <2>2. b \in ToSet(victimList[d][n])
    BY <1>1, <2>1, ListsMeaning DEF IInv
  <2>3. victimList[d][n] # <<>>
    BY <2>2 DEF ToSet
  <2> QED BY <2>3 DEF VictimCounts
<1>5. InvalidPages(d, b) = {}
  <2>1. InvalidPages(d, b) \in SUBSET Page
    BY DEF InvalidPages
  <2>2. Cardinality(InvalidPages(d, b)) = 0
    BY <1>1, <1>4 DEF IInv, VictimListsExact, InvalidCountExact, InvalidPages
  <2> QED BY <2>1, <2>2, PagesFinite
<1>6. p < PagesPerBlock
  BY Sizes DEF Page
<1> QED BY <1>2, <1>5, <1>6 DEF InvalidPages

\* A die with nothing to collect is full of valid pages.
LEMMA FullDie ==
  ASSUME IInv, NEW d \in Die, \A b \in Block : ~Collecting(d, b),
         OpenBlockFull(d), VictimCounts(d) = {}, Len(freeList[d]) = ReservedFreeBlocks
  PROVE  Cardinality(ValidOn(d)) >= (BlocksPerDie - ReservedFreeBlocks) * PagesPerBlock
<1> DEFINE S == InUse(d) \X Page
           T == ValidOn(d)
           f == [x \in S |-> virtualSlice[<<d, x[1], x[2]>>]]
<1>1. IsFiniteSet(InUse(d)) /\ Cardinality(InUse(d)) = BlocksPerDie - ReservedFreeBlocks
  BY InUseSize
<1>2. IsFiniteSet(Page) /\ Cardinality(Page) = PagesPerBlock
  <2>1. 0 \in Int /\ PagesPerBlock - 1 \in Int /\ ~(0 > PagesPerBlock - 1)
        /\ (PagesPerBlock - 1) - 0 + 1 = PagesPerBlock
    BY Sizes
  <2> QED BY <2>1, FS_Interval DEF Page
<1>3. IsFiniteSet(S) /\ Cardinality(S) = (BlocksPerDie - ReservedFreeBlocks) * PagesPerBlock
  BY <1>1, <1>2, FS_Product
<1>4. IsFiniteSet(T)
  BY NoneAssumption, FS_Subset DEF ValidOn
<1>5. ASSUME NEW x \in S
      PROVE  f[x] \in T /\ logicalSlice[f[x]] = <<d, x[1], x[2]>>
  <2>1. x[1] \in InUse(d) /\ x[2] \in Page
    OBVIOUS
  <2>2. PICK v \in Vsa : v = <<d, x[1], x[2]>>
    BY <2>1, VsaParts DEF InUse
  <2>3. ValidPage(v)
    BY <2>1, <2>2, AllValid
  <2>4. virtualSlice[v] \in Lsa /\ logicalSlice[virtualSlice[v]] = v
    BY <2>3 DEF ValidPage, IInv, TypeOK
  <2>5. v # NoVsa /\ v[1] = d
    BY <2>2, NoneAssumption
  <2>6. f[x] = virtualSlice[v]
    BY <2>2
  <2> QED BY <2>2, <2>4, <2>5, <2>6 DEF ValidOn
<1>6. f \in Injection(S, T)
  <2>1. ASSUME NEW x \in S, NEW y \in S, f[x] = f[y]
        PROVE  x = y
    <3>1. <<d, x[1], x[2]>> = <<d, y[1], y[2]>>
      BY <1>5, <2>1
    <3>2. x = <<x[1], x[2]>> /\ y = <<y[1], y[2]>>
      OBVIOUS
    <3> QED BY <3>1, <3>2
  <2>2. f \in [S -> T]
    BY <1>5
  <2> HIDE DEF S, T, f
  <2> QED BY <2>1, <2>2 DEF Injection, IsInjective
<1> HIDE DEF S, f
<1>7. Cardinality(S) <= Cardinality(T)
  <2> HIDE DEF T
  <2> QED BY <1>4, <1>6, FS_Injection
<1>8. Cardinality(T) \in Nat /\ Cardinality(S) \in Nat
  <2> HIDE DEF T
  <2> QED BY <1>3, <1>4, FS_CardinalityType
<1> QED BY <1>3, <1>7, <1>8

\* So the die a write is due on is not without a victim.
LEMMA IInvNeverAborts ==
  ASSUME IInv, ~OpenVictim, ~Skewed
  PROVE  NeverAborts
<1>1. PICK d \in Die : d = targetDie
  BY DEF IInv, TypeOK
<1>2. ~(phase = "collected" /\ MustCollect(targetDie))
  BY DEF IInv, ReserveKept
<1>3. ~(phase = "find" /\ MustCollect(d) /\ VictimCounts(d) = {})
  <2> SUFFICES ASSUME phase = "find", MustCollect(d), VictimCounts(d) = {} PROVE FALSE
    OBVIOUS
  <2>1. OpenBlockFull(d) /\ Len(freeList[d]) = ReservedFreeBlocks
    <3>1. Len(freeList[d]) >= ReservedFreeBlocks
      BY DEF IInv, ReserveKept
    <3>2. Len(freeList[d]) \in Nat
      BY DEF IInv, TypeOK
    <3> QED BY <3>1, <3>2, Sizes DEF MustCollect, NormalBlockAvailable
  <2>2. \A b \in Block : ~Collecting(d, b)
    BY DEF Collecting
  <2>3. Cardinality(ValidOn(d)) >= (BlocksPerDie - ReservedFreeBlocks) * PagesPerBlock
    BY <2>1, <2>2, FullDie
  <2>4. Cardinality(ValidOn(d)) < (BlocksPerDie - ReservedFreeBlocks) * PagesPerBlock
    BY <1>1 DEF IInv, FoundAsWorked, Workload, Balanced
  <2>5. Cardinality(ValidOn(d)) \in Nat /\ (BlocksPerDie - ReservedFreeBlocks) * PagesPerBlock \in Nat
    <3>1. IsFiniteSet(ValidOn(d))
      BY NoneAssumption, FS_Subset DEF ValidOn
    <3>2. BlocksPerDie - ReservedFreeBlocks \in Nat /\ PagesPerBlock \in Nat
      BY Sizes
    <3>3. (BlocksPerDie - ReservedFreeBlocks) * PagesPerBlock \in Nat
      <4> DEFINE m == BlocksPerDie - ReservedFreeBlocks
      <4> HIDE DEF m
      <4> QED BY <3>2 DEF m
    <3> QED BY <3>1, <3>3, FS_CardinalityType
  <2> QED BY <2>3, <2>4, <2>5
<1>4. ~(/\ phase = "copy" /\ ValidPage(<<d, victim, gcPage>>)
        /\ victim = currentBlock[d] \/ OpenBlockFull(d)
        /\ freeList[d] = <<>>)
  <2> SUFFICES ASSUME phase = "copy", victim = currentBlock[d] \/ OpenBlockFull(d), freeList[d] = <<>>
               PROVE  FALSE
    OBVIOUS
  <2>1. OpenBlockFull(d)
    BY <1>1 DEF IInv, VictimKept, OpenBlockFull
  <2>2. Len(freeList[d]) = ReservedFreeBlocks
    BY <1>1, <2>1 DEF IInv, ReserveKept
  <2>3. Len(freeList[d]) = 0
    OBVIOUS
  <2> QED BY <2>2, <2>3, Sizes
<1> QED BY <1>1, <1>2, <1>3, <1>4 DEF NeverAborts, AssertFails

\* Garbage collection never stops the program: a victim, a block to copy to and
\* a free block afterwards are always found, while the host keeps each die's
\* valid slices to all its blocks but the reserve.
THEOREM NeverAbortsHolds ==
  ASSUME ~OpenVictim, ~Skewed
  PROVE  Spec => []NeverAborts
<1>1. IInv => NeverAborts
  BY IInvNeverAborts
<1> QED BY <1>1, IInvHolds, PTL

-----------------------------------------------------------------------------
(* The pages that are given out.                                           *)

\* A host write gives one page.
LEMMA GiveSlicePlaces ==
  ASSUME IInv, GiveSlice
  PROVE  lsa \in Lsa /\ \E d \in Die, b \in Block, p \in Page : PlacedEffect(lsa, d, b, p)
<1>1. PICK d \in Die, b \in Block : d = targetDie /\ b = currentBlock[targetDie]
  BY DEF IInv, TypeOK
<1>2. PICK l \in Lsa : l = lsa
  BY NoneAssumption DEF GiveSlice, IInv, TypeOK, WriteAtHand
<1>3. PICK p \in Page : p = pagesUsed[d][b]
  <2>1. pagesUsed[d][b] # PagesPerBlock
    BY <1>1 DEF GiveSlice, OpenBlockFull, IInv, FoundAsWorked
  <2>2. pagesUsed[d][b] \in 0..PagesPerBlock
    BY DEF IInv, TypeOK
  <2> QED BY <2>1, <2>2, Sizes DEF Page
<1>4. Placed(l, d, b)
  BY <1>1, <1>2 DEF GiveSlice, Placed
<1>5. PlacedEffect(l, d, b, p)
  BY <1>3, <1>4, PlacedMaps
<1> QED BY <1>2, <1>5

\* A slice that is copied was on the page garbage collection looks at.
Moved(l, d, b, q) == logicalSlice[l] = <<d, victim, gcPage>> /\ PlacedEffect(l, d, b, q)

\* A copy gives one page, or finds the page invalid.
LEMMA CopyPagePlaces ==
  ASSUME IInv, CopyPage
  PROVE  \/ UNCHANGED <<logicalSlice, virtualSlice>>
         \/ \E l \in Lsa, d \in Die, b \in Block, q \in Page : d = targetDie /\ Moved(l, d, b, q)
<1>1. CASE ~ValidPage(<<targetDie, victim, gcPage>>)
  BY <1>1 DEF CopyPage, maps
<1>2. CASE ValidPage(<<targetDie, victim, gcPage>>)
  <2>1. PICK d \in Die : d = targetDie
    BY DEF IInv, TypeOK
  <2>2. PICK l \in Lsa, b \in Block, q \in Page : CopyTo(l, d, b, q)
    BY <1>2, <2>1, CopyTarget
  <2>3. q = pagesUsed[d][b] /\ Placed(l, d, b) /\ logicalSlice[l] = <<d, victim, gcPage>>
    BY <2>2 DEF CopyTo
  <2>4. PlacedEffect(l, d, b, q)
    BY <2>3, PlacedMaps
  <2>5. Moved(l, d, b, q)
    BY <2>3, <2>4 DEF Moved
  <2> QED BY <2>1, <2>5
<1> QED BY <1>1, <1>2

\* The step gives out no page that was given out before.
Fresh ==
  \A l \in Lsa : logicalSlice'[l] # logicalSlice[l] /\ logicalSlice'[l] # NoVsa =>
    logicalSlice'[l] \in Vsa /\ virtualSlice[logicalSlice'[l]] = NoLsa

\* The page given by a placement was not given before.
LEMMA PlacedFresh ==
  ASSUME NEW l \in Lsa, NEW d \in Die, NEW b \in Block, NEW q \in Page, PlacedEffect(l, d, b, q)
  PROVE  Fresh
BY DEF PlacedEffect, Fresh

\* No step gives a page twice.
LEMMA StepFresh ==
  ASSUME IInv, [Next]_vars
  PROVE  Fresh
<1>1. ASSUME NEW l \in Lsa, AddrTransWrite(l)
      PROVE  Fresh
  <2>1. logicalSlice' = [logicalSlice EXCEPT ![l] = NoVsa]
    BY <1>1, OldPlace
  <2>2. logicalSlice \in [Lsa -> Vsa \cup {NoVsa}]
    BY DEF IInv, TypeOK
  <2> QED BY <2>1, <2>2 DEF Fresh
<1>2. CASE OpenBlock \/ GarbageCollection \/ EraseBlock \/ UNCHANGED vars
  <2>1. UNCHANGED logicalSlice
    BY <1>2 DEF OpenBlock, GarbageCollection, EraseBlock, vars, maps
  <2> QED BY <2>1 DEF Fresh
<1>3. CASE GiveSlice
  BY <1>3, GiveSlicePlaces, PlacedFresh
<1>4. CASE CopyPage
  <2>1. CASE UNCHANGED <<logicalSlice, virtualSlice>>
    BY <2>1 DEF Fresh
  <2>2. CASE \E l \in Lsa, d \in Die, b \in Block, q \in Page : d = targetDie /\ Moved(l, d, b, q)
    BY <2>2, PlacedFresh DEF Moved
  <2> QED BY <1>4, <2>1, <2>2, CopyPagePlaces
<1> QED BY <1>1, <1>2, <1>3, <1>4 DEF Next, Continue

\* Flash is never overwritten in place: the page a write or a copy is given was
\* not given out since its block was erased (FindFreeVirtualSlice and
\* FindFreeVirtualSliceForGc).
THEOREM PageGivenOnceHolds ==
  ASSUME ~OpenVictim
  PROVE  Spec => PageGivenOnce
<1>1. IInv /\ [Next]_vars => [Fresh]_vars
  BY StepFresh
<1> QED BY <1>1, IInvHolds, PTL DEF Spec, PageGivenOnce, Fresh

-----------------------------------------------------------------------------
(* The store of slices.                                                    *)

\* The content of flash and the writes at hand are added to the maps without
\* changing what they do.
THEOREM DataSpecIsSpec == DataSpec => Spec
<1>1. DataInit => Init
  BY DEF DataInit
<1>2. [DataNext]_dataVars => [Next]_vars
  BY DEF DataNext, WriteSlice, dataVars, Next
<1> QED BY <1>1, <1>2, PTL DEF DataSpec, Spec

\* A slice has the place it had, and so its content.
LEMMA ContentStays ==
  ASSUME IInv, NEW l \in Lsa, lsa # l, lsa' # l, logicalSlice'[l] = logicalSlice[l],
         logicalSlice[l] # NoVsa => flash'[logicalSlice[l]] = flash[logicalSlice[l]]
  PROVE  Content(l)' = Content(l)
BY DEF Content

\* What a step in which AddrTransWrite goes on does to the flash.
LEMMA ExecuteMeans ==
  ASSUME IInv, Execute
  PROVE  /\ \A v \in Vsa : phase # "erase" /\ v \notin Given => flash'[v] = flash[v]
         /\ \A v \in Vsa : phase = "erase" /\ ~(v[1] = targetDie /\ v[2] = victim) /\ v \notin Given =>
              flash'[v] = flash[v]
         /\ \A v \in Given : v \in Vsa /\ phase = "copy" => flash'[v] = flash[<<targetDie, victim, gcPage>>]
         /\ \A v \in Given : v \in Vsa /\ phase \notin {"copy", "erase"} => flash'[v] = inHand
BY DEF Execute

\* A page given to slice l, and the places of the others.
LEMMA PlacedGiven ==
  ASSUME IInv, NEW l \in Lsa, NEW d \in Die, NEW b \in Block, NEW q \in Page, PlacedEffect(l, d, b, q)
  PROVE  /\ Given = {<<d, b, q>>} /\ <<d, b, q>> \in Vsa /\ logicalSlice'[l] = <<d, b, q>>
         /\ \A k \in Lsa \ {l} : /\ logicalSlice'[k] = logicalSlice[k]
                                 /\ logicalSlice[k] # NoVsa =>
                                      logicalSlice[k] \in Vsa /\ logicalSlice[k] \notin Given
<1> DEFINE w == <<d, b, q>>
<1>1. /\ w \in Vsa /\ virtualSlice[w] = NoLsa
      /\ \A k \in Lsa : logicalSlice'[k] = IF k = l THEN w ELSE logicalSlice[k]
  BY DEF PlacedEffect
<1>2. \A k \in Lsa : logicalSlice[k] # NoVsa =>
        logicalSlice[k] \in Vsa /\ virtualSlice[logicalSlice[k]] = k
  BY DEF IInv, TypeOK, MapsAgree
<1> HIDE DEF w
<1>3. \A k \in Lsa : logicalSlice[k] # w
  BY <1>1, <1>2, NoneAssumption
<1>4. logicalSlice'[l] = w /\ w # NoVsa
  BY <1>1, NoneAssumption
<1>5. Given = {w}
  BY <1>1, <1>3, <1>4 DEF Given
<1> QED BY <1>1, <1>2, <1>3, <1>4, <1>5 DEF w

\* A step that leaves the map of slices gives no page.
LEMMA NothingGiven ==
  ASSUME UNCHANGED logicalSlice
  PROVE  Given = {}
BY DEF Given

\* The step changes no content and no write at hand.
SameStore == UNCHANGED <<[l \in Lsa |-> Content(l)], lsa>>

\* Nothing to the store: contents and the write at hand are as before.
LEMMA ContentsSame ==
  ASSUME UNCHANGED lsa, \A l \in Lsa : Content(l)' = Content(l)
  PROVE  SameStore
BY DEF SameStore

\* Opening a block, choosing a victim and erasing it move no slice, and what is
\* erased is the place of none.
LEMMA NoSliceMoves ==
  ASSUME IInv, OpenBlock \/ GarbageCollection \/ EraseBlock, Execute, UNCHANGED inHand
  PROVE  SameStore
<1>1. UNCHANGED <<logicalSlice, lsa>> /\ Given = {}
  BY NothingGiven DEF OpenBlock, GarbageCollection, EraseBlock, maps
<1>2. ASSUME NEW l \in Lsa, logicalSlice[l] # NoVsa
      PROVE  flash'[logicalSlice[l]] = flash[logicalSlice[l]]
  <2>1. PICK v \in Vsa : v = logicalSlice[l]
    BY <1>2 DEF IInv, TypeOK
  <2>2. phase = "erase" => ~(v[1] = targetDie /\ v[2] = victim)
    BY <1>2, <2>1, VictimEmpty DEF OpenBlock, GarbageCollection
  <2> QED BY <1>1, <2>1, <2>2, ExecuteMeans
<1>3. ASSUME NEW l \in Lsa PROVE Content(l)' = Content(l)
  <2>1. CASE l = lsa
    BY <1>1, <2>1 DEF Content
  <2>2. CASE l # lsa
    BY <1>1, <1>2, <2>2, ContentStays
  <2> QED BY <2>1, <2>2
<1> QED BY <1>1, <1>3, ContentsSame

\* A page of the victim is passed, or copied with its content.
LEMMA CopyKeepsContent ==
  ASSUME IInv, CopyPage, Execute, UNCHANGED inHand
  PROVE  SameStore
<1>1. phase = "copy" /\ UNCHANGED lsa
  BY DEF CopyPage
<1>2. CASE UNCHANGED <<logicalSlice, virtualSlice>>
  <2>1. Given = {}
    BY <1>2, NothingGiven
  <2>2. ASSUME NEW l \in Lsa PROVE Content(l)' = Content(l)
    <3>1. CASE l = lsa
      BY <1>1, <3>1 DEF Content
    <3>2. CASE l # lsa
      <4>1. logicalSlice[l] # NoVsa => logicalSlice[l] \in Vsa
        BY DEF IInv, TypeOK
      <4> QED BY <1>1, <1>2, <2>1, <3>2, <4>1, ExecuteMeans, ContentStays
    <3> QED BY <3>1, <3>2
  <2> QED BY <1>1, <2>2, ContentsSame
<1>3. CASE \E l \in Lsa, d \in Die, b \in Block, q \in Page : d = targetDie /\ Moved(l, d, b, q)
  <2>1. PICK l \in Lsa, d \in Die, b \in Block, q \in Page : d = targetDie /\ Moved(l, d, b, q)
    BY <1>3
  <2>2. logicalSlice[l] = <<d, victim, gcPage>> /\ PlacedEffect(l, d, b, q)
    BY <2>1 DEF Moved
  <2>3. /\ Given = {<<d, b, q>>} /\ <<d, b, q>> \in Vsa /\ logicalSlice'[l] = <<d, b, q>>
        /\ \A k \in Lsa \ {l} : /\ logicalSlice'[k] = logicalSlice[k]
                                /\ logicalSlice[k] # NoVsa =>
                                     logicalSlice[k] \in Vsa /\ logicalSlice[k] \notin Given
    BY <2>2, PlacedGiven
  <2>4. lsa # l
    <3>1. logicalSlice[l] # NoVsa
      <4>1. <<d, victim, gcPage>> \in Vsa
        BY VsaParts DEF IInv, TypeOK
      <4> QED BY <2>2, <4>1, NoneAssumption
    <3> QED BY <1>1, <3>1 DEF IInv, WriteAtHand
  <2>5. Content(l)' = Content(l)
    <3>1. <<d, b, q>> # NoVsa /\ <<d, victim, gcPage>> # NoVsa
      <4>1. victim \in Block /\ gcPage \in Page
        BY DEF IInv, TypeOK
      <4>2. <<d, victim, gcPage>> \in Vsa
        BY <4>1, VsaParts
      <4> QED BY <2>3, <4>2, NoneAssumption
    <3>2. flash'[<<d, b, q>>] = flash[<<d, victim, gcPage>>]
      BY <1>1, <2>1, <2>3, ExecuteMeans
    <3> QED BY <1>1, <2>2, <2>3, <2>4, <3>1, <3>2 DEF Content
  <2>6. ASSUME NEW k \in Lsa \ {l} PROVE Content(k)' = Content(k)
    <3>1. CASE k = lsa
      BY <1>1, <3>1 DEF Content
    <3>2. CASE k # lsa
      BY <1>1, <2>3, <3>2, ExecuteMeans, ContentStays
    <3> QED BY <3>1, <3>2
  <2> QED BY <1>1, <2>5, <2>6, ContentsSame
<1> QED BY <1>2, <1>3, CopyPagePlaces

\* A write that gets its page is finished.
LEMMA GiveFinishes ==
  ASSUME IInv, GiveSlice, Execute, UNCHANGED inHand
  PROVE  Store!Finish
<1>1. /\ lsa' = NoLsa /\ phase \notin {"copy", "erase"} /\ lsa \in Lsa /\ NoLsa \notin Lsa
  BY GiveSlicePlaces, NoneAssumption DEF GiveSlice
<1>2. PICK d \in Die, b \in Block, q \in Page : PlacedEffect(lsa, d, b, q)
  BY GiveSlicePlaces
<1>3. PICK l \in Lsa : l = lsa
  BY <1>1
<1>4. PlacedEffect(l, d, b, q)
  BY <1>2, <1>3
<1>5. /\ Given = {<<d, b, q>>} /\ <<d, b, q>> \in Vsa /\ logicalSlice'[l] = <<d, b, q>>
      /\ \A k \in Lsa \ {l} : /\ logicalSlice'[k] = logicalSlice[k]
                              /\ logicalSlice[k] # NoVsa =>
                                   logicalSlice[k] \in Vsa /\ logicalSlice[k] \notin Given
  BY <1>4, PlacedGiven
<1>6. Content(l)' = Content(l)
  <2>1. flash'[<<d, b, q>>] = inHand /\ <<d, b, q>> # NoVsa
    BY <1>1, <1>5, ExecuteMeans, NoneAssumption
  <2> QED BY <1>1, <1>3, <1>5, <2>1 DEF Content
<1>7. ASSUME NEW k \in Lsa \ {l} PROVE Content(k)' = Content(k)
  BY <1>1, <1>3, <1>5, ExecuteMeans, ContentStays
<1>8. [k \in Lsa |-> Content(k)]' = [k \in Lsa |-> Content(k)]
  BY <1>6, <1>7
<1> QED BY <1>1, <1>8 DEF Store!Finish

\* A write that begins replaces the content of its slice.
LEMMA WriteReplaces ==
  ASSUME IInv, NEW l \in Lsa, NEW x \in Data, WriteSlice(l, x)
  PROVE  Store!Write(l, x)
<1>1. phase = "idle" /\ lsa' = l /\ inHand' = x /\ UNCHANGED flash /\ AddrTransWrite(l)
  BY DEF WriteSlice, AddrTransWrite
<1>2. lsa = NoLsa /\ NoLsa \notin Lsa
  BY <1>1, NoneAssumption DEF IInv, WriteAtHand
<1>3. logicalSlice' = [logicalSlice EXCEPT ![l] = NoVsa] /\ logicalSlice \in [Lsa -> Vsa \cup {NoVsa}]
  BY <1>1, OldPlace DEF IInv, TypeOK
<1>4. Content(l)' = x
  BY <1>1 DEF Content
<1>5. ASSUME NEW k \in Lsa \ {l} PROVE Content(k)' = Content(k)
  BY <1>1, <1>2, <1>3, ContentStays
<1>6. [k \in Lsa |-> Content(k)]' = [[k \in Lsa |-> Content(k)] EXCEPT ![l] = x]
  BY <1>4, <1>5
<1> QED BY <1>1, <1>2, <1>6 DEF Store!Write

\* The flash translation layer is a store of slices: a write replaces the
\* content of its slice, and no garbage collection loses, revives or mixes up
\* the content of one (AddrTransWrite and GarbageCollection).
THEOREM ImplementsSliceStoreHolds ==
  ASSUME ~OpenVictim
  PROVE  DataSpec => ImplementsSliceStore
<1>1. DataInit => Store!Init
  <2> SUFFICES ASSUME DataInit PROVE Store!Init
    OBVIOUS
  <2>1. lsa = NoLsa /\ \A l \in Lsa : Content(l) = NoData
    BY NoneAssumption DEF DataInit, Init, Content
  <2> QED BY <2>1 DEF Store!Init
<1>2. IInv /\ [DataNext]_dataVars => [Store!Next]_<<[l \in Lsa |-> Content(l)], lsa>>
  <2> SUFFICES ASSUME IInv, [DataNext]_dataVars
               PROVE  Store!Next \/ SameStore
    BY DEF SameStore
  <2>1. ASSUME NEW l \in Lsa, NEW x \in Data, WriteSlice(l, x)
        PROVE  Store!Next
    BY <2>1, WriteReplaces DEF Store!Next
  <2>2. CASE GiveSlice /\ Execute /\ UNCHANGED inHand
    BY <2>2, GiveFinishes DEF Store!Next
  <2>3. CASE (OpenBlock \/ GarbageCollection \/ EraseBlock) /\ Execute /\ UNCHANGED inHand
    BY <2>3, NoSliceMoves
  <2>4. CASE CopyPage /\ Execute /\ UNCHANGED inHand
    BY <2>4, CopyKeepsContent
  <2>5. CASE UNCHANGED dataVars
    <3>1. UNCHANGED <<logicalSlice, lsa, flash, inHand>>
      BY <2>5 DEF dataVars, vars, maps
    <3>2. \A l \in Lsa : Content(l)' = Content(l)
      BY <3>1 DEF Content
    <3> QED BY <3>1, <3>2, ContentsSame
  <2> QED BY <2>1, <2>2, <2>3, <2>4, <2>5 DEF DataNext, Continue
<1>3. DataSpec => []IInv
  BY DataSpecIsSpec, IInvHolds, PTL
<1> QED BY <1>1, <1>2, <1>3, PTL DEF DataSpec, ImplementsSliceStore, Store!Spec
=============================================================================
