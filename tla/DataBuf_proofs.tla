--------------------------- MODULE DataBuf_proofs ---------------------------
(***************************************************************************)
(* DataBuf, for any number of buffers, any size of the slices, any drive   *)
(* and any commands: a command is split into slice requests that cover it, *)
(* the lists stay whole, the newest content is kept, and the buffers are a *)
(* least recently used cache.                                              *)
(*                                                                         *)
(* A list of links is proved about through the sequence it stands for      *)
(* (Linked): what each list operation does to the sequence comes first,    *)
(* then what the steps do to the invariant (BufInv).                       *)
(***************************************************************************)
EXTENDS DataBuf, CommonLemmas, FiniteSetTheorems, TLAPS

\* What the quantities of the split mean: the command starts r blocks into
\* slice q, and fills Loop slices to the end and LastNum blocks of the next.
LEMMA SplitQuantities ==
  ASSUME NEW c \in Commands, NEW q, NEW r, q = c.start \div B, r = c.start % B
  PROVE  /\ c.start \in Nat /\ c.n \in Nat /\ c.n > 0
         /\ q \in Nat /\ r \in 0..(B - 1) /\ c.start = B * q + r
         /\ Loop(c) \in Nat /\ LastNum(c) \in 0..(B - 1)
         /\ r + c.n = B * Loop(c) + LastNum(c)
<1>1. /\ c.start \in Nat /\ c.n \in Nat /\ c.n > 0 /\ B \in Nat /\ B > 0
  BY CommandAssumption, SizeAssumption
<1>2. q \in Nat /\ r \in 0..(B - 1) /\ c.start = B * q + r
  BY <1>1, Division
<1> DEFINE m == r + c.n  u == c.start + c.n  l == m \div B  t == m % B
<1>0. r \in Nat /\ q \in Nat /\ c.n \in Nat /\ c.start \in Nat
  BY <1>1, <1>2
<1>3. m \in Nat /\ u \in Nat
  BY <1>0
<1>4. l \in Nat /\ t \in 0..(B - 1) /\ m = B * l + t
  <2> HIDE DEF m
  <2> QED BY <1>1, <1>3, Division
<1>5. u \div B \in Nat /\ u % B \in 0..(B - 1) /\ u = B * (u \div B) + (u % B)
  <2> HIDE DEF u
  <2> QED BY <1>1, <1>3, Division
<1>6. u % B = t
  <2> DEFINE v == u \div B  w == u % B  z == q + l  n == c.n
  <2>1. u = B * z + t
    <3>1. u = (B * q + r) + n /\ n \in Nat /\ m = r + n
      BY <1>1, <1>2
    <3> HIDE DEF u, m, l, t, n
    <3>2. B * z = B * q + B * l
      BY <1>1, <1>2, <1>4
    <3> DEFINE x == B * q  y == B * l  a == B * z
    <3>3. x \in Nat /\ y \in Nat /\ a = x + y /\ u = (x + r) + n /\ m = r + n /\ m = y + t /\ t \in Nat
      <4>1. x \in Nat /\ y \in Nat
        <5>1. B \in Nat /\ q \in Nat /\ l \in Nat
          BY <1>1, <1>0, <1>4
        <5> QED BY <5>1
      <4>2. a = x + y
        BY <3>2
      <4>3. u = (x + r) + n /\ m = r + n
        BY <3>1
      <4>4. m = y + t /\ t \in Nat
        BY <1>4, <1>1
      <4> QED BY <4>1, <4>2, <4>3, <4>4
    <3> HIDE DEF x, y, a, z
    <3>4. u = a + t
      BY <1>0, <3>1, <3>3
    <3> QED BY <3>4 DEF a
  <2>2. z \in Nat /\ v \in Nat /\ w \in 0..(B - 1) /\ B * z + t = B * v + w
    BY <2>1, <1>2, <1>4, <1>5
  <2> HIDE DEF u, v, w, z, t
  <2>3. t = w
    <3>1. B \in Nat /\ B > 0 /\ t \in 0..(B - 1)
      BY <1>1, <1>4
    <3> QED BY <2>2, <3>1, DivisionUnique
  <2> QED BY <2>3 DEF w
<1> QED BY <1>1, <1>2, <1>4, <1>6 DEF Loop, LastNum

\* The slice requests of a command cover it.
LEMMA SplitCovers == ASSUME NEW c \in Commands PROVE Covers(Split(c), c)
<1> DEFINE q == c.start \div B  r == c.start % B  S == c.start  n == c.n
           L == Loop(c)  t == LastNum(c)  k == SliceCount(c)  f == First(c)  s == Split(c)
<1>1. /\ S \in Nat /\ n \in Nat /\ n > 0 /\ q \in Nat /\ r \in 0..(B - 1) /\ S = B * q + r
      /\ L \in Nat /\ t \in 0..(B - 1) /\ r + n = B * L + t
  BY SplitQuantities
<1>2. B \in Nat /\ B > 0
  BY SizeAssumption
<1>3. k = IF L = 0 THEN 1 ELSE IF t = 0 THEN L ELSE L + 1
  BY DEF SliceCount
<1>4. f = IF L > 0 THEN B - r ELSE n
  BY DEF First
<1>5. /\ DOMAIN s = 1..k
      /\ \A i \in 1..k :
           /\ s[i].code = c.code
           /\ s[i].lsa = q + i - 1
           /\ s[i].startIndex = IF i = 1 THEN 0 ELSE f + (i - 2) * B
           /\ s[i].offset = IF i = 1 THEN r ELSE 0
           /\ s[i].num = IF i = 1 THEN f ELSE IF i <= L THEN B ELSE t
  BY DEF Split
<1>6. k \in Nat /\ k >= 1
  BY <1>1, <1>3
<1>7. Len(s) = k /\ s # <<>>
  <2> HIDE DEF k
  <2>1. s = [i \in 1..k |-> s[i]]
    BY DEF Split, k
  <2> HIDE DEF s
  <2> QED BY <2>1, <1>6
<1>8. f \in Nat /\ f >= 1 /\ f + r <= B
  <2> HIDE DEF S, n, q, r, L, t, f, k
  <2>1. CASE L = 0
    <3>1. B * L = 0
      BY <2>1, <1>2
    <3> QED BY <1>1, <1>2, <1>4, <2>1, <3>1
  <2>2. CASE L > 0
    BY <1>1, <1>2, <1>4, <2>2
  <2> QED BY <1>1, <2>1, <2>2
<1>9. ASSUME NEW i \in 1..k
      PROVE  /\ s[i].num \in 1..B /\ s[i].offset \in Offset /\ s[i].offset + s[i].num <= B
             /\ (s[i].lsa * B) + s[i].offset = S + s[i].startIndex
             /\ s[i].startIndex = IF i = 1 THEN 0 ELSE s[i - 1].startIndex + s[i - 1].num
  <2> HIDE DEF S, n, q, r, L, t, f, k, s
  <2>1. CASE i = 1
    <3>1. s[i].num = f /\ s[i].offset = r /\ s[i].startIndex = 0 /\ s[i].lsa = q
      BY <1>5, <2>1, <1>1
    <3>2. (q * B) + r = S + 0
      BY <1>1, <1>2
    <3> QED BY <1>1, <1>2, <1>8, <2>1, <3>1, <3>2 DEF Offset
  <2>2. CASE i # 1
    <3> DEFINE p == i - 2
    <3>1. p \in Nat /\ i = p + 2 /\ i \in Nat /\ i - 1 \in 1..k
      BY <1>6, <2>2
    <3>2. L >= 1 /\ L \in Nat /\ i <= L + 1 /\ (i = L + 1 => t # 0)
      BY <1>1, <1>3, <2>2
    <3>3. f = B - r
      BY <1>4, <3>2
    <3>4. s[i].num \in 1..B /\ s[i].offset = 0
      BY <1>1, <1>2, <1>5, <2>2, <3>2
    <3>5. s[i].lsa = q + p + 1 /\ s[i].startIndex = f + p * B
      BY <1>1, <1>5, <2>2, <3>1
    <3>6. (q + p + 1) * B = q * B + p * B + B /\ p * B \in Nat /\ q * B \in Nat /\ q * B = B * q
      <4> HIDE DEF p
      <4> QED BY <1>1, <1>2, <3>1
    <3>7. (s[i].lsa * B) + s[i].offset = S + s[i].startIndex
      <4> HIDE DEF p
      <4> QED BY <1>1, <1>2, <3>3, <3>4, <3>5, <3>6
    <3>8. s[i].startIndex = s[i - 1].startIndex + s[i - 1].num
      <4>1. CASE i = 2
        <5>1. s[i - 1].startIndex = 0 /\ s[i - 1].num = f /\ p * B = 0
          BY <1>5, <3>1, <4>1, <1>2
        <5> QED BY <5>1, <3>5, <1>8
      <4>2. CASE i # 2
        <5> DEFINE o == p - 1
        <5>1. o \in Nat /\ p = o + 1 /\ i - 1 # 1 /\ i - 1 <= L /\ (i - 1) - 2 = o
          BY <3>1, <3>2, <2>2, <4>2
        <5>2. s[i - 1].num = B
          BY <1>5, <3>1, <5>1
        <5>3. s[i - 1].startIndex = f + o * B
          BY <1>5, <3>1, <5>1
        <5>4. p * B = o * B + B /\ o * B \in Nat
          <6> HIDE DEF o, p
          <6> QED BY <5>1, <1>2
        <5> HIDE DEF o, p
        <5> QED BY <5>2, <5>3, <5>4, <3>5, <1>8, <1>2
      <4> QED BY <4>1, <4>2
    <3> QED BY <1>2, <2>2, <3>4, <3>7, <3>8 DEF Offset
  <2> QED BY <2>1, <2>2
<1>10. s[k].startIndex + s[k].num = n
  <2> HIDE DEF S, n, q, r, L, t, f, k, s
  <2>1. CASE k = 1
    <3>1. s[k].startIndex = 0 /\ s[k].num = f
      BY <1>5, <2>1
    <3>2. CASE L = 0
      BY <3>1, <3>2, <1>1, <1>4
    <3>3. CASE L # 0
      <4>1. L = 1 /\ t = 0
        BY <1>1, <1>3, <2>1, <3>3
      <4>2. r + n = B
        BY <1>1, <1>2, <4>1
      <4> QED BY <1>1, <1>2, <1>4, <3>1, <4>1, <4>2
    <3> QED BY <3>2, <3>3
  <2>2. CASE k # 1
    <3> DEFINE p == k - 2
    <3>1. p \in Nat /\ k = p + 2 /\ k \in 1..k /\ L >= 1
      BY <1>1, <1>3, <1>6, <2>2
    <3>2. s[k].startIndex = f + p * B /\ f = B - r /\ p * B \in Nat
      <4>1. p * B \in Nat
        <5> HIDE DEF p
        <5> QED BY <3>1, <1>2
      <4>2. s[k].startIndex = f + p * B
        BY <1>5, <2>2, <3>1
      <4>3. f = B - r
        BY <1>4, <3>1, <1>1
      <4> QED BY <4>1, <4>2, <4>3
    <3>3. CASE t = 0
      <4>1. L = p + 2 /\ s[k].num = B
        BY <1>1, <1>3, <1>5, <3>1, <3>3, <2>2
      <4>2. B * L = p * B + B + B
        <5> HIDE DEF p
        <5> QED BY <3>1, <4>1, <1>2
      <4> HIDE DEF p
      <4> QED BY <1>1, <1>2, <3>2, <3>3, <4>1, <4>2
    <3>4. CASE t # 0
      <4>1. L = p + 1 /\ s[k].num = t
        BY <1>1, <1>3, <1>5, <3>1, <3>4, <2>2
      <4>2. B * L = p * B + B
        <5> HIDE DEF p
        <5> QED BY <3>1, <4>1, <1>2
      <4> DEFINE a == p * B  e == B * L
      <4>3. /\ a \in Nat /\ e = a + B /\ r + n = e + t /\ r \in Nat /\ t \in Nat
            /\ s[k].startIndex = (B - r) + a /\ s[k].num = t
        <5> HIDE DEF p
        <5> QED BY <1>1, <1>2, <3>2, <4>1, <4>2
      <4> HIDE DEF a, e
      <4> QED BY <1>1, <1>2, <4>3
    <3> QED BY <3>3, <3>4
  <2> QED BY <2>1, <2>2
<1> HIDE DEF k, s, n, S
<1>11. \A i \in 1..k : s[i].code = c.code
  BY <1>5
<1> QED BY <1>7, <1>9, <1>10, <1>11 DEF Covers, s, n, S

\* Every command the main loop hands over is split into slice requests that
\* cover each of its blocks once, in the order of the host's memory.
THEOREM CommandsAlwaysCovered == Spec => CommandsCovered
<1>1. [Next]_vars => [\A c \in Commands : HandleNvmeIo(c) => Covers(sliceReqQ', c)]_vars
  <2> SUFFICES ASSUME NEW c \in Commands, HandleNvmeIo(c) PROVE Covers(sliceReqQ', c)
    OBVIOUS
  <2> QED BY SplitCovers DEF HandleNvmeIo
<1> QED BY <1>1, PTL DEF Spec, CommandsCovered

-----------------------------------------------------------------------------
(* Doubly linked lists.                                                    *)

\* The links of list l join the entries of sequence s in their order.
Linked(l, s) ==
  /\ s \in Seq(Buf) /\ NoDup(s)
  /\ l.head = IF s = <<>> THEN None ELSE s[1]
  /\ l.tail = IF s = <<>> THEN None ELSE s[Len(s)]
  /\ \A i \in 1..Len(s) : /\ l.prev[s[i]] = IF i = 1 THEN None ELSE s[i - 1]
                          /\ l.next[s[i]] = IF i = Len(s) THEN None ELSE s[i + 1]

\* A link is a buffer or none.
Entry == Buf \cup {None}
\* The records of the recency list.
ListType == [head : Entry, tail : Entry, prev : [Buf -> Entry], next : [Buf -> Entry]]

\* None is no buffer.
LEMMA NoneIsNoBuf == None \notin Buf
BY LsaAssumption, SizeAssumption DEF Buf

\* The lists of the buffers are lists as the common lemmas know them.
LEMMA IsLinked ==
  ASSUME NEW l, NEW s
  PROVE  Linked(l, s) <=> LinkedIn(l, s, Buf, None)
BY DEF Linked, LinkedIn
\* Also their types.
LEMMA IsListType == ListType = ListTypeOf(Buf, None)
BY DEF ListType, ListTypeOf, Entry, EntryOf

\* What the entries are.
LEMMA Entries ==
  ASSUME NEW l, NEW s, Linked(l, s)
  PROVE  /\ Len(s) \in Nat /\ (s = <<>> <=> Len(s) = 0)
         /\ \A i \in 1..Len(s) : s[i] \in Buf /\ s[i] # None /\ s[i] \in ToSet(s)
BY NoneIsNoBuf, IsLinked, EntriesIn

\* Walking along the links from the head, the entries are met in their order.
LEMMA WalkLinked ==
  ASSUME NEW l, NEW s, Linked(l, s), Len(s) <= N
  PROVE  Walk(l.head, l.next) = s
<1>1. LinkedIn(l, s, Buf, None) /\ N \in Nat \ {0}
  BY IsLinked, SizeAssumption
<1>2. WalkOf(l.head, l.next, N, None) = s
  BY NoneIsNoBuf, <1>1, WalkLinkedIn
<1> QED BY <1>2 DEF Walk, WalkOf

\* The links of m are those of l, but for the buffers K.
KeepsBut(l, m, K) ==
  \A c \in Buf : c \notin K => m.prev[c] = l.prev[c] /\ m.next[c] = l.next[c]

\* An entry that is unlinked is out of the list, wherever it was in it.
LEMMA UnlinkLinked ==
  ASSUME NEW l \in ListType, NEW s, Linked(l, s), NEW k \in 1..Len(s),
         NEW m, m = Unlink(l, s[k]), NEW u, u = RemoveAt(s, k)
  PROVE  m \in ListType /\ Linked(m, u) /\ ToSet(u) = ToSet(s) \ {s[k]} /\ KeepsBut(l, m, ToSet(s))
<1>1. m = UnlinkOf(l, s[k], None) /\ LinkedIn(l, s, Buf, None) /\ l \in ListTypeOf(Buf, None)
  BY IsLinked, IsListType DEF Unlink, UnlinkOf
<1>2. /\ m \in ListTypeOf(Buf, None) /\ LinkedIn(m, u, Buf, None) /\ ToSet(u) = ToSet(s) \ {s[k]}
      /\ KeepsLinks(l, m, ToSet(s), Buf)
  BY NoneIsNoBuf, <1>1, UnlinkLinkedIn
<1> QED BY <1>2, IsLinked, IsListType DEF KeepsBut, KeepsLinks

\* AllocateDataBuf takes the tail out of the list, as Unlink would.
LEMMA DropTailLinked ==
  ASSUME NEW l \in ListType, NEW s, Linked(l, s), s # <<>>,
         NEW m, m = DropTail(l), NEW u, u = RemoveAt(s, Len(s))
  PROVE  /\ l.tail = s[Len(s)] /\ Len(s) \in 1..Len(s)
         /\ m \in ListType /\ Linked(m, u) /\ ToSet(u) = ToSet(s) \ {l.tail}
<1>1. l.tail = s[Len(s)] /\ Len(s) \in 1..Len(s) /\ l.tail \in Buf /\ l.tail # None
  <2>1. Len(s) \in Nat /\ Len(s) # 0
    BY Entries
  <2>2. Len(s) \in 1..Len(s)
    BY <2>1
  <2> QED BY <2>2, Entries DEF Linked
<1>2. PICK p : p = l.prev[l.tail] /\ p \in Entry
  BY <1>1 DEF ListType
<1>3. l.next[l.tail] = None
  BY <1>1 DEF Linked
<1>4. m = Unlink(l, l.tail)
  <2>1. l = [head |-> l.head, tail |-> l.tail, prev |-> l.prev, next |-> l.next]
    BY DEF ListType
  <2>2. Unlink(l, l.tail) = [head |-> IF p = None THEN None ELSE l.head, tail |-> p, prev |-> l.prev,
                             next |-> IF p = None THEN l.next ELSE [l.next EXCEPT ![p] = None]]
    BY <1>2, <1>3 DEF Unlink
  <2>3. m = IF p = None THEN [l EXCEPT !.head = None, !.tail = None]
            ELSE [l EXCEPT !.tail = p, !.next[p] = None]
    BY <1>2 DEF DropTail
  <2>4. CASE p = None
    BY <2>1, <2>2, <2>3, <2>4
  <2>5. CASE p # None
    BY <2>1, <2>2, <2>3, <2>5
  <2> QED BY <2>4, <2>5
<1>5. m \in ListType /\ Linked(m, u) /\ ToSet(u) = ToSet(s) \ {s[Len(s)]} /\ KeepsBut(l, m, ToSet(s))
  BY <1>1, <1>4, UnlinkLinked
<1> QED BY <1>1, <1>5

\* The sequence t is s with entry b in front.
InFront(t, s, b) ==
  /\ Len(t) = Len(s) + 1 /\ Len(s) \in Nat
  /\ t[1] = b /\ \A i \in 2..(Len(s) + 1) : t[i] = s[i - 1]

\* A buffer put at the head, and the order of the others.
LEMMA InFrontOf ==
  ASSUME NEW S, NEW s \in Seq(S), NEW b \in S
  PROVE  <<b>> \o s \in Seq(S) /\ InFront(<<b>> \o s, s, b)
<1> DEFINE t == <<b>> \o s
<1>1. /\ <<b>> \in Seq(S) /\ Len(<<b>>) = 1 /\ <<b>>[1] = b
  OBVIOUS
<1>2. /\ t \in Seq(S) /\ Len(t) = Len(<<b>>) + Len(s)
      /\ \A i \in 1..(Len(<<b>>) + Len(s)) : t[i] = IF i <= Len(<<b>>) THEN <<b>>[i] ELSE s[i - Len(<<b>>)]
  BY <1>1, ConcatProperties
<1> HIDE DEF t
<1>3. Len(t) = 1 + Len(s) /\ Len(s) \in Nat
  BY <1>1, <1>2
<1>4. \A i \in 1..(1 + Len(s)) : t[i] = IF i <= 1 THEN <<b>>[i] ELSE s[i - 1]
  BY <1>1, <1>2
<1>5. t[1] = b
  BY <1>1, <1>3, <1>4
<1>6. \A i \in 2..(Len(s) + 1) : t[i] = s[i - 1]
  BY <1>3, <1>4
<1> QED BY <1>2, <1>3, <1>5, <1>6 DEF InFront, t

\* A list with an entry in front.
LEMMA FrontList ==
  ASSUME NEW S, NEW s \in Seq(S), NEW t \in Seq(S), NEW b, InFront(t, s, b), NoDup(s), b \notin ToSet(s)
  PROVE  t # <<>> /\ NoDup(t) /\ ToSet(t) = ToSet(s) \cup {b}
<1>1. /\ Len(t) = Len(s) + 1 /\ Len(s) \in Nat
      /\ t[1] = b /\ \A i \in 2..(Len(s) + 1) : t[i] = s[i - 1]
  BY DEF InFront
<1>2. \A i \in 1..Len(t) : i = 1 \/ (i - 1 \in 1..Len(s) /\ t[i] = s[i - 1])
  BY <1>1
<1>3. ASSUME NEW i \in 1..Len(s) PROVE i + 1 \in 1..Len(t) /\ t[i + 1] = s[i]
  <2>1. i + 1 \in 2..(Len(s) + 1) /\ (i + 1) - 1 = i /\ i + 1 \in 1..Len(t)
    BY <1>1
  <2> QED BY <1>1, <2>1
<1>4. \A i \in 1..Len(s) : s[i] # b
  BY DEF ToSet
<1>5. NoDup(t)
  <2> SUFFICES ASSUME NEW i \in 1..Len(t), NEW j \in 1..Len(t), t[i] = t[j] PROVE i = j
    BY DEF NoDup
  <2>1. CASE i = 1 \/ j = 1
    BY <1>1, <1>2, <1>4, <2>1
  <2>2. CASE i # 1 /\ j # 1
    <3>1. i - 1 \in 1..Len(s) /\ j - 1 \in 1..Len(s) /\ s[i - 1] = s[j - 1]
      BY <1>2, <2>2
    <3>2. i - 1 = j - 1
      BY <3>1 DEF NoDup
    <3> QED BY <3>2
  <2> QED BY <2>1, <2>2
<1>6. ToSet(t) \subseteq ToSet(s) \cup {b}
  BY <1>1, <1>2 DEF ToSet
<1>7. ToSet(s) \subseteq ToSet(t)
  BY <1>3 DEF ToSet
<1>8. b \in ToSet(t) /\ t # <<>>
  <2>1. 1 \in 1..Len(t)
    BY <1>1
  <2> QED BY <1>1, <2>1 DEF ToSet
<1> QED BY <1>5, <1>6, <1>7, <1>8

\* An entry that enters at the head is in front.
LEMMA PushHeadLinked ==
  ASSUME NEW l \in ListType, NEW s, Linked(l, s), NEW b \in Buf, b \notin ToSet(s),
         NEW m, m = PushHead(l, b), NEW t \in Seq(Buf), InFront(t, s, b)
  PROVE  m \in ListType /\ Linked(m, t) /\ ToSet(t) = ToSet(s) \cup {b}
<1>1. /\ Len(s) \in Nat /\ s \in Seq(Buf) /\ NoDup(s) /\ (s = <<>> <=> Len(s) = 0)
      /\ \A i \in 1..Len(s) : s[i] \in Buf /\ s[i] # None /\ s[i] # b
  <2>1. s \in Seq(Buf) /\ NoDup(s)
    BY DEF Linked
  <2> QED BY <2>1, Entries
<1>2. /\ t # <<>> /\ NoDup(t) /\ ToSet(t) = ToSet(s) \cup {b}
      /\ Len(t) = Len(s) + 1 /\ t[1] = b /\ \A i \in 2..(Len(s) + 1) : t[i] = s[i - 1]
  BY <1>1, FrontList DEF InFront
<1>3. PICK h : h = l.head /\ h \in Entry /\ h = IF s = <<>> THEN None ELSE s[1]
  BY DEF Linked, ListType
<1>4. /\ m.head = b
      /\ m.tail = IF h = None THEN b ELSE l.tail
      /\ m.prev = IF h = None THEN [l.prev EXCEPT ![b] = None] ELSE [l.prev EXCEPT ![b] = None, ![h] = b]
      /\ m.next = [l.next EXCEPT ![b] = h]
      /\ m = [head |-> m.head, tail |-> m.tail, prev |-> m.prev, next |-> m.next]
  BY <1>3 DEF PushHead
<1>5. l.prev \in [Buf -> Entry] /\ l.next \in [Buf -> Entry] /\ l.tail \in Entry
  BY DEF ListType
<1>6. h = None <=> s = <<>>
  <2>1. s # <<>> => 1 \in 1..Len(s)
    BY <1>1
  <2> QED BY <1>1, <1>3, <2>1
<1>7. /\ m.next \in [Buf -> Entry] /\ \A c \in Buf : m.next[c] = IF c = b THEN h ELSE l.next[c]
  BY <1>3, <1>4, <1>5
<1>8. /\ m.prev \in [Buf -> Entry]
      /\ \A c \in Buf : m.prev[c] = IF h # None /\ c = h THEN b ELSE IF c = b THEN None ELSE l.prev[c]
  <2>1. CASE h = None
    BY <1>4, <1>5, <2>1 DEF Entry
  <2>2. CASE h # None
    <3>1. h \in Buf /\ h # b
      <4>1. 1 \in 1..Len(s)
        BY <1>1, <1>6, <2>2
      <4> QED BY <1>1, <1>3, <1>6, <2>2, <4>1
    <3>2. m.prev = [l.prev EXCEPT ![b] = None, ![h] = b]
      BY <1>4, <2>2
    <3> QED BY <1>5, <2>2, <3>1, <3>2 DEF Entry
  <2> QED BY <2>1, <2>2
<1>9. m \in ListType
  <2>1. m.head \in Entry /\ m.tail \in Entry
    BY <1>4, <1>5 DEF Entry
  <2> QED BY <1>4, <1>7, <1>8, <2>1 DEF ListType
<1>10. m.tail = t[Len(t)]
  <2>1. CASE s = <<>>
    BY <1>1, <1>2, <1>4, <1>6, <2>1
  <2>2. CASE s # <<>>
    <3>1. m.tail = s[Len(s)]
      BY <1>4, <1>6, <2>2 DEF Linked
    <3>2. t[Len(s) + 1] = s[Len(s)]
      BY <1>1, <1>2, <2>2
    <3> QED BY <1>2, <3>1, <3>2
  <2> QED BY <2>1, <2>2
<1>11. ASSUME NEW i \in 1..Len(t)
       PROVE  /\ m.prev[t[i]] = IF i = 1 THEN None ELSE t[i - 1]
              /\ m.next[t[i]] = IF i = Len(t) THEN None ELSE t[i + 1]
  <2>1. CASE i = 1
    <3>1. m.prev[b] = None
      <4>1. s # <<>> => 1 \in 1..Len(s)
        BY <1>1
      <4> QED BY <1>1, <1>3, <1>6, <1>8, <4>1
    <3>2. m.next[b] = h
      BY <1>7
    <3>3. h = IF i = Len(t) THEN None ELSE t[i + 1]
      <4>1. CASE s = <<>>
        BY <1>1, <1>2, <1>3, <2>1, <4>1
      <4>2. CASE s # <<>>
        <5>1. t[2] = s[1] /\ Len(t) # 1
          BY <1>1, <1>2, <4>2
        <5> QED BY <1>3, <2>1, <4>2, <5>1
      <4> QED BY <4>1, <4>2
    <3> QED BY <1>2, <2>1, <3>1, <3>2, <3>3
  <2>2. CASE i # 1
    <3> DEFINE k == i - 1
    <3>1. k \in 1..Len(s) /\ i = k + 1 /\ t[i] = s[k]
      BY <1>1, <1>2, <2>2
    <3>2. /\ l.prev[s[k]] = IF k = 1 THEN None ELSE s[k - 1]
          /\ l.next[s[k]] = IF k = Len(s) THEN None ELSE s[k + 1]
      BY <3>1 DEF Linked
    <3>3. s[k] \in Buf /\ s[k] # b /\ 1 \in 1..Len(s) /\ s # <<>>
      BY <1>1, <3>1
    <3> HIDE DEF k
    <3>4. m.next[s[k]] = IF i = Len(t) THEN None ELSE t[i + 1]
      <4>1. m.next[s[k]] = l.next[s[k]]
        BY <1>7, <3>3
      <4>2. k # Len(s) => t[i + 1] = s[k + 1]
        BY <1>1, <1>2, <3>1
      <4>3. k = Len(s) <=> i = Len(t)
        BY <1>1, <1>2, <3>1
      <4> QED BY <3>2, <4>1, <4>2, <4>3
    <3>5. m.prev[s[k]] = IF k = 1 THEN b ELSE l.prev[s[k]]
      <4>1. s[k] = h <=> k = 1
        BY <1>1, <1>3, <3>1, <3>3 DEF NoDup
      <4> QED BY <1>6, <1>8, <3>3, <4>1
    <3>6. t[k] = IF k = 1 THEN b ELSE s[k - 1]
      BY <1>1, <1>2, <3>1
    <3>7. k = i - 1
      BY DEF k
    <3> QED BY <2>2, <3>1, <3>2, <3>4, <3>5, <3>6, <3>7
  <2> QED BY <2>1, <2>2
<1> QED BY <1>2, <1>4, <1>9, <1>10, <1>11 DEF Linked

\* A list is as long as its set of entries is large.
LEMMA LinkedLength ==
  ASSUME NEW l, NEW s, Linked(l, s)
  PROVE  Len(s) = Cardinality(ToSet(s)) /\ Len(s) <= N /\ Cardinality(Buf) = N
<1>1. IsFiniteSet(Buf) /\ Cardinality(Buf) = N
  <2>1. N \in Nat /\ N > 0
    BY SizeAssumption
  <2>2. 0 \in Int /\ N - 1 \in Int
    BY <2>1
  <2>3. IsFiniteSet(0..(N - 1)) /\ Cardinality(0..(N - 1)) = IF 0 > N - 1 THEN 0 ELSE (N - 1) - 0 + 1
    BY <2>2, FS_Interval
  <2> QED BY <2>1, <2>3 DEF Buf
<1>2. Len(s) = Cardinality(ToSet(s)) /\ Len(s) <= Cardinality(Buf)
  BY <1>1, NoneIsNoBuf, IsLinked, LinkedLengthIn
<1> QED BY <1>1, <1>2

-----------------------------------------------------------------------------
(* The hash table.                                                         *)

\* The records of the bucket lists.
HashType == [head : [Bucket -> Entry], tail : [Bucket -> Entry], prev : [Buf -> Entry], next : [Buf -> Entry]]

\* The list of every bucket h is whole and holds the buffers M[h].
Hashed(t, M) ==
  /\ t \in HashType
  /\ \A h \in Bucket : \E s : Linked(Chain(t, h), s) /\ ToSet(s) = M[h]

\* The hash table is a table of lists as the common lemmas know it.
LEMMA IsTable ==
  ASSUME NEW t, NEW M
  PROVE  Hashed(t, M) <=> TableIn(t, M, Bucket, Buf, None)
<1>1. HashType = TableType(Bucket, Buf, None)
  BY DEF HashType, TableType, Entry, EntryOf
<1>2. \A h \in Bucket : Chain(t, h) = ChainOf(t, h)
  BY DEF Chain, ChainOf
<1>3. \A h \in Bucket : \A s : Linked(Chain(t, h), s) <=> LinkedIn(ChainOf(t, h), s, Buf, None)
  BY <1>2, IsLinked
<1> QED BY <1>1, <1>3 DEF Hashed, TableIn

\* No buffer is in two buckets.
Apart(M) == \A g, h \in Bucket : g # h => M[g] \cap M[h] = {}

\* A buffer leaves the bucket h it is in.
LEMMA LeavesBucket ==
  ASSUME NEW t, NEW M, Hashed(t, M), Apart(M), NEW h \in Bucket, NEW b \in M[h]
  PROVE  Hashed(WithChain(t, h, Unlink(Chain(t, h), b)), [g \in Bucket |-> IF g = h THEN M[h] \ {b} ELSE M[g]])
<1> DEFINE u == WithChain(t, h, Unlink(Chain(t, h), b))  K == [g \in Bucket |-> IF g = h THEN M[h] \ {b} ELSE M[g]]
<1>1. TableIn(t, M, Bucket, Buf, None) /\ ApartIn(M, Bucket)
  BY IsTable DEF Apart, ApartIn
<1>2. u = WithChainOf(t, h, UnlinkOf(ChainOf(t, h), b, None))
  BY DEF WithChain, WithChainOf, Unlink, UnlinkOf, Chain, ChainOf
<1>3. TableIn(u, K, Bucket, Buf, None)
  BY NoneIsNoBuf, <1>1, <1>2, LeavesChain
<1> HIDE DEF u, K
<1>4. Hashed(u, K)
  BY <1>3, IsTable
<1> QED BY <1>4 DEF u, K

\* A buffer that is in no bucket enters bucket h.
LEMMA EntersBucket ==
  ASSUME NEW t, NEW M, Hashed(t, M), Apart(M), NEW h \in Bucket, NEW b \in Buf, \A g \in Bucket : b \notin M[g]
  PROVE  Hashed(WithChain(t, h, PushTail(Chain(t, h), b)), [g \in Bucket |-> IF g = h THEN M[h] \cup {b} ELSE M[g]])
<1> DEFINE u == WithChain(t, h, PushTail(Chain(t, h), b))  K == [g \in Bucket |-> IF g = h THEN M[h] \cup {b} ELSE M[g]]
<1>1. TableIn(t, M, Bucket, Buf, None) /\ ApartIn(M, Bucket)
  BY IsTable DEF Apart, ApartIn
<1>2. u = WithChainOf(t, h, PushTailOf(ChainOf(t, h), b, None))
  BY DEF WithChain, WithChainOf, PushTail, PushTailOf, Chain, ChainOf
<1>3. TableIn(u, K, Bucket, Buf, None)
  BY NoneIsNoBuf, <1>1, <1>2, EntersChain
<1> HIDE DEF u, K
<1>4. Hashed(u, K)
  BY <1>3, IsTable
<1> QED BY <1>4 DEF u, K

-----------------------------------------------------------------------------
(* The invariant.                                                          *)

\* The buffers whose slice belongs to each bucket.
Members == [h \in Bucket |-> {b \in Buf : /\ logicalSliceAddr[b] # None
                                          /\ FindDataBufHashTableEntry(logicalSliceAddr[b]) = h}]

\* The LRU list is whole and holds every buffer.
LruOK == lru \in ListType /\ \E s : Linked(lru, s) /\ ToSet(s) = Buf

\* The list of every bucket holds the buffers that belong there.
HashOK == Hashed(hash, Members)

\* A slice request stays within its slice.
QueueOK == /\ sliceReqQ \in Seq(SliceReq)
           /\ \A i \in 1..Len(sliceReqQ) : sliceReqQ[i].offset + sliceReqQ[i].num <= B

\* The types of what is not a link, and that only a buffer of a slice is dirty.
DataOK ==
  /\ logicalSliceAddr \in [Buf -> Lsa \cup {None}]
  /\ dirty \in [Buf -> BOOLEAN]
  /\ mapped \subseteq Lsa
  /\ written \in [Lsa -> SUBSET Offset]
  /\ bufHas \in [Buf -> SUBSET Offset]
  /\ flashHas \in [Lsa -> SUBSET Offset]
  /\ \A b \in Buf : dirty[b] => logicalSliceAddr[b] # None

\* A slice has one buffer at most: a miss is a miss.
OneBuffer ==
  \A b, c \in Buf : logicalSliceAddr[b] # None /\ logicalSliceAddr[b] = logicalSliceAddr[c] => b = c

\* The inductive invariant.
BufInv == QueueOK /\ LruOK /\ HashOK /\ DataOK /\ OneBuffer /\ NewestKept

\* The bucket of a slice, and that None is no slice.
LEMMA BucketOf ==
  ASSUME NEW a \in Lsa
  PROVE  a \in Nat /\ a # None /\ FindDataBufHashTableEntry(a) \in Bucket
<1>1. a \in Nat /\ a # None /\ N \in Nat /\ N > 0
  BY LsaAssumption, SizeAssumption
<1>2. a % N \in 0..(N - 1)
  BY <1>1, Division
<1> QED BY <1>1, <1>2 DEF FindDataBufHashTableEntry, Bucket

\* A buffer has one slice, so it is in one bucket.
LEMMA MembersApart == Apart(Members)
BY DEF Apart, Members

\* The buffer CheckDataBufHit finds is a buffer of the slice, and it finds one
\* if there is one.
LEMMA FoundRight ==
  ASSUME HashOK, DataOK, NEW a \in Lsa
  PROVE  \/ Found(a) = None /\ \A b \in Buf : logicalSliceAddr[b] # a
         \/ Found(a) \in Buf /\ logicalSliceAddr[Found(a)] = a /\ Found(a) # None
<1>1. PICK h : h = FindDataBufHashTableEntry(a) /\ h \in Bucket /\ a # None
  BY BucketOf
<1>2. PICK l : l = Chain(hash, h) /\ l.head = hash.head[h] /\ l.next = hash.next
  <2>1. Chain(hash, h).head = hash.head[h] /\ Chain(hash, h).next = hash.next
    BY DEF Chain
  <2> QED BY <2>1
<1>3. PICK s : Linked(l, s) /\ ToSet(s) = Members[h]
  BY <1>1, <1>2 DEF HashOK, Hashed
<1>4. Walk(l.head, l.next) = s
  BY <1>3, LinkedLength, WalkLinked
<1> DEFINE here == {i \in 1..Len(s) : logicalSliceAddr[s[i]] = a}
<1>5. Found(a) = IF here = {} THEN None ELSE s[Min(here)]
  BY <1>1, <1>2, <1>4 DEF Found
<1>6. \A i \in 1..Len(s) : s[i] \in Buf /\ s[i] # None
  BY <1>3, Entries
<1>7. CASE here = {}
  <2>1. ASSUME NEW b \in Buf, logicalSliceAddr[b] = a PROVE FALSE
    <3>1. b \in ToSet(s)
      BY <1>1, <1>3, <2>1 DEF Members
    <3>2. PICK i \in 1..Len(s) : s[i] = b
      <4>1. s \in Seq(Buf)
        BY <1>3 DEF Linked
      <4> QED BY <3>1, <4>1 DEF ToSet
    <3> QED BY <1>7, <2>1, <3>2
  <2> QED BY <1>5, <1>7, <2>1
<1>8. CASE here # {}
  <2>1. here \in SUBSET Nat
    OBVIOUS
  <2>2. Min(here) \in here
    <3> HIDE DEF here
    <3> QED BY <1>8, <2>1, MinOf
  <2>3. PICK i : i = Min(here)
    OBVIOUS
  <2>4. i \in 1..Len(s) /\ logicalSliceAddr[s[i]] = a
    BY <2>2, <2>3
  <2> HIDE DEF here
  <2> QED BY <1>5, <1>6, <1>8, <2>3, <2>4
<1> QED BY <1>7, <1>8

\* SelectiveGetFromDataBufHashList takes the buffer out of the bucket it is in.
LEMMA UnhashedOK ==
  ASSUME HashOK, DataOK, NEW b \in Buf, NEW a
  PROVE  Hashed(Unhashed(b, a), [g \in Bucket |-> Members[g] \ {b}])
<1>1. PICK M : M = Members
  OBVIOUS
<1>2. Hashed(hash, M) /\ Apart(M) /\ M = [g \in Bucket |-> M[g]]
  BY <1>1, MembersApart DEF HashOK, Members
<1>3. logicalSliceAddr[b] = None \/ logicalSliceAddr[b] \in Lsa
  BY DEF DataOK
<1>4. CASE logicalSliceAddr[b] = None
  <2>1. \A g \in Bucket : b \notin M[g]
    BY <1>1, <1>4 DEF Members
  <2>2. M = [g \in Bucket |-> M[g] \ {b}]
    BY <1>2, <2>1
  <2>3. Unhashed(b, a) = hash
    BY <1>4 DEF Unhashed
  <2> QED BY <1>1, <1>2, <2>2, <2>3
<1>5. CASE logicalSliceAddr[b] # None
  <2>1. PICK h : h = FindDataBufHashTableEntry(logicalSliceAddr[b]) /\ h \in Bucket
    BY <1>3, <1>5, BucketOf
  <2>2. \A g \in Bucket : b \in M[g] <=> g = h
    BY <1>1, <1>5, <2>1 DEF Members
  <2>3. Unhashed(b, a) = WithChain(hash, h, Unlink(Chain(hash, h), b))
    BY <1>5, <2>1 DEF Unhashed
  <2>4. Hashed(WithChain(hash, h, Unlink(Chain(hash, h), b)), [g \in Bucket |-> IF g = h THEN M[h] \ {b} ELSE M[g]])
    BY <1>2, <2>1, <2>2, LeavesBucket
  <2>5. [g \in Bucket |-> IF g = h THEN M[h] \ {b} ELSE M[g]] = [g \in Bucket |-> M[g] \ {b}]
    BY <2>2
  <2> QED BY <1>1, <2>3, <2>4, <2>5
<1> QED BY <1>4, <1>5

\* PutToDataBufHashList puts a buffer that is in no bucket into that of slice a.
LEMMA RehashedOK ==
  ASSUME NEW t, NEW M, Hashed(t, M), Apart(M), NEW b \in Buf, \A g \in Bucket : b \notin M[g], NEW a \in Lsa
  PROVE  Hashed(Rehashed(t, b, a),
                [g \in Bucket |-> IF g = FindDataBufHashTableEntry(a) THEN M[g] \cup {b} ELSE M[g]])
<1>1. PICK h : h = FindDataBufHashTableEntry(a) /\ h \in Bucket
  BY BucketOf
<1>2. Rehashed(t, b, a) = WithChain(t, h, PushTail(Chain(t, h), b))
  BY <1>1 DEF Rehashed
<1>3. Hashed(WithChain(t, h, PushTail(Chain(t, h), b)), [g \in Bucket |-> IF g = h THEN M[h] \cup {b} ELSE M[g]])
  BY <1>1, EntersBucket
<1>4. [g \in Bucket |-> IF g = h THEN M[h] \cup {b} ELSE M[g]] = [g \in Bucket |-> IF g = h THEN M[g] \cup {b} ELSE M[g]]
  OBVIOUS
<1> QED BY <1>1, <1>2, <1>3, <1>4

-----------------------------------------------------------------------------
(* The LRU list.                                                           *)

\* The sequence s with its k-th entry moved to the front.
MovedToFront(s, k) == <<s[k]>> \o RemoveAt(s, k)

\* A list without its k-th entry gets that entry at the head.
LEMMA BackAtHead ==
  ASSUME NEW l \in ListType, NEW s, Linked(l, s), ToSet(s) = Buf, NEW k \in 1..Len(s),
         NEW m \in ListType, Linked(m, RemoveAt(s, k)), ToSet(RemoveAt(s, k)) = ToSet(s) \ {s[k]}
  PROVE  /\ PushHead(m, s[k]) \in ListType /\ Linked(PushHead(m, s[k]), MovedToFront(s, k))
         /\ ToSet(MovedToFront(s, k)) = Buf
<1>1. PICK b, u : b = s[k] /\ u = RemoveAt(s, k)
  OBVIOUS
<1>2. b \in Buf /\ Linked(m, u) /\ ToSet(u) = Buf \ {b}
  BY <1>1, Entries
<1>3. u \in Seq(Buf)
  BY <1>2 DEF Linked
<1>4. PICK t : t = <<b>> \o u
  OBVIOUS
<1>5. t \in Seq(Buf) /\ InFront(t, u, b)
  BY <1>2, <1>3, <1>4, InFrontOf
<1>6. PICK w : w = PushHead(m, b)
  OBVIOUS
<1>7. b \notin ToSet(u)
  BY <1>2
<1>8. w \in ListType /\ Linked(w, t) /\ ToSet(t) = ToSet(u) \cup {b}
  BY <1>2, <1>5, <1>6, <1>7, PushHeadLinked
<1>9. ToSet(t) = Buf
  BY <1>2, <1>8
<1>10. MovedToFront(s, k) = t /\ PushHead(m, s[k]) = w
  BY <1>1, <1>4, <1>6 DEF MovedToFront
<1> QED BY <1>8, <1>9, <1>10

\* A hit moves the buffer to the front.
LEMMA HitList ==
  ASSUME NEW l \in ListType, NEW s, Linked(l, s), ToSet(s) = Buf, NEW k \in 1..Len(s)
  PROVE  /\ MakeMru(l, s[k]) \in ListType /\ Linked(MakeMru(l, s[k]), MovedToFront(s, k))
         /\ ToSet(MovedToFront(s, k)) = Buf
<1>1. PICK m, u : m = Unlink(l, s[k]) /\ u = RemoveAt(s, k)
  OBVIOUS
<1>2. m \in ListType /\ Linked(m, u) /\ ToSet(u) = ToSet(s) \ {s[k]}
  BY <1>1, UnlinkLinked
<1>3. MakeMru(l, s[k]) = PushHead(m, s[k])
  BY <1>1 DEF MakeMru
<1> QED BY <1>1, <1>2, <1>3, BackAtHead

\* A miss moves the last buffer to the front.
LEMMA MissList ==
  ASSUME NEW l \in ListType, NEW s, Linked(l, s), ToSet(s) = Buf
  PROVE  /\ Len(s) \in 1..Len(s) /\ s # <<>> /\ l.tail = s[Len(s)] /\ l.tail \in Buf
         /\ PushHead(DropTail(l), l.tail) \in ListType
         /\ Linked(PushHead(DropTail(l), l.tail), MovedToFront(s, Len(s)))
         /\ ToSet(MovedToFront(s, Len(s))) = Buf
<1>1. s # <<>>
  <2>1. 0 \in Buf
    BY SizeAssumption DEF Buf
  <2> QED BY <2>1 DEF ToSet
<1>2. PICK m, u : m = DropTail(l) /\ u = RemoveAt(s, Len(s))
  OBVIOUS
<1>3. /\ l.tail = s[Len(s)] /\ Len(s) \in 1..Len(s)
      /\ m \in ListType /\ Linked(m, u) /\ ToSet(u) = ToSet(s) \ {l.tail}
  BY <1>1, <1>2, DropTailLinked
<1>4. PICK k \in 1..Len(s) : k = Len(s)
  BY <1>3
<1>5. /\ PushHead(m, s[k]) \in ListType /\ Linked(PushHead(m, s[k]), MovedToFront(s, k))
      /\ ToSet(MovedToFront(s, k)) = Buf
  BY <1>2, <1>3, <1>4, BackAtHead
<1>6. l.tail \in Buf
  BY <1>3, Entries
<1> QED BY <1>1, <1>2, <1>3, <1>4, <1>5, <1>6

\* The list InitDataBuf makes holds every buffer in the order of the numbers.
LEMMA InitList ==
  ASSUME Init
  PROVE  /\ lru \in ListType /\ Linked(lru, [i \in 1..N |-> i - 1])
         /\ ToSet([i \in 1..N |-> i - 1]) = Buf
<1>1. N \in Nat /\ N > 0
  BY SizeAssumption
<1>2. PICK s : s = [i \in 1..N |-> i - 1]
  OBVIOUS
<1>3. /\ s \in Seq(Buf) /\ Len(s) = N /\ s # <<>> /\ DOMAIN s = 1..N
      /\ \A i \in 1..N : s[i] = i - 1 /\ s[i] \in Buf
  BY <1>1, <1>2 DEF Buf
<1>4. NoDup(s)
  BY <1>1, <1>3 DEF NoDup
<1>5. ToSet(s) = Buf
  <2>1. ASSUME NEW b \in Buf PROVE b + 1 \in 1..N /\ s[b + 1] = b
    BY <1>1, <1>3 DEF Buf
  <2> QED BY <1>3, <2>1 DEF ToSet
<1>6. /\ lru = [head |-> 0, tail |-> N - 1,
                prev |-> [b \in Buf |-> IF b = 0 THEN None ELSE b - 1],
                next |-> [b \in Buf |-> IF b = N - 1 THEN None ELSE b + 1]]
  BY DEF Init
<1>7. lru \in ListType
  <2>1. 0 \in Buf /\ N - 1 \in Buf
    BY <1>1 DEF Buf
  <2>2. \A b \in Buf : (b # 0 => b - 1 \in Buf) /\ (b # N - 1 => b + 1 \in Buf)
    BY <1>1 DEF Buf
  <2> QED BY <1>6, <2>1, <2>2 DEF ListType, Entry
<1>8. ASSUME NEW i \in 1..N
      PROVE  /\ lru.prev[s[i]] = IF i = 1 THEN None ELSE s[i - 1]
             /\ lru.next[s[i]] = IF i = N THEN None ELSE s[i + 1]
  <2>1. s[i] = i - 1 /\ s[i] \in Buf /\ i \in Nat
    BY <1>1, <1>3
  <2>2. /\ lru.prev[s[i]] = IF s[i] = 0 THEN None ELSE s[i] - 1
        /\ lru.next[s[i]] = IF s[i] = N - 1 THEN None ELSE s[i] + 1
    BY <1>6, <2>1
  <2>3. (s[i] = 0 <=> i = 1) /\ (s[i] = N - 1 <=> i = N)
    BY <1>1, <2>1
  <2>4. i # 1 => s[i - 1] = s[i] - 1
    BY <1>1, <1>3, <2>1
  <2>5. i # N => s[i + 1] = s[i] + 1
    BY <1>1, <1>3, <2>1
  <2> QED BY <2>2, <2>3, <2>4, <2>5
<1>9. lru.head = s[1] /\ lru.tail = s[N]
  BY <1>1, <1>3, <1>6
<1>10. Linked(lru, s)
  BY <1>3, <1>4, <1>8, <1>9 DEF Linked
<1> QED BY <1>2, <1>5, <1>7, <1>10

-----------------------------------------------------------------------------
(* A command is split.                                                     *)

\* The slice requests of a command are requests for slices of the drive.
LEMMA SplitType ==
  ASSUME NEW c \in Commands
  PROVE  Split(c) \in Seq(SliceReq) /\ \A i \in 1..Len(Split(c)) : Split(c)[i].offset + Split(c)[i].num <= B
<1>1. PICK s : s = Split(c)
  OBVIOUS
<1>2. /\ c.code \in {"READ", "WRITE"} /\ c.start \in Nat /\ c.n \in Nat
      /\ \A i \in 0..(c.n - 1) : (c.start + i) \div B \in Lsa
      /\ B \in Nat /\ B > 0
  BY CommandAssumption, SizeAssumption
<1>3. PICK k \in Nat : k = SliceCount(c)
  <2>1. Loop(c) \in Nat
    BY SplitQuantities
  <2> QED BY <2>1 DEF SliceCount
<1>4. PICK f \in Int, q \in Nat : f = First(c) /\ q = c.start \div B
  <2>1. c.start % B \in Int /\ c.start \div B \in Nat
    BY <1>2, Division
  <2>2. First(c) \in Int
    BY <1>2, <2>1 DEF First
  <2> QED BY <2>1, <2>2
<1>5. /\ DOMAIN s = 1..k /\ s = [i \in 1..k |-> s[i]]
      /\ \A i \in 1..k : /\ s[i] = [code |-> s[i].code, lsa |-> s[i].lsa, startIndex |-> s[i].startIndex,
                                    offset |-> s[i].offset, num |-> s[i].num]
                         /\ s[i].startIndex = IF i = 1 THEN 0 ELSE f + (i - 2) * B
                         /\ s[i].lsa = q + i - 1
  BY <1>1, <1>3, <1>4 DEF Split
<1>6. Len(s) = k
  BY <1>5
<1>7. /\ s # <<>>
      /\ \A i \in 1..k :
           /\ s[i].code = c.code
           /\ s[i].num \in 1..B /\ s[i].offset \in Offset /\ s[i].offset + s[i].num <= B
           /\ (s[i].lsa * B) + s[i].offset = c.start + s[i].startIndex
           /\ s[i].startIndex = IF i = 1 THEN 0 ELSE s[i - 1].startIndex + s[i - 1].num
      /\ s[k].startIndex + s[k].num = c.n
  BY <1>1, <1>6, SplitCovers DEF Covers
<1>8. k # 0
  BY <1>5, <1>7
<1>9. \A i \in 1..k : s[i].startIndex \in Int /\ s[i].lsa \in Nat /\ s[i].num \in Nat /\ s[i].num > 0
  <2> TAKE i \in 1..k
  <2>1. PICK x \in Int : x = (i - 2) * B
    BY <1>2
  <2>2. s[i].num \in 1..B
    BY <1>7
  <2>3. s[i].lsa = q + i - 1 /\ s[i].startIndex = IF i = 1 THEN 0 ELSE f + x
    BY <1>5, <2>1
  <2>4. s[i].lsa \in Nat
    BY <2>3
  <2>5. s[i].startIndex \in Int
    BY <2>3
  <2> QED BY <1>2, <2>2, <2>4, <2>5
<1>10. \A i \in 1..k : s[i].startIndex >= 0
  <2> DEFINE D == {i \in 1..k : ~(s[i].startIndex >= 0)}
  <2>1. D = {}
    <3> SUFFICES ASSUME D # {} PROVE FALSE
      OBVIOUS
    <3>1. D \in SUBSET Nat
      OBVIOUS
    <3>2. PICK i \in D : \A j \in D : i <= j
      <4> HIDE DEF D
      <4> QED BY <3>1, MinOf
    <3>3. i \in 1..k /\ i # 1
      BY <1>7
    <3>4. i - 1 \in 1..k /\ s[i].startIndex = s[i - 1].startIndex + s[i - 1].num
      BY <1>7, <3>3
    <3>5. i - 1 \in D
      BY <1>9, <3>3, <3>4
    <3> QED BY <3>2, <3>3, <3>5
  <2> QED BY <2>1
<1>11. \A i \in 1..k : s[i].startIndex + s[i].num <= c.n
  <2> DEFINE D == {i \in 1..k : ~(s[i].startIndex + s[i].num <= c.n)}
  <2>1. D = {}
    <3> SUFFICES ASSUME D # {} PROVE FALSE
      OBVIOUS
    <3>1. D \in SUBSET Nat /\ \A j \in D : j <= k
      OBVIOUS
    <3>2. PICK i \in D : \A j \in D : j <= i
      <4> HIDE DEF D
      <4> QED BY <1>3, <3>1, MaxOf
    <3>3. i \in 1..k /\ i # k
      BY <1>2, <1>7
    <3>4. i + 1 \in 1..k /\ s[i + 1].startIndex = s[i].startIndex + s[i].num
      <4>1. i + 1 \in 1..k /\ i + 1 # 1 /\ (i + 1) - 1 = i
        BY <3>3
      <4> QED BY <1>7, <4>1
    <3>5. i + 1 \in D
      BY <1>2, <1>9, <3>3, <3>4
    <3> QED BY <3>2, <3>3, <3>5
  <2> QED BY <2>1
<1>12. ASSUME NEW i \in 1..k PROVE s[i] \in SliceReq
  <2>1. s[i].startIndex \in Nat /\ s[i].startIndex \in 0..(c.n - 1)
    BY <1>2, <1>9, <1>10, <1>11
  <2>2. PICK a, o : a = s[i].lsa /\ o = s[i].offset /\ a \in Nat /\ o \in 0..(B - 1) /\ s[i].num \in 1..B
    BY <1>7, <1>9 DEF Offset
  <2>3. PICK n : n = c.start + s[i].startIndex /\ a * B + o = n
    BY <1>7, <2>2
  <2>4. B * a + o = n
    BY <1>2, <2>2, <2>3
  <2>5. (B * a + o) \div B = a
    BY <1>2, <2>2, TurnAndPlace
  <2>6. a \in Lsa
    BY <1>2, <2>1, <2>3, <2>4, <2>5
  <2>7. PICK x, y, z, u, v : /\ x = s[i].code /\ y = s[i].lsa /\ z = s[i].startIndex
                             /\ u = s[i].offset /\ v = s[i].num
    OBVIOUS
  <2>8. x \in {"READ", "WRITE"} /\ y \in Lsa /\ z \in Nat /\ u \in Offset /\ v \in 1..B
    BY <1>2, <1>7, <2>1, <2>2, <2>6, <2>7
  <2>9. s[i] = [code |-> x, lsa |-> y, startIndex |-> z, offset |-> u, num |-> v]
    BY <1>5, <2>7
  <2> QED BY <2>8, <2>9 DEF SliceReq
<1>13. s \in Seq(SliceReq)
  BY <1>5, <1>12
<1> QED BY <1>1, <1>6, <1>7, <1>13

-----------------------------------------------------------------------------
(* The steps keep the invariant.                                           *)

\* What is known of the request at the head of the queue.
LEMMA HeadRequest ==
  ASSUME QueueOK, sliceReqQ # <<>>, NEW q, q = Head(sliceReqQ)
  PROVE  /\ q \in SliceReq /\ q.lsa \in Lsa /\ q.lsa # None
         /\ Blocks(q) \subseteq Offset /\ (q.num = B => Blocks(q) = Offset)
         /\ Tail(sliceReqQ) \in Seq(SliceReq)
         /\ \A i \in 1..Len(Tail(sliceReqQ)) : Tail(sliceReqQ)[i].offset + Tail(sliceReqQ)[i].num <= B
<1>1. PICK s : s = sliceReqQ /\ s \in Seq(SliceReq) /\ s # <<>> /\ \A i \in 1..Len(s) : s[i].offset + s[i].num <= B
  BY DEF QueueOK
<1>2. q = s[1] /\ q \in SliceReq /\ 1 \in 1..Len(s)
  BY <1>1
<1>3. q.lsa \in Lsa /\ q.offset \in Offset /\ q.num \in 1..B /\ q.offset + q.num <= B
  BY <1>1, <1>2 DEF SliceReq
<1>4. Blocks(q) \subseteq Offset /\ (q.num = B => Blocks(q) = Offset)
  <2>1. B \in Nat /\ q.offset \in Nat /\ q.num \in Nat
    BY <1>3, SizeAssumption DEF Offset
  <2>2. q.num = B => q.offset = 0
    BY <1>3, <2>1 DEF Offset
  <2> QED BY <1>3, <2>1, <2>2 DEF Blocks, Offset
<1>5. PICK t : t = Tail(s)
  OBVIOUS
<1>6. t \in Seq(SliceReq) /\ \A i \in 1..Len(t) : i + 1 \in 1..Len(s) /\ t[i] = s[i + 1]
  BY <1>1, <1>5
<1> QED BY <1>1, <1>2, <1>3, <1>4, <1>5, <1>6, BucketOf

\* HandleNvmeIo queues requests that stay within their slices, and nothing else.
LEMMA AskKeeps ==
  ASSUME BufInv, NEW c \in Commands, HandleNvmeIo(c)
  PROVE  BufInv'
<1>1. /\ sliceReqQ' = Split(c)
      /\ lru' = lru /\ hash' = hash /\ logicalSliceAddr' = logicalSliceAddr
      /\ dirty' = dirty /\ mapped' = mapped /\ written' = written /\ bufHas' = bufHas /\ flashHas' = flashHas
  BY DEF HandleNvmeIo, lists, data
<1>2. QueueOK'
  BY <1>1, SplitType DEF QueueOK
<1>3. LruOK' /\ HashOK'
  BY <1>1 DEF BufInv, LruOK, HashOK, Members
<1>4. DataOK' /\ OneBuffer' /\ NewestKept'
  BY <1>1 DEF BufInv, DataOK, OneBuffer, NewestKept
<1> QED BY <1>2, <1>3, <1>4 DEF BufInv

\* What a hit does, in terms of the sequences the links join.
LEMMA HitMoves ==
  ASSUME BufInv, DataBufHit, NEW s, Linked(lru, s), ToSet(s) = Buf, NEW b, b = Found(Head(sliceReqQ).lsa)
  PROVE  /\ b \in Buf /\ logicalSliceAddr[b] = Head(sliceReqQ).lsa
         /\ lru' \in ListType
         /\ \E k \in 1..Len(s) : s[k] = b /\ Linked(lru', MovedToFront(s, k)) /\ ToSet(MovedToFront(s, k)) = Buf
<1>1. PICK a : a = Head(sliceReqQ).lsa /\ a \in Lsa
  BY HeadRequest DEF BufInv, DataBufHit
<1>2. b # None /\ lru' = MakeMru(lru, b)
  BY DEF DataBufHit
<1>3. b \in Buf /\ logicalSliceAddr[b] = a
  BY <1>1, <1>2, FoundRight DEF BufInv
<1>4. PICK k \in 1..Len(s) : s[k] = b
  <2>1. s \in Seq(Buf)
    BY DEF Linked
  <2> QED BY <1>3, <2>1 DEF ToSet
<1>5. lru \in ListType
  BY DEF BufInv, LruOK
<1>6. /\ MakeMru(lru, s[k]) \in ListType /\ Linked(MakeMru(lru, s[k]), MovedToFront(s, k))
      /\ ToSet(MovedToFront(s, k)) = Buf
  BY <1>5, HitList
<1> QED BY <1>1, <1>2, <1>3, <1>4, <1>6

\* The blocks a transfer makes newer.
New(q) == IF q.code = "WRITE" THEN Blocks(q) ELSE {}

\* The blocks n of slice a become the newest in buffer b, that held has, and
\* the flash held page: what the host wrote is then w, the buffers have u and
\* the flash has f.
Transferred(w, u, f, a, n, b, has, page) ==
  /\ w = [written EXCEPT ![a] = @ \cup n]
  /\ u = [d \in Buf |-> IF d = b THEN has \cup n
                        ELSE IF logicalSliceAddr[d] = a THEN bufHas[d] \ n
                        ELSE bufHas[d]]
  /\ f = [page EXCEPT ![a] = @ \ n]

\* The same, slice by slice and buffer by buffer.
TransferredTo(w, u, f, a, n, b, has, page) ==
  /\ w \in [Lsa -> SUBSET Offset] /\ u \in [Buf -> SUBSET Offset] /\ f \in [Lsa -> SUBSET Offset]
  /\ \A c \in Lsa : /\ w[c] = IF c = a THEN written[c] \cup n ELSE written[c]
                    /\ f[c] = IF c = a THEN page[c] \ n ELSE page[c]
  /\ \A d \in Buf : u[d] = IF d = b THEN has \cup n
                           ELSE IF logicalSliceAddr[d] = a THEN bufHas[d] \ n
                           ELSE bufHas[d]

\* What a transfer writes.
LEMMA TransferDoes ==
  ASSUME DataOK, NEW a0 \in Lsa, NEW n \in SUBSET Offset, NEW b \in Buf,
         NEW has \in SUBSET Offset, NEW page \in [Lsa -> SUBSET Offset],
         NEW w, NEW u, NEW f, Transferred(w, u, f, a0, n, b, has, page)
  PROVE  TransferredTo(w, u, f, a0, n, b, has, page)
<1> USE DEF Transferred
<1>1. written \in [Lsa -> SUBSET Offset] /\ bufHas \in [Buf -> SUBSET Offset]
  BY DEF DataOK
<1>2. /\ w \in [Lsa -> SUBSET Offset]
      /\ \A a \in Lsa : w[a] = IF a = a0 THEN written[a] \cup n ELSE written[a]
  BY <1>1
<1>3. /\ f \in [Lsa -> SUBSET Offset]
      /\ \A a \in Lsa : f[a] = IF a = a0 THEN page[a] \ n ELSE page[a]
  BY <1>1
<1>4. \A d \in Buf : u[d] = IF d = b THEN has \cup n
                            ELSE IF logicalSliceAddr[d] = a0 THEN bufHas[d] \ n
                            ELSE bufHas[d]
  OBVIOUS
<1>5. u \in [Buf -> SUBSET Offset]
  BY <1>1
<1> QED BY <1>2, <1>3, <1>4, <1>5 DEF TransferredTo

\* NewestKept, read off.
LEMMA NewestOf ==
  ASSUME NewestKept, DataOK, NEW a \in Lsa, NEW H, H = {b \in Buf : logicalSliceAddr[b] = a}
  PROVE  /\ \A b \in H : written[a] \subseteq bufHas[b]
         /\ (\A b \in H : ~dirty[b]) => (a \in mapped \/ written[a] = {}) /\ written[a] \subseteq flashHas[a]
BY DEF NewestKept

\* A hit keeps the invariant.
LEMMA HitKeeps ==
  ASSUME BufInv, DataBufHit
  PROVE  BufInv'
<1>1. PICK q : q = Head(sliceReqQ)
  OBVIOUS
<1>2. PICK b : b = Found(q.lsa)
  OBVIOUS
<1>3. PICK s : Linked(lru, s) /\ ToSet(s) = Buf
  BY DEF BufInv, LruOK
<1>4. /\ q \in SliceReq /\ q.lsa \in Lsa /\ Blocks(q) \subseteq Offset
      /\ Tail(sliceReqQ) \in Seq(SliceReq)
      /\ \A i \in 1..Len(Tail(sliceReqQ)) : Tail(sliceReqQ)[i].offset + Tail(sliceReqQ)[i].num <= B
  BY <1>1, HeadRequest DEF BufInv, DataBufHit
<1>5. /\ b \in Buf /\ logicalSliceAddr[b] = q.lsa /\ lru' \in ListType
      /\ \E t : Linked(lru', t) /\ ToSet(t) = Buf
  BY <1>1, <1>2, <1>3, HitMoves
<1>6. /\ dirty' = [dirty EXCEPT ![b] = @ \/ q.code = "WRITE"]
      /\ Transfer(q, b, bufHas[b], flashHas)
      /\ sliceReqQ' = Tail(sliceReqQ)
      /\ hash' = hash /\ logicalSliceAddr' = logicalSliceAddr /\ mapped' = mapped
  BY <1>1, <1>2 DEF DataBufHit
<1>7. QueueOK'
  BY <1>4, <1>6 DEF QueueOK
<1>8. LruOK'
  BY <1>5 DEF LruOK
<1>9. HashOK' /\ OneBuffer'
  BY <1>6 DEF BufInv, HashOK, Members, OneBuffer
<1>10. DataOK /\ dirty \in [Buf -> BOOLEAN] /\ bufHas \in [Buf -> SUBSET Offset]
       /\ flashHas \in [Lsa -> SUBSET Offset]
  BY DEF BufInv, DataOK
<1>11. PICK n, has, page : n = New(q) /\ n \in SUBSET Offset /\ has = bufHas[b] /\ page = flashHas
                            /\ has \in SUBSET Offset
  <2>1. New(q) \subseteq Offset /\ bufHas[b] \in SUBSET Offset
    BY <1>4, <1>5, <1>10 DEF New
  <2> QED BY <2>1
<1>12. /\ written' = [written EXCEPT ![q.lsa] = @ \cup n]
       /\ bufHas' = [d \in Buf |-> IF d = b THEN has \cup n
                                   ELSE IF logicalSliceAddr[d] = q.lsa THEN bufHas[d] \ n
                                   ELSE bufHas[d]]
       /\ flashHas' = [page EXCEPT ![q.lsa] = @ \ n]
  BY <1>6, <1>11 DEF Transfer, New
<1>13. /\ written' \in [Lsa -> SUBSET Offset] /\ bufHas' \in [Buf -> SUBSET Offset]
       /\ flashHas' \in [Lsa -> SUBSET Offset]
       /\ \A a \in Lsa : /\ written'[a] = IF a = q.lsa THEN written[a] \cup n ELSE written[a]
                         /\ flashHas'[a] = IF a = q.lsa THEN page[a] \ n ELSE page[a]
       /\ \A d \in Buf : bufHas'[d] = IF d = b THEN has \cup n
                                      ELSE IF logicalSliceAddr[d] = q.lsa THEN bufHas[d] \ n
                                      ELSE bufHas[d]
  <2>1. PICK w, u, f : w = written' /\ u = bufHas' /\ f = flashHas'
    OBVIOUS
  <2>2. page \in [Lsa -> SUBSET Offset]
    BY <1>10, <1>11
  <2>3. PICK a0 : a0 = q.lsa /\ a0 \in Lsa
    BY <1>4
  <2>4. Transferred(w, u, f, a0, n, b, has, page)
    BY <1>12, <2>1, <2>3 DEF Transferred
  <2>5. TransferredTo(w, u, f, a0, n, b, has, page)
    BY <1>5, <1>10, <1>11, <2>2, <2>3, <2>4, TransferDoes
  <2> QED BY <2>1, <2>3, <2>5 DEF TransferredTo
<1>14. /\ dirty' \in [Buf -> BOOLEAN]
       /\ \A d \in Buf : dirty'[d] = IF d = b THEN dirty[b] \/ q.code = "WRITE" ELSE dirty[d]
  BY <1>5, <1>6, <1>10
<1>15. DataOK'
  <2>1. \A d \in Buf : dirty'[d] => logicalSliceAddr[d] # None
    BY <1>4, <1>5, <1>10, <1>14, BucketOf DEF DataOK
  <2> QED BY <1>6, <1>10, <1>11, <1>13, <1>14, <2>1 DEF DataOK
<1>16. NewestKept'
  <2>1. ASSUME NEW a \in Lsa, NEW H, H = {d \in Buf : logicalSliceAddr[d] = a}
        PROVE  /\ \A d \in H : written'[a] \subseteq bufHas'[d]
               /\ (\A d \in H : ~dirty'[d]) => (a \in mapped \/ written'[a] = {}) /\ written'[a] \subseteq flashHas'[a]
    <3>1. /\ \A d \in H : written[a] \subseteq bufHas[d]
          /\ (\A d \in H : ~dirty[d]) => (a \in mapped \/ written[a] = {}) /\ written[a] \subseteq flashHas[a]
      BY <1>10, <2>1, NewestOf DEF BufInv
    <3>2. CASE a = q.lsa
      <4>1. \A d \in H : d = b
        BY <1>4, <1>5, <2>1, <3>2, BucketOf DEF BufInv, OneBuffer
      <4>2. b \in H
        BY <1>5, <2>1, <3>2
      <4>3. q.code # "WRITE" => n = {}
        BY <1>11 DEF New
      <4>4. \A d \in H : written'[a] \subseteq bufHas'[d]
        BY <1>5, <1>11, <1>13, <3>1, <3>2, <4>1, <4>2
      <4>5. ASSUME \A d \in H : ~dirty'[d]
            PROVE  (a \in mapped \/ written'[a] = {}) /\ written'[a] \subseteq flashHas'[a]
        <5>1. ~dirty[b] /\ n = {}
          BY <1>5, <1>14, <4>2, <4>3, <4>5
        <5>2. (a \in mapped \/ written[a] = {}) /\ written[a] \subseteq flashHas[a]
          BY <3>1, <4>1, <5>1
        <5> QED BY <1>11, <1>13, <5>1, <5>2
      <4> QED BY <4>4, <4>5
    <3>3. CASE a # q.lsa
      <4>1. \A d \in H : d \in Buf /\ d # b /\ bufHas'[d] = bufHas[d] /\ dirty'[d] = dirty[d]
        BY <1>5, <1>11, <1>13, <1>14, <2>1, <3>3
      <4>2. written'[a] = written[a] /\ flashHas'[a] = flashHas[a]
        BY <1>11, <1>13, <3>3
      <4> QED BY <3>1, <4>1, <4>2
    <3> QED BY <3>2, <3>3
  <2> QED BY <1>6, <2>1 DEF NewestKept
<1> QED BY <1>7, <1>8, <1>9, <1>15, <1>16 DEF BufInv

\* What a miss does to the lists: the buffer at the tail of the LRU list moves
\* to the front and from the bucket of its old slice into that of its new one.
LEMMA MissMoves ==
  ASSUME BufInv, DataBufMiss, NEW s, Linked(lru, s), ToSet(s) = Buf
  PROVE  /\ lru.tail = s[Len(s)] /\ lru.tail \in Buf /\ Len(s) \in 1..Len(s)
         /\ lru' \in ListType /\ Linked(lru', MovedToFront(s, Len(s))) /\ ToSet(MovedToFront(s, Len(s))) = Buf
         /\ \A d \in Buf : logicalSliceAddr[d] # Head(sliceReqQ).lsa
         /\ HashOK'
<1>1. PICK a : a = Head(sliceReqQ).lsa /\ a \in Lsa /\ a # None
  BY HeadRequest DEF BufInv, DataBufMiss
<1>2. PICK b : b = lru.tail
  OBVIOUS
<1>3. /\ Found(a) = None
      /\ lru' = PushHead(DropTail(lru), b)
      /\ hash' = Rehashed(Unhashed(b, a), b, a)
      /\ logicalSliceAddr' = [logicalSliceAddr EXCEPT ![b] = a]
  BY <1>1, <1>2 DEF DataBufMiss
<1>4. \A d \in Buf : logicalSliceAddr[d] # a
  BY <1>1, <1>3, FoundRight DEF BufInv
<1>5. lru \in ListType
  BY DEF BufInv, LruOK
<1>6. /\ Len(s) \in 1..Len(s) /\ b = s[Len(s)] /\ b \in Buf
      /\ lru' \in ListType /\ Linked(lru', MovedToFront(s, Len(s))) /\ ToSet(MovedToFront(s, Len(s))) = Buf
  BY <1>2, <1>3, <1>5, MissList
<1>7. HashOK'
  <2>1. PICK t : t = Unhashed(b, a)
    OBVIOUS
  <2>2. PICK M : M = [g \in Bucket |-> Members[g] \ {b}]
    OBVIOUS
  <2>3. Hashed(t, M) /\ Apart(M) /\ \A g \in Bucket : b \notin M[g]
    <3>1. Hashed(t, M)
      BY <1>6, <2>1, <2>2, UnhashedOK DEF BufInv
    <3>2. Apart(M)
      BY <2>2, MembersApart DEF Apart
    <3> QED BY <2>2, <3>1, <3>2
  <2>4. Hashed(Rehashed(t, b, a), [g \in Bucket |-> IF g = FindDataBufHashTableEntry(a) THEN M[g] \cup {b} ELSE M[g]])
    BY <1>1, <1>6, <2>3, RehashedOK
  <2>5. logicalSliceAddr \in [Buf -> Lsa \cup {None}]
    BY DEF BufInv, DataOK
  <2>6. \A d \in Buf : logicalSliceAddr'[d] = IF d = b THEN a ELSE logicalSliceAddr[d]
    BY <1>3, <1>6, <2>5
  <2>7. PICK h : h = FindDataBufHashTableEntry(a)
    OBVIOUS
  <2>8. PICK P : P = [g \in Bucket |-> {d \in Buf : /\ logicalSliceAddr'[d] # None
                                                    /\ FindDataBufHashTableEntry(logicalSliceAddr'[d]) = g}]
    OBVIOUS
  <2>9. ASSUME NEW g \in Bucket PROVE P[g] = IF g = h THEN M[g] \cup {b} ELSE M[g]
    <3>1. M[g] = {d \in Buf : logicalSliceAddr[d] # None /\ FindDataBufHashTableEntry(logicalSliceAddr[d]) = g} \ {b}
      BY <2>2 DEF Members
    <3>2. P[g] = {d \in Buf : logicalSliceAddr'[d] # None /\ FindDataBufHashTableEntry(logicalSliceAddr'[d]) = g}
      BY <2>8
    <3>3. ASSUME NEW d \in Buf, d # b PROVE d \in P[g] <=> d \in M[g]
      BY <2>6, <3>1, <3>2, <3>3
    <3>4. b \in P[g] <=> g = h
      BY <1>1, <1>6, <2>6, <2>7, <3>2
    <3>5. P[g] \subseteq Buf /\ M[g] \subseteq Buf /\ b \notin M[g]
      BY <3>1, <3>2
    <3>6. CASE g = h
      BY <1>6, <3>3, <3>4, <3>5, <3>6
    <3>7. CASE g # h
      BY <3>3, <3>4, <3>5, <3>7
    <3> QED BY <3>6, <3>7
  <2>10. P = [g \in Bucket |-> IF g = h THEN M[g] \cup {b} ELSE M[g]]
    <3>1. P = [g \in Bucket |-> P[g]]
      BY <2>8
    <3> QED BY <2>9, <3>1
  <2>11. hash' = Rehashed(t, b, a)
    BY <1>3, <2>1
  <2>12. Hashed(hash', P)
    BY <2>4, <2>7, <2>10, <2>11
  <2>13. Members' = P
    BY <2>8 DEF Members
  <2> QED BY <2>12, <2>13 DEF HashOK
<1> QED BY <1>1, <1>2, <1>4, <1>6, <1>7

\* A miss keeps the invariant.
LEMMA MissKeeps ==
  ASSUME BufInv, DataBufMiss
  PROVE  BufInv'
<1>1. PICK q : q = Head(sliceReqQ)
  OBVIOUS
<1>2. PICK b : b = lru.tail
  OBVIOUS
<1>3. PICK s : Linked(lru, s) /\ ToSet(s) = Buf
  BY DEF BufInv, LruOK
<1>4. /\ q \in SliceReq /\ q.lsa \in Lsa /\ q.lsa # None
      /\ Blocks(q) \subseteq Offset /\ (q.num = B => Blocks(q) = Offset)
      /\ Tail(sliceReqQ) \in Seq(SliceReq)
      /\ \A i \in 1..Len(Tail(sliceReqQ)) : Tail(sliceReqQ)[i].offset + Tail(sliceReqQ)[i].num <= B
  BY <1>1, HeadRequest DEF BufInv, DataBufMiss
<1>5. /\ b \in Buf /\ \A d \in Buf : logicalSliceAddr[d] # q.lsa
      /\ lru' \in ListType /\ \E t : Linked(lru', t) /\ ToSet(t) = Buf
      /\ HashOK'
  BY <1>1, <1>2, <1>3, MissMoves
<1>6. PICK old : old = logicalSliceAddr[b]
  OBVIOUS
<1>7. /\ dirty' = [dirty EXCEPT ![b] = q.code = "WRITE"]
      /\ logicalSliceAddr' = [logicalSliceAddr EXCEPT ![b] = q.lsa]
      /\ mapped' = IF dirty[b] THEN mapped \cup {old} ELSE mapped
      /\ Transfer(q, b, Filled(q, Evicted(b)[q.lsa]), Evicted(b))
      /\ sliceReqQ' = Tail(sliceReqQ)
  BY <1>1, <1>2, <1>6 DEF DataBufMiss
<1>8. QueueOK' /\ LruOK'
  BY <1>4, <1>5, <1>7 DEF QueueOK, LruOK
<1>9. /\ DataOK /\ dirty \in [Buf -> BOOLEAN] /\ bufHas \in [Buf -> SUBSET Offset]
      /\ flashHas \in [Lsa -> SUBSET Offset] /\ written \in [Lsa -> SUBSET Offset] /\ mapped \subseteq Lsa
      /\ logicalSliceAddr \in [Buf -> Lsa \cup {None}]
      /\ old \in Lsa \cup {None} /\ old # q.lsa /\ (dirty[b] => old \in Lsa)
  <2>1. DataOK
    BY DEF BufInv
  <2> QED BY <1>5, <1>6, <2>1 DEF DataOK
<1>10. /\ \A d \in Buf : logicalSliceAddr'[d] = IF d = b THEN q.lsa ELSE logicalSliceAddr[d]
       /\ logicalSliceAddr' \in [Buf -> Lsa \cup {None}]
  BY <1>4, <1>5, <1>7, <1>9
<1>11. OneBuffer'
  <2> SUFFICES ASSUME NEW c \in Buf, NEW d \in Buf, logicalSliceAddr'[c] # None,
                      logicalSliceAddr'[c] = logicalSliceAddr'[d]
               PROVE  c = d
    BY DEF OneBuffer
  <2>1. CASE c = b \/ d = b
    BY <1>5, <1>10, <2>1
  <2>2. CASE c # b /\ d # b
    BY <1>10, <2>2 DEF BufInv, OneBuffer
  <2> QED BY <2>1, <2>2
\* The flash after the eviction, and what the buffer is filled with.
<1>12. PICK page : page = Evicted(b)
  OBVIOUS
<1>13. /\ page \in [Lsa -> SUBSET Offset]
       /\ \A a \in Lsa : page[a] = IF dirty[b] /\ a = old THEN bufHas[b] ELSE flashHas[a]
  <2>1. page = IF dirty[b] THEN [flashHas EXCEPT ![old] = bufHas[b]] ELSE flashHas
    BY <1>6, <1>12 DEF Evicted
  <2>2. bufHas[b] \in SUBSET Offset
    BY <1>5, <1>9
  <2>3. CASE dirty[b]
    <3>1. page = [flashHas EXCEPT ![old] = bufHas[b]]
      BY <2>1, <2>3
    <3> QED BY <1>9, <2>2, <2>3, <3>1
  <2>4. CASE ~dirty[b]
    BY <1>9, <2>1, <2>4
  <2> QED BY <2>3, <2>4
<1>14. PICK n, has : n = New(q) /\ has = Filled(q, page[q.lsa])
  OBVIOUS
<1>15. /\ n \in SUBSET Offset /\ has \in SUBSET Offset
       /\ n = IF q.code = "WRITE" THEN Blocks(q) ELSE {}
       /\ has = IF (q.code = "READ" \/ q.num # B) /\ q.lsa \in mapped THEN page[q.lsa] ELSE {}
  <2>1. page[q.lsa] \in SUBSET Offset
    BY <1>4, <1>13
  <2>2. n \in SUBSET Offset /\ n = IF q.code = "WRITE" THEN Blocks(q) ELSE {}
    BY <1>4, <1>14 DEF New
  <2>3. has \in SUBSET Offset
    BY <1>14, <2>1 DEF Filled
  <2> QED BY <1>14, <2>2, <2>3 DEF Filled
<1>16. /\ written' \in [Lsa -> SUBSET Offset] /\ bufHas' \in [Buf -> SUBSET Offset]
       /\ flashHas' \in [Lsa -> SUBSET Offset]
       /\ \A a \in Lsa : /\ written'[a] = IF a = q.lsa THEN written[a] \cup n ELSE written[a]
                         /\ flashHas'[a] = IF a = q.lsa THEN page[a] \ n ELSE page[a]
       /\ \A d \in Buf : bufHas'[d] = IF d = b THEN has \cup n
                                      ELSE IF logicalSliceAddr[d] = q.lsa THEN bufHas[d] \ n
                                      ELSE bufHas[d]
  <2>1. PICK w, u, f, a0 : w = written' /\ u = bufHas' /\ f = flashHas' /\ a0 = q.lsa /\ a0 \in Lsa
    BY <1>4
  <2>2. Transferred(w, u, f, a0, n, b, has, page)
    BY <1>7, <1>12, <1>14, <2>1 DEF Transfer, New, Transferred
  <2>3. TransferredTo(w, u, f, a0, n, b, has, page)
    BY <1>5, <1>9, <1>13, <1>15, <2>1, <2>2, TransferDoes
  <2> QED BY <2>1, <2>3 DEF TransferredTo
<1>17. /\ dirty' \in [Buf -> BOOLEAN]
       /\ \A d \in Buf : dirty'[d] = IF d = b THEN q.code = "WRITE" ELSE dirty[d]
  BY <1>5, <1>7, <1>9
<1>18. DataOK'
  <2>1. \A d \in Buf : dirty'[d] => logicalSliceAddr'[d] # None
    BY <1>4, <1>9, <1>10, <1>17 DEF DataOK
  <2>2. mapped' \subseteq Lsa
    BY <1>7, <1>9
  <2> QED BY <1>10, <1>16, <1>17, <2>1, <2>2 DEF DataOK
<1>19. NewestKept'
  <2>1. ASSUME NEW a \in Lsa, NEW H, H = {d \in Buf : logicalSliceAddr'[d] = a}
        PROVE  /\ \A d \in H : written'[a] \subseteq bufHas'[d]
               /\ (\A d \in H : ~dirty'[d]) => (a \in mapped' \/ written'[a] = {}) /\ written'[a] \subseteq flashHas'[a]
    <3>1. PICK G : G = {d \in Buf : logicalSliceAddr[d] = a}
      OBVIOUS
    <3>2. /\ \A d \in G : written[a] \subseteq bufHas[d]
          /\ (\A d \in G : ~dirty[d]) => (a \in mapped \/ written[a] = {}) /\ written[a] \subseteq flashHas[a]
      BY <1>9, <3>1, NewestOf DEF BufInv
    <3>3. CASE a = q.lsa
      <4>1. G = {} /\ \A d \in H : d = b
        BY <1>5, <1>10, <2>1, <3>1, <3>3
      <4>2. b \in H
        BY <1>5, <1>10, <2>1, <3>3
      <4>3. (a \in mapped \/ written[a] = {}) /\ written[a] \subseteq flashHas[a]
        BY <3>2, <4>1
      <4>4. page[a] = flashHas[a] /\ written[a] \subseteq Offset
        BY <1>9, <1>13, <3>3
      <4>5. written[a] \subseteq has \cup n
        <5>1. CASE (q.code = "READ" \/ q.num # B) /\ a \in mapped
          BY <1>15, <3>3, <4>3, <4>4, <5>1
        <5>2. CASE a \notin mapped
          BY <4>3, <5>2
        <5>3. CASE ~(q.code = "READ" \/ q.num # B)
          <6>1. q.code = "WRITE" /\ q.num = B
            BY <1>4, <5>3 DEF SliceReq
          <6> QED BY <1>4, <1>15, <4>4, <6>1
        <5> QED BY <5>1, <5>2, <5>3
      <4>6. \A d \in H : written'[a] \subseteq bufHas'[d]
        BY <1>5, <1>16, <3>3, <4>1, <4>5
      <4>7. ASSUME \A d \in H : ~dirty'[d]
            PROVE  (a \in mapped' \/ written'[a] = {}) /\ written'[a] \subseteq flashHas'[a]
        <5>1. n = {}
          BY <1>5, <1>15, <1>17, <4>2, <4>7
        <5>2. written'[a] = written[a] /\ flashHas'[a] = flashHas[a]
          BY <1>16, <3>3, <4>4, <5>1
        <5>3. mapped \subseteq mapped'
          BY <1>7
        <5> QED BY <4>3, <5>2, <5>3
      <4> QED BY <4>6, <4>7
    <3>4. CASE a # q.lsa
      <4>1. H = G \ {b} /\ \A d \in H : bufHas'[d] = bufHas[d] /\ dirty'[d] = dirty[d]
        BY <1>5, <1>10, <1>16, <1>17, <2>1, <3>1, <3>4
      <4>2. written'[a] = written[a] /\ flashHas'[a] = page[a] /\ mapped \subseteq mapped'
        BY <1>7, <1>16, <3>4
      <4>3. CASE a = old
        <5>1. b \in G /\ \A d \in G : d = b
          <6>1. b \in G
            BY <1>5, <1>6, <3>1, <4>3
          <6>2. a # None
            BY BucketOf
          <6> QED BY <3>1, <6>1, <6>2 DEF BufInv, OneBuffer
        <5>2. CASE dirty[b]
          BY <1>7, <1>13, <3>2, <4>1, <4>2, <4>3, <5>1, <5>2
        <5>3. CASE ~dirty[b]
          BY <1>13, <3>2, <4>1, <4>2, <5>1, <5>3
        <5> QED BY <5>2, <5>3
      <4>4. CASE a # old
        <5>1. H = G
          BY <1>6, <3>1, <4>1, <4>4
        <5>2. page[a] = flashHas[a]
          BY <1>13, <4>4
        <5> QED BY <3>2, <4>1, <4>2, <5>1, <5>2
      <4> QED BY <4>3, <4>4
    <3> QED BY <3>3, <3>4
  <2> QED BY <2>1 DEF NewestKept
<1> QED BY <1>5, <1>8, <1>11, <1>18, <1>19 DEF BufInv

-----------------------------------------------------------------------------
(* What the invariant gives.                                               *)

\* InitDataBuf establishes the invariant.
LEMMA InitKeeps == Init => BufInv
<1> SUFFICES ASSUME Init PROVE BufInv
  OBVIOUS
<1> USE DEF Init
<1>1. LruOK
  BY InitList DEF LruOK
<1>2. QueueOK
  BY DEF QueueOK
<1>3. DataOK /\ OneBuffer
  BY DEF DataOK, OneBuffer
<1>4. NewestKept
  BY DEF NewestKept
<1>5. HashOK
  <2>1. hash \in HashType
    BY DEF HashType, Entry
  <2>2. ASSUME NEW h \in Bucket PROVE Linked(Chain(hash, h), <<>>) /\ ToSet(<<>>) = Members[h]
    <3>1. Chain(hash, h).head = None /\ Chain(hash, h).tail = None
      BY DEF Chain
    <3>2. NoDup(<<>>) /\ ToSet(<<>>) = {} /\ Len(<<>>) = 0
      BY DEF NoDup, ToSet
    <3>3. Members[h] = {}
      BY DEF Members
    <3> QED BY <3>1, <3>2, <3>3 DEF Linked
  <2> QED BY <2>1, <2>2 DEF HashOK, Hashed
<1> QED BY <1>1, <1>2, <1>3, <1>4, <1>5 DEF BufInv

\* The invariant holds in every reachable state.
LEMMA BufInvHolds == Spec => []BufInv
<1>1. BufInv /\ [Next]_vars => BufInv'
  <2> SUFFICES ASSUME BufInv, [Next]_vars PROVE BufInv'
    OBVIOUS
  <2>1. ASSUME NEW c \in Commands, HandleNvmeIo(c) PROVE BufInv'
    BY <2>1, AskKeeps
  <2>2. CASE DataBufHit
    BY <2>2, HitKeeps
  <2>3. CASE DataBufMiss
    BY <2>3, MissKeeps
  <2>4. CASE UNCHANGED vars
    BY <2>4 DEF vars, lists, data, BufInv, QueueOK, LruOK, HashOK, Members, DataOK, OneBuffer, NewestKept
  <2> QED BY <2>1, <2>2, <2>3, <2>4 DEF Next
<1> QED BY <1>1, InitKeeps, PTL DEF Spec

\* A list whose links join the entries of a sequence is whole.
LEMMA LinkedWhole ==
  ASSUME NEW l, NEW s, Linked(l, s), NEW S, ToSet(s) = S
  PROVE  Whole(l, S)
<1>1. Walk(l.head, l.next) = s /\ Len(s) = Cardinality(S)
  BY LinkedLength, WalkLinked
<1>2. Len(s) \in Nat /\ (s = <<>> <=> Len(s) = 0) /\ s \in Seq(Buf)
  BY Entries DEF Linked
<1>3. {s[i] : i \in 1..Len(s)} = S
  BY <1>2 DEF ToSet
<1>4. s # <<>> => l.next[l.tail] = None
  <2>1. s # <<>> => Len(s) \in 1..Len(s)
    BY <1>2
  <2> QED BY <2>1 DEF Linked
<1>5. /\ \A i \in 1..Len(s) : l.prev[s[i]] = IF i = 1 THEN None ELSE s[i - 1]
      /\ l.tail = IF s = <<>> THEN None ELSE s[Len(s)]
  BY DEF Linked
<1> QED BY <1>1, <1>3, <1>4, <1>5 DEF Whole

\* Every variable keeps its type: the slice requests stay within the slices of
\* the drive and the links of both kinds of lists are buffers or none.
THEOREM TypesHold == Spec => []TypeOK
<1>1. BufInv => TypeOK
  <2> SUFFICES ASSUME BufInv PROVE TypeOK
    OBVIOUS
  <2>1. sliceReqQ \in Seq(SliceReq)
    BY DEF BufInv, QueueOK
  <2>2. lru \in ListType /\ hash \in HashType
    BY DEF BufInv, LruOK, HashOK, Hashed
  <2>3. DataOK
    BY DEF BufInv
  <2> QED BY <2>1, <2>2, <2>3 DEF TypeOK, DataOK, ListType, HashType, Entry
<1> QED BY <1>1, BufInvHolds, PTL

\* The LRU list always holds every buffer, and the list of each bucket exactly
\* the buffers whose slice belongs there, linked both ways: no order of hits
\* and misses loses a buffer, links it twice or leaves it in the bucket of a
\* slice it no longer holds (CheckDataBufHit, AllocateDataBuf,
\* SelectiveGetFromDataBufHashList, PutToDataBufHashList).
THEOREM ListsAlwaysWhole == Spec => []ListsWhole
<1>1. BufInv => ListsWhole
  <2> SUFFICES ASSUME BufInv PROVE ListsWhole
    OBVIOUS
  <2>1. Whole(lru, Buf)
    BY LinkedWhole DEF BufInv, LruOK
  <2>2. ASSUME NEW h \in Bucket
        PROVE  Whole(Chain(hash, h), {b \in Buf : logicalSliceAddr[b] # None
                                                  /\ FindDataBufHashTableEntry(logicalSliceAddr[b]) = h})
    <3>1. PICK s : Linked(Chain(hash, h), s) /\ ToSet(s) = Members[h]
      BY DEF BufInv, HashOK, Hashed
    <3>2. Members[h] = {b \in Buf : logicalSliceAddr[b] # None /\ FindDataBufHashTableEntry(logicalSliceAddr[b]) = h}
      BY DEF Members
    <3>3. Whole(Chain(hash, h), Members[h])
      BY <3>1, LinkedWhole
    <3> QED BY <3>2, <3>3
  <2> QED BY <2>1, <2>2 DEF ListsWhole
<1> QED BY <1>1, BufInvHolds, PTL

\* The newest content of every block is in the buffer of its slice, and in the
\* flash unless that buffer is dirty: no eviction, no fill and no write of a
\* part loses or revives a content (ReqTransSliceToLowLevel, EvictDataBufEntry,
\* DataReadFromNand).
THEOREM NewestAlwaysKept == Spec => []NewestKept
<1>1. BufInv => NewestKept
  BY DEF BufInv
<1> QED BY <1>1, BufInvHolds, PTL

-----------------------------------------------------------------------------
(* The buffers are a least recently used cache.                            *)

\* The slices the queue asks for, and the buffers in the order they were used.
Asked == [i \in DOMAIN sliceReqQ |-> sliceReqQ[i].lsa]
Recency == Walk(lru.head, lru.next)

\* The sequence s, whose elements are in S, with its k-th element in front,
\* as LruCache says it.
LEMMA FrontBySubSeq ==
  ASSUME NEW S, NEW s \in Seq(S), NEW k \in 1..Len(s)
  PROVE  MovedToFront(s, k) = <<s[k]>> \o SubSeq(s, 1, k - 1) \o SubSeq(s, k + 1, Len(s))
<1>1. PICK x, y, z : x = <<s[k]>> /\ y = SubSeq(s, 1, k - 1) /\ z = SubSeq(s, k + 1, Len(s))
  OBVIOUS
<1>2. x \in Seq(S) /\ y \in Seq(S) /\ z \in Seq(S)
  BY <1>1
<1>3. (x \o y) \o z = x \o (y \o z)
  BY <1>2
<1>4. RemoveAt(s, k) = y \o z
  BY <1>1 DEF RemoveAt
<1> QED BY <1>1, <1>3, <1>4 DEF MovedToFront

\* The LRU list, read along its links.
LEMMA RecencyIs ==
  ASSUME NEW s, Linked(lru, s)
  PROVE  Recency = s
BY LinkedLength, WalkLinked DEF Recency

\* The same of the LRU list a step leaves.
LEMMA NextRecencyIs ==
  ASSUME NEW s, Linked(lru', s)
  PROVE  Recency' = s
<1>1. PICK l : l = lru'
  OBVIOUS
<1>2. Walk(l.head, l.next) = s
  BY <1>1, LinkedLength, WalkLinked
<1>3. Recency' = Walk(lru'.head, lru'.next)
  BY DEF Recency
<1> QED BY <1>1, <1>2, <1>3

\* The slices asked for, when one request is taken.
LEMMA AskedTail ==
  ASSUME QueueOK, sliceReqQ # <<>>, sliceReqQ' = Tail(sliceReqQ)
  PROVE  /\ Asked # <<>> /\ Head(Asked) = Head(sliceReqQ).lsa
         /\ Asked' = Tail(Asked)
<1>1. PICK s : s = sliceReqQ /\ s \in Seq(SliceReq) /\ s # <<>>
  BY DEF QueueOK
<1>2. PICK a : a = [i \in 1..Len(s) |-> s[i].lsa]
  OBVIOUS
<1>3. Asked = a
  BY <1>1, <1>2 DEF Asked
<1>4. Len(s) \in Nat \ {0} /\ Len(a) = Len(s) /\ a \in Seq(Lsa)
  <2>1. \A i \in 1..Len(s) : s[i] \in SliceReq
    BY <1>1
  <2>2. \A i \in 1..Len(s) : s[i].lsa \in Lsa
    BY <2>1 DEF SliceReq
  <2> QED BY <1>1, <1>2, <2>2
<1>5. a # <<>> /\ Head(a) = a[1] /\ Head(s) = s[1] /\ a[1] = s[1].lsa
  BY <1>1, <1>2, <1>4
<1>6. PICK t : t = Tail(s)
  OBVIOUS
<1>7. t \in Seq(SliceReq) /\ Len(t) = Len(s) - 1 /\ DOMAIN t = 1..(Len(s) - 1)
      /\ \A i \in 1..(Len(s) - 1) : t[i] = s[i + 1]
  BY <1>1, <1>4, <1>6
<1>8. Asked' = [i \in 1..(Len(s) - 1) |-> t[i].lsa]
  BY <1>1, <1>6, <1>7 DEF Asked
<1>9. Tail(a) = [i \in 1..(Len(s) - 1) |-> a[i + 1]]
  <2>1. PICK b : b = Tail(a)
    OBVIOUS
  <2>2. b \in Seq(Lsa) /\ Len(b) = Len(s) - 1 /\ \A i \in 1..Len(b) : b[i] = a[i + 1]
    BY <1>4, <1>5, <2>1, HeadTailProperties
  <2>3. b = [i \in 1..Len(b) |-> b[i]]
    BY <2>2
  <2> QED BY <2>1, <2>2, <2>3
<1>10. ASSUME NEW i \in 1..(Len(s) - 1) PROVE t[i].lsa = a[i + 1]
  <2>1. i + 1 \in 1..Len(s)
    BY <1>4
  <2> QED BY <1>2, <1>7, <2>1
<1>11. Asked' = Tail(a)
  BY <1>8, <1>9, <1>10
<1> QED BY <1>1, <1>3, <1>5, <1>11

\* A command asks for slices of the drive.
LEMMA AskRefines ==
  ASSUME NEW c \in Commands, HandleNvmeIo(c)
  PROVE  Asked = <<>> /\ Asked' \in Seq(Lsa) /\ Recency' = Recency /\ logicalSliceAddr' = logicalSliceAddr
<1>1. sliceReqQ = <<>> /\ sliceReqQ' = Split(c) /\ lru' = lru /\ logicalSliceAddr' = logicalSliceAddr
  BY DEF HandleNvmeIo, lists
<1>2. Asked = <<>>
  BY <1>1 DEF Asked
<1>3. PICK s : s = sliceReqQ' /\ s \in Seq(SliceReq)
  BY <1>1, SplitType
<1>4. Asked' = [i \in 1..Len(s) |-> s[i].lsa]
  BY <1>3 DEF Asked
<1>5. \A i \in 1..Len(s) : s[i].lsa \in Lsa
  <2>1. \A i \in 1..Len(s) : s[i] \in SliceReq
    BY <1>3
  <2> QED BY <2>1 DEF SliceReq
<1>6. Len(s) \in Nat
  BY <1>3
<1>7. Asked' \in Seq(Lsa)
  BY <1>4, <1>5, <1>6
<1>8. Recency' = Recency
  BY <1>1 DEF Recency
<1> QED BY <1>1, <1>2, <1>7, <1>8

\* The buffer at place k of the LRU list is used.
LEMMA UseRefines ==
  ASSUME NEW s, Linked(lru, s), NEW k \in 1..Len(s), NEW b, s[k] = b, Linked(lru', MovedToFront(s, k))
  PROVE  Cache!Use(b)
<1>1. Recency = s
  BY RecencyIs
<1>2. Recency' = MovedToFront(s, k)
  BY NextRecencyIs
<1>3. s \in Seq(Buf)
  BY DEF Linked
<1>4. MovedToFront(s, k) = <<b>> \o SubSeq(s, 1, k - 1) \o SubSeq(s, k + 1, Len(s))
  BY <1>3, FrontBySubSeq
<1>5. /\ k \in 1..Len(Recency) /\ Recency[k] = b
      /\ Recency' = <<b>> \o SubSeq(Recency, 1, k - 1) \o SubSeq(Recency, k + 1, Len(Recency))
  BY <1>1, <1>2, <1>4
<1> QED BY <1>5 DEF Cache!Use, Recency

\* DataBufHit is a hit of the cache.
LEMMA HitRefines ==
  ASSUME BufInv, DataBufHit
  PROVE  Cache!Hit
<1>1. PICK s : Linked(lru, s) /\ ToSet(s) = Buf
  BY DEF BufInv, LruOK
<1>2. PICK b : b = Found(Head(sliceReqQ).lsa)
  OBVIOUS
<1>3. PICK k \in 1..Len(s) : s[k] = b /\ Linked(lru', MovedToFront(s, k))
  BY <1>1, <1>2, HitMoves
<1>4. b \in Buf /\ logicalSliceAddr[b] = Head(sliceReqQ).lsa
  BY <1>1, <1>2, HitMoves
<1>5. Cache!Use(b)
  BY <1>1, <1>3, UseRefines
<1>6. Asked # <<>> /\ Head(Asked) = Head(sliceReqQ).lsa /\ Asked' = Tail(Asked)
  BY AskedTail DEF BufInv, DataBufHit
<1>7. b \in Cache!Holders(Head(Asked))
  BY <1>4, <1>6 DEF Cache!Holders
<1>8. logicalSliceAddr' = logicalSliceAddr
  BY DEF DataBufHit
<1> QED BY <1>5, <1>6, <1>7, <1>8 DEF Cache!Hit, Asked

\* DataBufMiss is a miss of the cache.
LEMMA MissRefines ==
  ASSUME BufInv, DataBufMiss
  PROVE  Cache!Miss
<1>1. PICK s : Linked(lru, s) /\ ToSet(s) = Buf
  BY DEF BufInv, LruOK
<1>2. PICK b : b = lru.tail
  OBVIOUS
<1>3. /\ b = s[Len(s)] /\ Len(s) \in 1..Len(s) /\ Linked(lru', MovedToFront(s, Len(s)))
      /\ \A d \in Buf : logicalSliceAddr[d] # Head(sliceReqQ).lsa
  BY <1>1, <1>2, MissMoves
<1>4. Cache!Use(b)
  BY <1>1, <1>3, UseRefines
<1>5. Asked # <<>> /\ Head(Asked) = Head(sliceReqQ).lsa /\ Asked' = Tail(Asked)
  BY AskedTail DEF BufInv, DataBufMiss
<1>6. Cache!Holders(Head(Asked)) = {}
  BY <1>3, <1>5 DEF Cache!Holders
<1>7. logicalSliceAddr' = [logicalSliceAddr EXCEPT ![b] = Head(Asked)]
  BY <1>2, <1>5 DEF DataBufMiss
<1>8. Recency[Len(Recency)] = b
  BY <1>1, <1>3, RecencyIs
<1> QED BY <1>4, <1>5, <1>6, <1>7, <1>8 DEF Cache!Miss, Asked, Recency

\* The buffers start as a cache that holds nothing.
LEMMA InitRefines ==
  ASSUME Init
  PROVE  Cache!Init
<1>1. PICK s : s = [i \in 1..N |-> i - 1]
  OBVIOUS
<1>2. Linked(lru, s) /\ ToSet(s) = Buf
  BY <1>1, InitList
<1>3. s \in Seq(Buf) /\ Len(s) = Cardinality(Buf)
  BY <1>2, LinkedLength DEF Linked
<1>4. \A b \in Buf : \E i \in 1..Len(s) : s[i] = b
  BY <1>2, <1>3 DEF ToSet
<1>5. Recency = s
  BY <1>2, RecencyIs
<1>6. Asked = <<>> /\ logicalSliceAddr = [b \in Buf |-> None]
  BY DEF Init, Asked
<1>7. /\ Recency \in Seq(Buf) /\ Len(Recency) = Cardinality(Buf)
      /\ \A b \in Buf : \E i \in 1..Len(Recency) : Recency[i] = b
  BY <1>3, <1>4, <1>5
\* The cache counts as the buffers do.
<1>8. Cache!Cardinality(Buf) = Cardinality(Buf)
  BY Zenon DEF Cache!Cardinality, Cardinality, Cache!IsFiniteSet, IsFiniteSet
<1> QED BY <1>6, <1>7, <1>8, Zenon DEF Cache!Init, Asked, Recency

\* The buffers are a least recently used cache of slices: CheckDataBufHit finds
\* the buffer of a slice whenever there is one, so that no slice gets a second
\* one, and AllocateDataBuf gives away the buffer used the longest ago.
THEOREM ImplementsLruCacheHolds == Spec => ImplementsLruCache
<1>1. Init => Cache!Init
  BY InitRefines
<1>2. BufInv /\ [Next]_vars => [Cache!Next]_<<Asked, Recency, logicalSliceAddr>>
  <2> SUFFICES ASSUME BufInv, [Next]_vars
               PROVE  Cache!Next \/ UNCHANGED <<Asked, Recency, logicalSliceAddr>>
    OBVIOUS
  <2>1. ASSUME NEW c \in Commands, HandleNvmeIo(c) PROVE Cache!Next
    <3>1. Asked = <<>> /\ Asked' \in Seq(Lsa) /\ Recency' = Recency /\ logicalSliceAddr' = logicalSliceAddr
      BY <2>1, AskRefines
    <3> QED BY <3>1 DEF Cache!Next, Cache!Ask, Asked, Recency
  <2>2. CASE DataBufHit
    BY <2>2, HitRefines DEF Cache!Next
  <2>3. CASE DataBufMiss
    BY <2>3, MissRefines DEF Cache!Next
  <2>4. CASE UNCHANGED vars
    <3>1. sliceReqQ' = sliceReqQ /\ lru' = lru /\ logicalSliceAddr' = logicalSliceAddr
      BY <2>4 DEF vars, lists
    <3>2. Asked' = Asked /\ Recency' = Recency
      BY <3>1 DEF Asked, Recency
    <3> QED BY <3>1, <3>2
  <2> QED BY <2>1, <2>2, <2>3, <2>4 DEF Next
<1> QED BY <1>1, <1>2, BufInvHolds, PTL DEF Spec, ImplementsLruCache, Cache!Spec, Asked, Recency
=============================================================================
