---------------------------- MODULE CommonLemmas ----------------------------
(***************************************************************************)
(* Lemmas the proofs of several components need: quotients and remainders, *)
(* which the prover does not know for a divisor that is a variable, least  *)
(* and greatest numbers, queues as sequences without repetition, and       *)
(* doubly linked lists, alone and in a table.                              *)
(***************************************************************************)
EXTENDS Integers, Sequences, FiniteSets, SequencesExt, SequenceTheorems, FiniteSetTheorems,
        WellFoundedInduction, TLAPS

-----------------------------------------------------------------------------
(* Quotients and remainders: counters that wrap, blocks that are grouped   *)
(* into slices, addresses.                                                 *)

\* What the two operators mean.
LEMMA Division ==
  ASSUME NEW n \in Nat, NEW w \in Nat, w > 0
  PROVE  n % w \in 0..(w - 1) /\ n \div w \in Nat /\ n = w * (n \div w) + (n % w)
BY SMT

\* A number of the next turn is greater by a turn.
LEMMA NextTurn ==
  ASSUME NEW p \in Nat, NEW q \in Nat, NEW w \in Nat, p < q
  PROVE  w * p + w <= w * q
BY SMT

\* Turns and place determine a number and are determined by it.
LEMMA DivisionUnique ==
  ASSUME NEW w \in Nat, w > 0, NEW p \in Nat, NEW q \in Nat,
         NEW r \in 0..(w - 1), NEW s \in 0..(w - 1), w * p + r = w * q + s
  PROVE  p = q /\ r = s
<1>1. ~(p < q)
  BY NextTurn, SMT
<1>2. ~(q < p)
  BY NextTurn, SMT
<1> QED BY <1>1, <1>2, SMT

\* One more: the remainder wraps where the quotient grows.
LEMMA CountOne ==
  ASSUME NEW n \in Nat, NEW w \in Nat, w > 0
  PROVE  /\ (n + 1) % w = ((n % w) + 1) % w
         /\ (n + 1) \div w = IF n % w > ((n % w) + 1) % w \/ w = 1 THEN (n \div w) + 1 ELSE n \div w
<1> DEFINE r == n % w  p == n \div w
<1>1. r \in 0..(w - 1) /\ p \in Nat /\ n = w * p + r
  BY Division
<1> DEFINE m == n + 1
<1>2. m \in Nat /\ m % w \in 0..(w - 1) /\ m \div w \in Nat /\ m = w * (m \div w) + (m % w)
  BY Division
<1> HIDE DEF r, p, m
<1>3. CASE r = w - 1
  <2>1. w * (p + 1) + 0 = m
    BY <1>1, <1>3, SMT DEF m
  <2> DEFINE p1 == p + 1  q == m \div w  s == m % w
  <2>4. p1 \in Nat /\ q \in Nat /\ 0 \in 0..(w - 1) /\ s \in 0..(w - 1) /\ w * p1 + 0 = w * q + s
    BY <2>1, <1>1, <1>2, SMT
  <2>5. p1 = q /\ 0 = s
    <3> HIDE DEF p1, q, s
    <3> QED BY <2>4, DivisionUnique
  <2>2. m \div w = p + 1 /\ m % w = 0
    BY <2>5
  <2>3. (r + 1) % w = 0
    BY <1>3, <1>1, SMT
  <2> QED BY <2>2, <2>3, <1>3, <1>1, SMT DEF m, r, p
<1>4. CASE r # w - 1
  <2>1. w * p + (r + 1) = m /\ r + 1 \in 0..(w - 1) /\ w # 1
    BY <1>1, <1>4, SMT DEF m
  <2>2. m \div w = p /\ m % w = r + 1
    BY <2>1, <1>1, <1>2, DivisionUnique, SMT
  <2>3. (r + 1) % w = r + 1
    BY <2>1, SMT
  <2> QED BY <2>2, <2>3, <2>1, <1>1, SMT DEF m, r, p
<1> QED BY <1>3, <1>4

\* Numbers less than a turn apart are equal if their remainders are.
LEMMA SameRemainder ==
  ASSUME NEW m \in Nat, NEW n \in Nat, NEW w \in Nat, w > 0, m <= n, n < m + w, m % w = n % w
  PROVE  m = n
<1>1. m = w * (m \div w) + (m % w) /\ m \div w \in Nat /\ m % w \in 0..(w - 1)
  BY Division
<1>2. n = w * (n \div w) + (n % w) /\ n \div w \in Nat
  BY Division
<1>3. ~(m \div w < n \div w)
  BY <1>1, <1>2, NextTurn, SMT
<1>4. ~(n \div w < m \div w)
  BY <1>1, <1>2, NextTurn, SMT
<1>5. m \div w = n \div w
  BY <1>1, <1>2, <1>3, <1>4, SMT
<1> QED BY <1>1, <1>2, <1>5

\* What a turn and a place spell, they can be read from again.
LEMMA TurnAndPlace ==
  ASSUME NEW w \in Nat, w > 0, NEW p \in Nat, NEW r \in 0..(w - 1)
  PROVE  (w * p + r) \div w = p /\ (w * p + r) % w = r
<1> DEFINE n == w * p + r
<1>1. n \in Nat
  <2>1. w * p \in Nat
    BY SMT
  <2> QED BY <2>1
<1>2. n % w \in 0..(w - 1) /\ n \div w \in Nat /\ n = w * (n \div w) + (n % w)
  <2> HIDE DEF n
  <2> QED BY <1>1, Division
<1>3. w * p + r = w * (n \div w) + (n % w)
  BY <1>2
<1> DEFINE q == n \div w  s == n % w
<1> HIDE DEF n, q, s
<1>4. q \in Nat /\ s \in 0..(w - 1) /\ w * p + r = w * q + s
  BY <1>2, <1>3 DEF q, s
<1>5. p = q /\ r = s
  BY <1>4, DivisionUnique
<1> QED BY <1>5 DEF n, q, s

-----------------------------------------------------------------------------
(* The least and the greatest of a set of numbers.                         *)

\* A set of numbers that is not empty has a least one.
LEMMA MinOf ==
  ASSUME NEW S \in SUBSET Nat, S # {}
  PROVE  Min(S) \in S /\ \A y \in S : Min(S) <= y
<1> DEFINE R == {ss \in Nat \X Nat : ss[1] < ss[2]}
<1>1. IsWellFoundedOn(R, Nat)
  BY NatLessThanWellFounded DEF OpToRel
<1>2. \E x \in S : \A y \in S : ~ (<<y, x>> \in R)
  <2> HIDE DEF R
  <2> QED BY <1>1, WFMin
<1>3. \E x \in S : \A y \in S : x <= y
  <2>1. PICK x \in S : \A y \in S : ~ (<<y, x>> \in R)
    BY <1>2
  <2>2. \A y \in S : x <= y
    <3> TAKE y \in S
    <3>1. ~(y < x)
      BY <2>1
    <3> QED BY <3>1
  <2> QED BY <2>2
<1> QED BY <1>3 DEF Min

\* A set of numbers with a bound that is not empty has a greatest one.
LEMMA MaxOf ==
  ASSUME NEW S \in SUBSET Nat, S # {}, NEW b \in Nat, \A y \in S : y <= b
  PROVE  Max(S) \in S /\ \A y \in S : y <= Max(S)
<1> DEFINE T == {b - y : y \in S}
<1>1. T \in SUBSET Nat /\ T # {}
  <2>1. \A y \in S : b - y \in Nat
    <3> TAKE y \in S
    <3>1. y \in Nat /\ y <= b /\ b \in Nat
      OBVIOUS
    <3> QED BY <3>1
  <2>2. T # {}
    OBVIOUS
  <2> QED BY <2>1, <2>2
<1>2. PICK m \in T : \A t \in T : m <= t
  <2> HIDE DEF T
  <2> QED BY <1>1, MinOf
<1>3. PICK x \in S : m = b - x
  BY <1>2
<1>4. \A y \in S : x >= y
  <2> TAKE y \in S
  <2>1. b - y \in T
    OBVIOUS
  <2>2. m <= b - y
    BY <1>2, <2>1
  <2>3. x \in Nat /\ y \in Nat /\ b \in Nat
    OBVIOUS
  <2> QED BY <1>3, <2>2, <2>3
<1>5. Max(S) \in S /\ \A y \in S : Max(S) >= y
  BY <1>4 DEF Max
<1> QED BY <1>5

-----------------------------------------------------------------------------
(* Queues as sequences without repetition.                                 *)

\* No element occurs twice.
NoDup(s) == \A i, j \in 1..Len(s) : s[i] = s[j] => i = j

\* A request not in a queue may be appended to it.
LEMMA AppendQueue ==
  ASSUME NEW S, NEW s \in Seq(S), NEW e \in S, NoDup(s), e \notin ToSet(s)
  PROVE  /\ Append(s, e) \in Seq(S)
         /\ NoDup(Append(s, e))
         /\ ToSet(Append(s, e)) = ToSet(s) \cup {e}
  BY DEF NoDup, ToSet

\* The sequence t is s without its k-th element.
TakenOut(s, t, k) ==
  /\ k \in 1..Len(s)
  /\ Len(t) = Len(s) - 1
  /\ \A i \in 1..(Len(s) - 1) : t[i] = IF i < k THEN s[i] ELSE s[i + 1]

\* A queue from which one element was taken.
LEMMA ShortQueue ==
  ASSUME NEW S, NEW s \in Seq(S), NEW t \in Seq(S), NEW k, NoDup(s), TakenOut(s, t, k)
  PROVE  NoDup(t) /\ ToSet(t) = ToSet(s) \ {s[k]}
<1> USE DEF TakenOut
<1>1. NoDup(t)
  <2>1. ASSUME NEW i \in 1..Len(t), NEW j \in 1..Len(t), t[i] = t[j] PROVE i = j
    <3>1. PICK m \in 1..Len(s) : s[m] = t[i] /\ m = IF i < k THEN i ELSE i + 1
      OBVIOUS
    <3>2. PICK n \in 1..Len(s) : s[n] = t[j] /\ n = IF j < k THEN j ELSE j + 1
      OBVIOUS
    <3>3. m = n
      BY <2>1, <3>1, <3>2 DEF NoDup
    <3> QED BY <3>1, <3>2, <3>3
  <2> QED BY <2>1 DEF NoDup
<1>2. ToSet(t) \subseteq ToSet(s) \ {s[k]}
  BY DEF NoDup, ToSet
<1>3. ASSUME NEW x \in ToSet(s) \ {s[k]} PROVE x \in ToSet(t)
  <2>1. PICK i \in 1..Len(s) : s[i] = x
    BY DEF ToSet
  <2>2. CASE i < k
    BY <2>1, <2>2 DEF ToSet
  <2>3. CASE i > k
    <3>1. i - 1 \in 1..(Len(s) - 1) /\ t[i - 1] = x
      BY <2>1, <2>3
    <3> QED BY <3>1 DEF ToSet
  <2> QED BY <2>1, <2>2, <2>3
<1> QED BY <1>1, <1>2, <1>3

\* What is left of a queue when its head is taken.
LEMMA TailQueue ==
  ASSUME NEW S, NEW s \in Seq(S), NoDup(s), s # <<>>
  PROVE  /\ Tail(s) \in Seq(S)
         /\ Head(s) \in S
         /\ Head(s) \in ToSet(s)
         /\ NoDup(Tail(s))
         /\ ToSet(Tail(s)) = ToSet(s) \ {Head(s)}
<1> DEFINE t == Tail(s)
<1>1. Len(s) \in Nat \ {0} /\ Head(s) = s[1] /\ DOMAIN s = 1..Len(s)
  OBVIOUS
<1>2. t \in Seq(S) /\ Head(s) \in S /\ TakenOut(s, t, 1)
  BY <1>1, HeadTailProperties DEF TakenOut
<1>3. Head(s) \in ToSet(s)
  BY <1>1 DEF ToSet
<1> HIDE DEF t
<1>4. NoDup(t) /\ ToSet(t) = ToSet(s) \ {Head(s)}
  BY <1>1, <1>2, ShortQueue
<1> QED BY <1>2, <1>3, <1>4 DEF t

\* The front of a queue, and its last element.
LEMMA FrontQueue ==
  ASSUME NEW S, NEW s \in Seq(S), NoDup(s), s # <<>>
  PROVE  /\ SubSeq(s, 1, Len(s) - 1) \in Seq(S)
         /\ s[Len(s)] \in S
         /\ s[Len(s)] \in ToSet(s)
         /\ NoDup(SubSeq(s, 1, Len(s) - 1))
         /\ ToSet(SubSeq(s, 1, Len(s) - 1)) = ToSet(s) \ {s[Len(s)]}
<1> DEFINE t == SubSeq(s, 1, Len(s) - 1)
<1>1. Len(s) \in Nat \ {0} /\ s[Len(s)] \in S /\ DOMAIN s = 1..Len(s)
  OBVIOUS
<1>2. t \in Seq(S) /\ TakenOut(s, t, Len(s))
  BY <1>1 DEF TakenOut
<1>3. s[Len(s)] \in ToSet(s)
  BY <1>1 DEF ToSet
<1> HIDE DEF t
<1>4. NoDup(t) /\ ToSet(t) = ToSet(s) \ {s[Len(s)]}
  BY <1>2, ShortQueue
<1> QED BY <1>1, <1>2, <1>3, <1>4 DEF t

\* A sequence without its k-th element.
LEMMA RemoveAtTaken ==
  ASSUME NEW S, NEW s \in Seq(S), NEW k \in 1..Len(s)
  PROVE  RemoveAt(s, k) \in Seq(S) /\ TakenOut(s, RemoveAt(s, k), k)
<1> DEFINE u == SubSeq(s, 1, k - 1)
           v == SubSeq(s, k + 1, Len(s))
           t == RemoveAt(s, k)
<1>1. /\ u \in Seq(S) /\ Len(u) = k - 1
      /\ \A i \in 1..(k - 1) : u[i] = s[i]
  OBVIOUS
<1>2. /\ v \in Seq(S) /\ Len(v) = Len(s) - k
      /\ \A i \in 1..(Len(s) - k) : v[i] = s[i + k]
  BY SubSeqProperties
<1>3. t = u \o v
  BY DEF RemoveAt
<1> HIDE DEF u, v, t
<1>4. /\ u \o v \in Seq(S) /\ Len(u \o v) = Len(u) + Len(v)
      /\ \A i \in 1..(Len(u) + Len(v)) :
           (u \o v)[i] = IF i <= Len(u) THEN u[i] ELSE v[i - Len(u)]
  BY <1>1, <1>2, ConcatProperties
<1>5. t \in Seq(S) /\ Len(t) = Len(s) - 1
  BY <1>1, <1>2, <1>3, <1>4
<1>6. ASSUME NEW i \in 1..(Len(s) - 1) PROVE t[i] = IF i < k THEN s[i] ELSE s[i + 1]
  <2>1. t[i] = IF i <= k - 1 THEN u[i] ELSE v[i - (k - 1)]
    BY <1>1, <1>2, <1>3, <1>4
  <2>2. CASE i < k
    BY <1>1, <2>1, <2>2
  <2>3. CASE ~(i < k)
    <3>1. i - (k - 1) \in 1..(Len(s) - k) /\ (i - (k - 1)) + k = i + 1
      BY <2>3
    <3> QED BY <1>2, <2>1, <2>3, <3>1
  <2> QED BY <2>2, <2>3
<1>7. TakenOut(s, t, k)
  BY <1>5, <1>6 DEF TakenOut
<1> QED BY <1>5, <1>7 DEF t

\* Removing a place of a queue without repetition.
LEMMA RemoveAtQueue ==
  ASSUME NEW S, NEW s \in Seq(S), NEW k \in 1..Len(s), NoDup(s)
  PROVE  /\ RemoveAt(s, k) \in Seq(S)
         /\ NoDup(RemoveAt(s, k))
         /\ ToSet(RemoveAt(s, k)) = ToSet(s) \ {s[k]}
BY RemoveAtTaken, ShortQueue

\* A queue without one of its elements.
LEMMA RemoveFirstQueue ==
  ASSUME NEW S, NEW s \in Seq(S), NEW e \in ToSet(s), NoDup(s)
  PROVE  /\ RemoveFirst(s, e) \in Seq(S)
         /\ NoDup(RemoveFirst(s, e))
         /\ ToSet(RemoveFirst(s, e)) = ToSet(s) \ {e}
<1> DEFINE I == {i \in 1..Len(s) : s[i] = e}
           k == Min(I)
<1>1. I # {} /\ I \in SUBSET Nat
  BY DEF ToSet
<1>2. k \in 1..Len(s) /\ s[k] = e
  <2>1. k \in I
    <3> HIDE DEF I
    <3> QED BY <1>1, MinOf
  <2> QED BY <2>1
<1>3. RemoveFirst(s, e) = RemoveAt(s, k)
  BY <1>1 DEF RemoveFirst, SelectInSeq
<1> HIDE DEF I, k
<1> QED BY <1>2, <1>3, RemoveAtQueue

\* Removing an element leaves a sequence of the same set.
LEMMA RemoveFirstType ==
  ASSUME NEW S, NEW s \in Seq(S), NEW e
  PROVE  RemoveFirst(s, e) \in Seq(S)
<1> DEFINE I == {i \in 1..Len(s) : s[i] = e}
           k == Min(I)
<1>1. CASE \E i \in 1..Len(s) : s[i] = e
  <2>1. I # {} /\ I \in SUBSET Nat
    BY <1>1
  <2>2. k \in 1..Len(s)
    <3>1. k \in I
      <4> HIDE DEF I
      <4> QED BY <2>1, MinOf
    <3> QED BY <3>1
  <2>3. RemoveFirst(s, e) = RemoveAt(s, k)
    BY <1>1, <2>1 DEF RemoveFirst, SelectInSeq
  <2> HIDE DEF I, k
  <2>4. SubSeq(s, 1, k - 1) \in Seq(S) /\ SubSeq(s, k + 1, Len(s)) \in Seq(S)
    BY <2>2, SubSeqProperties
  <2> QED BY <2>3, <2>4 DEF RemoveAt
<1>2. CASE ~ \E i \in 1..Len(s) : s[i] = e
  BY <1>2 DEF RemoveFirst
<1> QED BY <1>1, <1>2

-----------------------------------------------------------------------------
(* The order of the elements of a queue.                                   *)

\* p stands in front of q.
Before(s, p, q) == \E i, j \in 1..Len(s) : i < j /\ s[i] = p /\ s[j] = q

\* The elements of a queue are totally ordered.
LEMMA BeforeTotal ==
  ASSUME NEW S, NEW s \in Seq(S), NEW p \in ToSet(s), NEW q \in ToSet(s), p # q
  PROVE  Before(s, p, q) \/ Before(s, q, p)
<1>1. PICK i \in 1..Len(s), j \in 1..Len(s) : s[i] = p /\ s[j] = q
  BY DEF ToSet
<1>2. i < j \/ j < i
  BY <1>1
<1> QED BY <1>1, <1>2 DEF Before

\* Order in a sequence without repetition is strict.
LEMMA BeforeIrreflexive ==
  ASSUME NEW S, NEW s \in Seq(S), NoDup(s), NEW p, NEW q, Before(s, p, q)
  PROVE  ~Before(s, q, p) /\ p # q /\ p \in ToSet(s) /\ q \in ToSet(s)
<1>1. PICK i \in 1..Len(s), j \in 1..Len(s) : i < j /\ s[i] = p /\ s[j] = q
  BY DEF Before
<1>2. ~Before(s, q, p) /\ p # q
  BY <1>1 DEF Before, NoDup
<1> QED BY <1>1, <1>2 DEF ToSet

\* And transitive.
LEMMA BeforeTransitive ==
  ASSUME NEW S, NEW s \in Seq(S), NoDup(s), NEW p, NEW q, NEW r, Before(s, p, q), Before(s, q, r)
  PROVE  Before(s, p, r)
<1>1. PICK i \in 1..Len(s), j \in 1..Len(s) : i < j /\ s[i] = p /\ s[j] = q
  BY DEF Before
<1>2. PICK k \in 1..Len(s), l \in 1..Len(s) : k < l /\ s[k] = q /\ s[l] = r
  BY DEF Before
<1>3. i < l
  BY <1>1, <1>2 DEF NoDup
<1> QED BY <1>1, <1>2, <1>3 DEF Before

\* The head of a queue stands in front of all others.
LEMMA BeforeHead ==
  ASSUME NEW S, NEW s \in Seq(S), NoDup(s), s # <<>>
  PROVE  /\ \A q \in ToSet(s) : q # Head(s) => Before(s, Head(s), q)
         /\ \A p : ~Before(s, p, Head(s))
<1>1. Len(s) \in Nat \ {0} /\ Head(s) = s[1]
  OBVIOUS
<1>2. ASSUME NEW q \in ToSet(s), q # Head(s) PROVE Before(s, Head(s), q)
  <2>1. PICK j \in 1..Len(s) : s[j] = q
    BY DEF ToSet
  <2>2. 1 < j
    BY <1>1, <1>2, <2>1
  <2> QED BY <1>1, <2>1, <2>2 DEF Before
<1>3. ASSUME NEW p, Before(s, p, Head(s)) PROVE FALSE
  BY <1>1, <1>3 DEF Before, NoDup
<1> QED BY <1>2, <1>3

\* Taking an element out leaves the order of the others.
LEMMA BeforeTakenOut ==
  ASSUME NEW S, NEW s \in Seq(S), NEW t \in Seq(S), NEW k, TakenOut(s, t, k),
         NEW p, NEW q, p # s[k], q # s[k]
  PROVE  Before(t, p, q) <=> Before(s, p, q)
<1> USE DEF TakenOut
<1>1. ASSUME Before(t, p, q) PROVE Before(s, p, q)
  <2>1. PICK i \in 1..Len(t), j \in 1..Len(t) : i < j /\ t[i] = p /\ t[j] = q
    BY <1>1 DEF Before
  <2>2. ASSUME NEW x \in 1..Len(t)
        PROVE  \E m \in 1..Len(s) : s[m] = t[x] /\ m = IF x < k THEN x ELSE x + 1
    <3>1. CASE x < k
      <4>1. x \in 1..Len(s) /\ s[x] = t[x]
        BY <3>1
      <4> QED BY <3>1, <4>1
    <3>2. CASE ~(x < k)
      <4>1. x + 1 \in 1..Len(s) /\ s[x + 1] = t[x]
        BY <3>2
      <4> QED BY <3>2, <4>1
    <3> QED BY <3>1, <3>2
  <2>3. PICK m \in 1..Len(s) : s[m] = p /\ m = IF i < k THEN i ELSE i + 1
    BY <2>1, <2>2
  <2>4. PICK n \in 1..Len(s) : s[n] = q /\ n = IF j < k THEN j ELSE j + 1
    BY <2>1, <2>2
  <2>5. m < n
    BY <2>1, <2>3, <2>4
  <2> QED BY <2>3, <2>4, <2>5 DEF Before
<1>2. ASSUME Before(s, p, q) PROVE Before(t, p, q)
  <2>1. PICK i \in 1..Len(s), j \in 1..Len(s) : i < j /\ s[i] = p /\ s[j] = q
    BY <1>2 DEF Before
  <2>2. i # k /\ j # k
    BY <2>1
  <2>3. ASSUME NEW x \in 1..Len(s), x # k
        PROVE  \E m \in 1..Len(t) : t[m] = s[x] /\ m = IF x < k THEN x ELSE x - 1
    <3>1. CASE x < k
      <4>1. x \in 1..Len(t) /\ t[x] = s[x]
        BY <3>1
      <4> QED BY <3>1, <4>1
    <3>2. CASE ~(x < k)
      <4>1. x - 1 \in 1..Len(t) /\ t[x - 1] = s[x]
        BY <2>3, <3>2
      <4> QED BY <3>2, <4>1
    <3> QED BY <3>1, <3>2
  <2>4. PICK m \in 1..Len(t), n \in 1..Len(t) :
          /\ t[m] = p /\ m = IF i < k THEN i ELSE i - 1
          /\ t[n] = q /\ n = IF j < k THEN j ELSE j - 1
    BY <2>1, <2>2, <2>3
  <2>5. m < n
    BY <2>1, <2>2, <2>4
  <2> QED BY <2>4, <2>5 DEF Before
<1> QED BY <1>1, <1>2

\* Taking the head leaves the order of the others.
LEMMA BeforeTail ==
  ASSUME NEW S, NEW s \in Seq(S), s # <<>>, NEW p, NEW q, p # Head(s), q # Head(s)
  PROVE  Before(Tail(s), p, q) <=> Before(s, p, q)
<1>1. Len(s) \in Nat \ {0} /\ Head(s) = s[1] /\ Tail(s) \in Seq(S)
  OBVIOUS
<1>2. TakenOut(s, Tail(s), 1)
  BY <1>1, HeadTailProperties DEF TakenOut
<1> DEFINE t == Tail(s)
<1> HIDE DEF t
<1>3. t \in Seq(S) /\ TakenOut(s, t, 1)
  BY <1>1, <1>2 DEF t
<1>4. Before(t, p, q) <=> Before(s, p, q)
  BY <1>1, <1>3, BeforeTakenOut
<1> QED BY <1>4 DEF t

\* An appended element stands behind all others.
LEMMA BeforeAppend ==
  ASSUME NEW S, NEW s \in Seq(S), NEW e \in S, e \notin ToSet(s), NEW p, NEW q
  PROVE  Before(Append(s, e), p, q) <=> Before(s, p, q) \/ (p \in ToSet(s) /\ q = e)
<1> DEFINE t == Append(s, e)
<1>1. /\ Len(s) \in Nat /\ Len(t) = Len(s) + 1 /\ t[Len(s) + 1] = e
      /\ \A i \in 1..Len(s) : t[i] = s[i] /\ s[i] # e
  BY DEF ToSet
<1> HIDE DEF t
<1>2. ASSUME Before(t, p, q) PROVE Before(s, p, q) \/ (p \in ToSet(s) /\ q = e)
  <2>1. PICK i \in 1..Len(t), j \in 1..Len(t) : i < j /\ t[i] = p /\ t[j] = q
    BY <1>2 DEF Before
  <2>2. i \in 1..Len(s) /\ s[i] = p
    BY <1>1, <2>1
  <2>3. CASE j = Len(s) + 1
    BY <1>1, <2>1, <2>2, <2>3 DEF ToSet
  <2>4. CASE j # Len(s) + 1
    <3>1. j \in 1..Len(s) /\ s[j] = q
      BY <1>1, <2>1, <2>4
    <3> QED BY <2>1, <2>2, <3>1 DEF Before
  <2> QED BY <2>3, <2>4
<1>3. ASSUME Before(s, p, q) PROVE Before(t, p, q)
  BY <1>1, <1>3 DEF Before
<1>4. ASSUME p \in ToSet(s), q = e PROVE Before(t, p, q)
  <2>1. PICK i \in 1..Len(s) : s[i] = p
    BY <1>4 DEF ToSet
  <2>2. i \in 1..Len(t) /\ Len(s) + 1 \in 1..Len(t) /\ i < Len(s) + 1 /\ t[i] = p
    BY <1>1, <2>1
  <2> QED BY <1>1, <1>4, <2>2 DEF Before
<1> QED BY <1>2, <1>3, <1>4 DEF t

-----------------------------------------------------------------------------
(* Doubly linked lists: records of a head, a tail and the links prev and    *)
(* next of every possible entry, with nil for no entry.                     *)

\* An entry leaves from the body, the tail or the head, or as the only one.
UnlinkOf(l, b, nil) ==
  LET p == l.prev[b]  n == l.next[b] IN
  [head |-> IF p = nil THEN n ELSE l.head,
   tail |-> IF n = nil THEN p ELSE l.tail,
   prev |-> IF n = nil THEN l.prev ELSE [l.prev EXCEPT ![n] = p],
   next |-> IF p = nil THEN l.next ELSE [l.next EXCEPT ![p] = n]]

\* An entry enters at the tail.
PushTailOf(l, b, nil) ==
  [head |-> IF l.tail = nil THEN b ELSE l.head,
   tail |-> b,
   prev |-> [l.prev EXCEPT ![b] = l.tail],
   next |-> IF l.tail = nil THEN [l.next EXCEPT ![b] = nil]
            ELSE [l.next EXCEPT ![b] = nil, ![l.tail] = b]]

\* The entries met from the head on, at most so many.
WalkOf(head, next, bound, nil) ==
  LET at[i \in 1..bound] == IF i = 1 THEN head
                            ELSE IF at[i - 1] = nil THEN nil ELSE next[at[i - 1]]
  IN  [i \in 1..Cardinality({j \in 1..bound : at[j] # nil}) |-> at[i]]

\* The links of list l join the entries of sequence s in their order.
LinkedIn(l, s, S, nil) ==
  /\ s \in Seq(S) /\ NoDup(s)
  /\ l.head = IF s = <<>> THEN nil ELSE s[1]
  /\ l.tail = IF s = <<>> THEN nil ELSE s[Len(s)]
  /\ \A i \in 1..Len(s) : /\ l.prev[s[i]] = IF i = 1 THEN nil ELSE s[i - 1]
                          /\ l.next[s[i]] = IF i = Len(s) THEN nil ELSE s[i + 1]

\* What the entries are.
LEMMA EntriesIn ==
  ASSUME NEW S, NEW nil, nil \notin S,
         NEW l, NEW s, LinkedIn(l, s, S, nil)
  PROVE  /\ Len(s) \in Nat /\ (s = <<>> <=> Len(s) = 0)
         /\ \A i \in 1..Len(s) : s[i] \in S /\ s[i] # nil /\ s[i] \in ToSet(s)
<1>1. s \in Seq(S)
  BY DEF LinkedIn
<1>2. \A b \in S : b # nil
  OBVIOUS
<1> QED BY <1>1, <1>2 DEF ToSet

\* Walking along the links from the head, the entries are met in their order.
LEMMA WalkLinkedIn ==
  ASSUME NEW S, NEW nil, nil \notin S, NEW bound \in Nat \ {0},
         NEW l, NEW s, LinkedIn(l, s, S, nil), Len(s) <= bound
  PROVE  WalkOf(l.head, l.next, bound, nil) = s
<1> DEFINE g == [i \in 1..bound |-> IF i <= Len(s) THEN s[i] ELSE nil]
           F(f) == [i \in 1..bound |-> IF i = 1 THEN l.head ELSE IF f[i - 1] = nil THEN nil ELSE l.next[f[i - 1]]]
           n == Len(s)
<1>1. /\ n \in Nat /\ (s = <<>> <=> n = 0) /\ bound \in Nat /\ n <= bound /\ bound > 0
      /\ \A i \in 1..n : s[i] # nil
  BY EntriesIn
<1>2. /\ l.head = IF n = 0 THEN nil ELSE s[1]
      /\ \A i \in 1..n : l.next[s[i]] = IF i = n THEN nil ELSE s[i + 1]
  BY <1>1 DEF LinkedIn
<1>3. ASSUME NEW i \in 1..bound, NEW f, i = 1 \/ f[i - 1] = g[i - 1]
      PROVE  F(f)[i] = g[i]
  <2>1. i \in Nat /\ g[i] = IF i <= n THEN s[i] ELSE nil
    BY <1>1
  <2>2. F(f)[i] = IF i = 1 THEN l.head ELSE IF f[i - 1] = nil THEN nil ELSE l.next[f[i - 1]]
    OBVIOUS
  <2> HIDE DEF F
  <2>3. CASE i = 1
    BY <1>1, <1>2, <2>1, <2>2, <2>3
  <2>4. CASE i # 1
    <3>1. i - 1 \in 1..bound /\ f[i - 1] = IF i - 1 <= n THEN s[i - 1] ELSE nil
      BY <1>1, <1>3, <2>1, <2>4
    <3>2. CASE i - 1 <= n
      <4>1. i - 1 \in 1..n /\ s[i - 1] # nil /\ F(f)[i] = l.next[s[i - 1]]
        BY <1>1, <2>1, <2>2, <2>4, <3>1, <3>2
      <4>2. l.next[s[i - 1]] = IF i - 1 = n THEN nil ELSE s[(i - 1) + 1]
        BY <1>2, <4>1
      <4> QED BY <1>1, <2>1, <4>1, <4>2
    <3>3. CASE ~(i - 1 <= n)
      BY <1>1, <2>1, <2>2, <2>4, <3>1, <3>3
    <3> QED BY <3>2, <3>3
  <2> QED BY <2>3, <2>4
<1>4. g = F(g)
  <2>1. \A i \in 1..bound : F(g)[i] = g[i]
    BY <1>3
  <2>2. DOMAIN F(g) = 1..bound /\ DOMAIN g = 1..bound
    OBVIOUS
  <2>3. F(g) = [i \in 1..bound |-> F(g)[i]] /\ g = [i \in 1..bound |-> g[i]]
    OBVIOUS
  <2> HIDE DEF F, g
  <2> QED BY <2>1, <2>3
<1>5. ASSUME NEW f, f = F(f) PROVE f = g
  <2> DEFINE D == {i \in 1..bound : f[i] # g[i]}
  <2>1. D = {}
    <3> SUFFICES ASSUME D # {} PROVE FALSE
      OBVIOUS
    <3>1. D \in SUBSET Nat
      BY <1>1
    <3>2. PICK i \in D : \A j \in D : i <= j
      <4> HIDE DEF D
      <4> QED BY <3>1, MinOf
    <3>3. i \in 1..bound /\ f[i] # g[i] /\ i \in Nat
      BY <1>1
    <3>4. i # 1 /\ f[i - 1] # g[i - 1]
      <4>1. f[i] = F(f)[i]
        BY <1>5
      <4>2. i = 1 \/ f[i - 1] = g[i - 1] => F(f)[i] = g[i]
        BY <1>3, <3>3
      <4> HIDE DEF F, g
      <4> QED BY <3>3, <4>1, <4>2
    <3>5. i - 1 \in D
      BY <1>1, <3>3, <3>4
    <3> QED BY <3>2, <3>3, <3>5
  <2>2. f = [i \in 1..bound |-> f[i]] /\ g = [i \in 1..bound |-> g[i]]
    BY <1>5
  <2> HIDE DEF F, g
  <2> QED BY <2>1, <2>2
<1>6. {j \in 1..bound : g[j] # nil} = 1..n
  BY <1>1
<1>7. Cardinality(1..n) = n
  <2> HIDE DEF n
  <2> QED BY <1>1, FS_Interval
<1>8. [i \in 1..n |-> g[i]] = s
  <2>1. \A i \in 1..n : g[i] = s[i]
    BY <1>1
  <2>2. s = [i \in 1..n |-> s[i]]
    BY DEF LinkedIn
  <2> HIDE DEF g
  <2> QED BY <2>1, <2>2
<1> DEFINE at == CHOOSE f : f = F(f)
<1>9. at = g
  <2> HIDE DEF F, g
  <2> QED BY <1>4, <1>5
<1>10. WalkOf(l.head, l.next, bound, nil) = [i \in 1..Cardinality({j \in 1..bound : at[j] # nil}) |-> at[i]]
  BY DEF WalkOf
<1> HIDE DEF at, g, n
<1> QED BY <1>6, <1>7, <1>8, <1>9, <1>10

\* A link is an entry or none.
EntryOf(S, nil) == S \cup {nil}

\* The records of a list.
ListTypeOf(S, nil) == [head : EntryOf(S, nil), tail : EntryOf(S, nil), prev : [S -> EntryOf(S, nil)], next : [S -> EntryOf(S, nil)]]

\* The links of m are those of l, but for the entries K.
KeepsLinks(l, m, K, S) ==
  \A c \in S : c \notin K => m.prev[c] = l.prev[c] /\ m.next[c] = l.next[c]

\* What unlinking changes.
LEMMA UnlinkFieldsIn ==
  ASSUME NEW S, NEW nil, nil \notin S,
         NEW l \in ListTypeOf(S, nil), NEW b \in S, NEW m, m = UnlinkOf(l, b, nil),
         NEW p, p = l.prev[b], NEW n, n = l.next[b]
  PROVE  /\ m \in ListTypeOf(S, nil)
         /\ m.head = IF p = nil THEN n ELSE l.head
         /\ m.tail = IF n = nil THEN p ELSE l.tail
         /\ \A c \in S : m.prev[c] = IF n # nil /\ c = n THEN p ELSE l.prev[c]
         /\ \A c \in S : m.next[c] = IF p # nil /\ c = p THEN n ELSE l.next[c]
<1>1. p \in EntryOf(S, nil) /\ n \in EntryOf(S, nil)
  BY DEF ListTypeOf
<1>2. /\ m.head = IF p = nil THEN n ELSE l.head
      /\ m.tail = IF n = nil THEN p ELSE l.tail
      /\ m.prev = IF n = nil THEN l.prev ELSE [l.prev EXCEPT ![n] = p]
      /\ m.next = IF p = nil THEN l.next ELSE [l.next EXCEPT ![p] = n]
      /\ m = [head |-> m.head, tail |-> m.tail, prev |-> m.prev, next |-> m.next]
  BY DEF UnlinkOf
<1>3. l.prev \in [S -> EntryOf(S, nil)] /\ l.next \in [S -> EntryOf(S, nil)] /\ l.head \in EntryOf(S, nil) /\ l.tail \in EntryOf(S, nil)
  BY DEF ListTypeOf
<1>4. m.prev \in [S -> EntryOf(S, nil)] /\ \A c \in S : m.prev[c] = IF n # nil /\ c = n THEN p ELSE l.prev[c]
  <2>1. CASE n = nil
    BY <1>2, <1>3, <2>1
  <2>2. CASE n # nil
    <3>1. n \in S /\ m.prev = [l.prev EXCEPT ![n] = p]
      BY <1>1, <1>2, <2>2 DEF EntryOf
    <3> QED BY <1>1, <1>3, <2>2, <3>1
  <2> QED BY <2>1, <2>2
<1>5. m.next \in [S -> EntryOf(S, nil)] /\ \A c \in S : m.next[c] = IF p # nil /\ c = p THEN n ELSE l.next[c]
  <2>1. CASE p = nil
    BY <1>2, <1>3, <2>1
  <2>2. CASE p # nil
    <3>1. p \in S /\ m.next = [l.next EXCEPT ![p] = n]
      BY <1>1, <1>2, <2>2 DEF EntryOf
    <3> QED BY <1>1, <1>3, <2>2, <3>1
  <2> QED BY <2>1, <2>2
<1>6. m.head \in EntryOf(S, nil) /\ m.tail \in EntryOf(S, nil)
  BY <1>1, <1>2, <1>3
<1>7. m \in ListTypeOf(S, nil)
  BY <1>2, <1>4, <1>5, <1>6 DEF ListTypeOf
<1> QED BY <1>2, <1>4, <1>5, <1>7

\* An entry that is unlinked is out of the list, wherever it was in it.
LEMMA UnlinkLinkedIn ==
  ASSUME NEW S, NEW nil, nil \notin S,
         NEW l \in ListTypeOf(S, nil), NEW s, LinkedIn(l, s, S, nil), NEW k \in 1..Len(s),
         NEW m, m = UnlinkOf(l, s[k], nil), NEW u, u = RemoveAt(s, k)
  PROVE  m \in ListTypeOf(S, nil) /\ LinkedIn(m, u, S, nil) /\ ToSet(u) = ToSet(s) \ {s[k]} /\ KeepsLinks(l, m, ToSet(s), S)
<1>1. /\ Len(s) \in Nat /\ k \in Nat /\ 1 <= k /\ k <= Len(s) /\ s \in Seq(S) /\ NoDup(s)
      /\ \A i \in 1..Len(s) : s[i] \in S /\ s[i] # nil
  BY EntriesIn DEF LinkedIn
<1>2. /\ u \in Seq(S) /\ NoDup(u) /\ ToSet(u) = ToSet(s) \ {s[k]}
      /\ Len(u) = Len(s) - 1
      /\ \A i \in 1..(Len(s) - 1) : u[i] = IF i < k THEN s[i] ELSE s[i + 1]
  BY <1>1, RemoveAtQueue, RemoveAtTaken DEF TakenOut
<1>3. PICK p, n : p = l.prev[s[k]] /\ n = l.next[s[k]]
  OBVIOUS
<1>4. /\ p = IF k = 1 THEN nil ELSE s[k - 1]
      /\ n = IF k = Len(s) THEN nil ELSE s[k + 1]
  BY <1>3 DEF LinkedIn
<1>5. /\ m \in ListTypeOf(S, nil)
      /\ m.head = IF p = nil THEN n ELSE l.head
      /\ m.tail = IF n = nil THEN p ELSE l.tail
      /\ \A c \in S : m.prev[c] = IF n # nil /\ c = n THEN p ELSE l.prev[c]
      /\ \A c \in S : m.next[c] = IF p # nil /\ c = p THEN n ELSE l.next[c]
  BY <1>1, <1>3, UnlinkFieldsIn
<1>6. (p = nil <=> k = 1) /\ (n = nil <=> k = Len(s))
  BY <1>1, <1>4
<1>7. ASSUME NEW j \in 1..Len(s)
      PROVE  /\ (p # nil /\ s[j] = p) <=> j = k - 1
             /\ (n # nil /\ s[j] = n) <=> j = k + 1
  <2>1. p # nil => k - 1 \in 1..Len(s) /\ p = s[k - 1]
    BY <1>1, <1>4, <1>6
  <2>2. n # nil => k + 1 \in 1..Len(s) /\ n = s[k + 1]
    BY <1>1, <1>4, <1>6
  <2>3. (p # nil /\ s[j] = p) <=> j = k - 1
    BY <1>1, <1>6, <2>1 DEF NoDup
  <2>4. (n # nil /\ s[j] = n) <=> j = k + 1
    BY <1>1, <1>6, <2>2 DEF NoDup
  <2> QED BY <2>3, <2>4
<1>8. ASSUME NEW j \in 1..Len(s)
      PROVE  /\ m.prev[s[j]] = IF j = k + 1 THEN p ELSE IF j = 1 THEN nil ELSE s[j - 1]
             /\ m.next[s[j]] = IF j = k - 1 THEN n ELSE IF j = Len(s) THEN nil ELSE s[j + 1]
  <2>1. /\ l.prev[s[j]] = IF j = 1 THEN nil ELSE s[j - 1]
        /\ l.next[s[j]] = IF j = Len(s) THEN nil ELSE s[j + 1]
    BY DEF LinkedIn
  <2> QED BY <1>1, <1>5, <1>7, <2>1
<1>9. ASSUME NEW i \in 1..Len(u)
      PROVE  /\ m.prev[u[i]] = IF i = 1 THEN nil ELSE u[i - 1]
             /\ m.next[u[i]] = IF i = Len(u) THEN nil ELSE u[i + 1]
  <2>1. i \in Nat /\ 1 <= i /\ i <= Len(s) - 1
    BY <1>1, <1>2
  <2>2. CASE i < k
    <3>1. i \in 1..Len(s) /\ u[i] = s[i]
      BY <1>1, <1>2, <2>1, <2>2
    <3>2. i # 1 => u[i - 1] = s[i - 1]
      BY <1>1, <1>2, <2>1, <2>2
    <3>3. i # Len(u) => u[i + 1] = IF i + 1 < k THEN s[i + 1] ELSE s[i + 2]
      BY <1>1, <1>2, <2>1, <2>2
    <3>4. m.prev[u[i]] = IF i = 1 THEN nil ELSE u[i - 1]
      BY <1>1, <1>8, <2>1, <2>2, <3>1, <3>2
    <3>5. CASE i = k - 1
      <4>1. m.next[u[i]] = n
        BY <1>8, <3>1, <3>5
      <4>2. CASE k = Len(s)
        BY <1>1, <1>2, <1>4, <3>4, <3>5, <4>1, <4>2
      <4>3. CASE k # Len(s)
        <5>1. i # Len(u) /\ u[i + 1] = s[k + 1]
          BY <1>1, <1>2, <2>1, <3>3, <3>5, <4>3
        <5> QED BY <1>4, <3>4, <4>1, <4>3, <5>1
      <4> QED BY <4>2, <4>3
    <3>6. CASE i # k - 1
      <4>1. i + 1 < k /\ i # Len(s) /\ i # Len(u)
        BY <1>1, <1>2, <2>1, <2>2, <3>6
      <4>2. m.next[u[i]] = s[i + 1]
        BY <1>8, <3>1, <3>6, <4>1
      <4> QED BY <3>3, <3>4, <4>1, <4>2
    <3> QED BY <3>5, <3>6
  <2>3. CASE ~(i < k)
    <3>1. i + 1 \in 1..Len(s) /\ u[i] = s[i + 1] /\ i + 1 # k - 1 /\ i + 1 # 1
      BY <1>1, <1>2, <2>1, <2>3
    <3>2. i # Len(u) => u[i + 1] = s[i + 2]
      BY <1>1, <1>2, <2>1, <2>3
    <3>3. /\ m.prev[u[i]] = IF i = k THEN p ELSE s[i]
          /\ m.next[u[i]] = IF i + 1 = Len(s) THEN nil ELSE s[i + 2]
      <4>1. PICK j \in 1..Len(s) : j = i + 1 /\ u[i] = s[j] /\ j # k - 1 /\ j # 1
        BY <3>1
      <4>2. /\ m.prev[s[j]] = IF j = k + 1 THEN p ELSE s[j - 1]
            /\ m.next[s[j]] = IF j = Len(s) THEN nil ELSE s[j + 1]
        BY <1>8, <4>1
      <4>3. (j = k + 1 <=> i = k) /\ j - 1 = i /\ j + 1 = i + 2
        BY <1>1, <2>1, <4>1
      <4> QED BY <4>1, <4>2, <4>3
    <3>4. m.next[u[i]] = IF i = Len(u) THEN nil ELSE u[i + 1]
      BY <1>1, <1>2, <2>1, <3>2, <3>3
    <3>5. i # 1 => u[i - 1] = IF i - 1 < k THEN s[i - 1] ELSE s[i]
      BY <1>1, <1>2, <2>1
    <3>6. CASE i = k
      BY <1>1, <1>4, <2>1, <3>3, <3>4, <3>5, <3>6
    <3>7. CASE i # k
      BY <1>1, <2>1, <2>3, <3>3, <3>4, <3>5, <3>7
    <3> QED BY <3>6, <3>7
  <2> QED BY <2>2, <2>3
<1>10. u = <<>> <=> Len(s) = 1
  BY <1>1, <1>2
<1>11. m.head = IF u = <<>> THEN nil ELSE u[1]
  <2>1. l.head = s[1]
    BY <1>1 DEF LinkedIn
  <2>2. Len(s) # 1 => u[1] = IF 1 < k THEN s[1] ELSE s[2]
    BY <1>1, <1>2
  <2>3. CASE Len(s) = 1
    <3>1. k = 1 /\ k = Len(s)
      BY <1>1, <2>3
    <3> QED BY <1>4, <1>5, <1>10, <2>3, <3>1
  <2>4. CASE Len(s) # 1
    <3>1. u # <<>>
      BY <1>10, <2>4
    <3>2. CASE k = 1
      BY <1>1, <1>4, <1>5, <2>2, <2>4, <3>1, <3>2
    <3>3. CASE k # 1
      BY <1>1, <1>5, <1>6, <2>1, <2>2, <2>4, <3>1, <3>3
    <3> QED BY <3>2, <3>3
  <2> QED BY <2>3, <2>4
<1>12. m.tail = IF u = <<>> THEN nil ELSE u[Len(u)]
  <2>1. l.tail = s[Len(s)]
    BY <1>1 DEF LinkedIn
  <2>2. Len(s) # 1 => u[Len(u)] = IF Len(s) - 1 < k THEN s[Len(s) - 1] ELSE s[Len(s)]
    BY <1>1, <1>2
  <2>3. CASE Len(s) = 1
    <3>1. k = 1 /\ k = Len(s)
      BY <1>1, <2>3
    <3> QED BY <1>4, <1>5, <1>10, <2>3, <3>1
  <2>4. CASE Len(s) # 1
    <3>1. u # <<>>
      BY <1>10, <2>4
    <3>2. CASE k = Len(s)
      BY <1>1, <1>4, <1>5, <2>2, <2>4, <3>1, <3>2
    <3>3. CASE k # Len(s)
      BY <1>1, <1>5, <1>6, <2>1, <2>2, <2>4, <3>1, <3>3
    <3> QED BY <3>2, <3>3
  <2> QED BY <2>3, <2>4
<1>13. KeepsLinks(l, m, ToSet(s), S)
  <2> SUFFICES ASSUME NEW c \in S, c \notin ToSet(s) PROVE m.prev[c] = l.prev[c] /\ m.next[c] = l.next[c]
    BY DEF KeepsLinks
  <2>1. \A i \in 1..Len(s) : s[i] \in ToSet(s)
    BY DEF ToSet
  <2>2. c # p \/ p = nil
    BY <1>1, <1>4, <1>6, <2>1
  <2>3. c # n \/ n = nil
    BY <1>1, <1>4, <1>6, <2>1
  <2> QED BY <1>5, <2>2, <2>3
<1> QED BY <1>2, <1>5, <1>9, <1>11, <1>12, <1>13 DEF LinkedIn

\* An entry that enters at the tail is the last.
LEMMA PushTailLinkedIn ==
  ASSUME NEW S, NEW nil, nil \notin S,
         NEW l \in ListTypeOf(S, nil), NEW s, LinkedIn(l, s, S, nil), NEW b \in S, b \notin ToSet(s),
         NEW m, m = PushTailOf(l, b, nil), NEW t, t = Append(s, b)
  PROVE  m \in ListTypeOf(S, nil) /\ LinkedIn(m, t, S, nil) /\ ToSet(t) = ToSet(s) \cup {b} /\ KeepsLinks(l, m, ToSet(t), S)
<1>1. /\ Len(s) \in Nat /\ s \in Seq(S) /\ NoDup(s) /\ (s = <<>> <=> Len(s) = 0)
      /\ \A i \in 1..Len(s) : s[i] \in S /\ s[i] # nil /\ s[i] # b /\ s[i] \in ToSet(s)
  <2>1. s \in Seq(S) /\ NoDup(s)
    BY DEF LinkedIn
  <2> QED BY <2>1, EntriesIn
<1>2. /\ t \in Seq(S) /\ NoDup(t) /\ ToSet(t) = ToSet(s) \cup {b}
      /\ Len(t) = Len(s) + 1 /\ t # <<>> /\ t[Len(s) + 1] = b
      /\ \A i \in 1..Len(s) : t[i] = s[i]
  BY <1>1, AppendQueue, AppendProperties
<1>3. PICK h : h = l.tail /\ h \in EntryOf(S, nil) /\ h = IF s = <<>> THEN nil ELSE s[Len(s)]
  BY DEF LinkedIn, ListTypeOf
<1>4. /\ m.head = IF h = nil THEN b ELSE l.head
      /\ m.tail = b
      /\ m.prev = [l.prev EXCEPT ![b] = h]
      /\ m.next = IF h = nil THEN [l.next EXCEPT ![b] = nil] ELSE [l.next EXCEPT ![b] = nil, ![h] = b]
      /\ m = [head |-> m.head, tail |-> m.tail, prev |-> m.prev, next |-> m.next]
  BY <1>3 DEF PushTailOf
<1>5. l.prev \in [S -> EntryOf(S, nil)] /\ l.next \in [S -> EntryOf(S, nil)] /\ l.head \in EntryOf(S, nil)
  BY DEF ListTypeOf
<1>6. (h = nil <=> s = <<>>) /\ (s # <<>> => Len(s) \in 1..Len(s))
  <2>1. s # <<>> => Len(s) \in 1..Len(s)
    BY <1>1
  <2> QED BY <1>1, <1>3, <2>1
<1>7. /\ m.prev \in [S -> EntryOf(S, nil)] /\ \A c \in S : m.prev[c] = IF c = b THEN h ELSE l.prev[c]
  BY <1>3, <1>4, <1>5
<1>8. /\ m.next \in [S -> EntryOf(S, nil)]
      /\ \A c \in S : m.next[c] = IF h # nil /\ c = h THEN b ELSE IF c = b THEN nil ELSE l.next[c]
  <2>1. CASE h = nil
    BY <1>4, <1>5, <2>1 DEF EntryOf
  <2>2. CASE h # nil
    <3>1. h \in S /\ h # b
      BY <1>1, <1>3, <1>6, <2>2
    <3>2. m.next = [l.next EXCEPT ![b] = nil, ![h] = b]
      BY <1>4, <2>2
    <3> QED BY <1>5, <2>2, <3>1, <3>2 DEF EntryOf
  <2> QED BY <2>1, <2>2
<1>9. m \in ListTypeOf(S, nil)
  <2>1. m.head \in EntryOf(S, nil) /\ m.tail \in EntryOf(S, nil)
    BY <1>4, <1>5 DEF EntryOf
  <2> QED BY <1>4, <1>7, <1>8, <2>1 DEF ListTypeOf
<1>10. m.head = t[1]
  <2>1. CASE s = <<>>
    BY <1>1, <1>2, <1>4, <1>6, <2>1
  <2>2. CASE s # <<>>
    <3>1. m.head = s[1] /\ 1 \in 1..Len(s)
      BY <1>1, <1>4, <1>6, <2>2 DEF LinkedIn
    <3> QED BY <1>2, <3>1
  <2> QED BY <2>1, <2>2
<1>11. ASSUME NEW i \in 1..Len(t)
       PROVE  /\ m.prev[t[i]] = IF i = 1 THEN nil ELSE t[i - 1]
              /\ m.next[t[i]] = IF i = Len(t) THEN nil ELSE t[i + 1]
  <2>1. CASE i = Len(t)
    <3>1. t[i] = b /\ i = Len(s) + 1
      BY <1>2, <2>1
    <3>2. m.next[b] = nil
      BY <1>1, <1>3, <1>6, <1>8
    <3>3. h = IF i = 1 THEN nil ELSE t[i - 1]
      <4>1. CASE s = <<>>
        BY <1>1, <1>3, <3>1, <4>1
      <4>2. CASE s # <<>>
        <5>1. i # 1 /\ t[Len(s)] = s[Len(s)] /\ i - 1 = Len(s)
          BY <1>1, <1>2, <1>6, <3>1, <4>2
        <5> QED BY <1>3, <4>2, <5>1
      <4> QED BY <4>1, <4>2
    <3> QED BY <1>7, <2>1, <3>1, <3>2, <3>3
  <2>2. CASE i # Len(t)
    <3>1. i \in 1..Len(s) /\ t[i] = s[i]
      BY <1>1, <1>2, <2>2
    <3>2. /\ l.prev[s[i]] = IF i = 1 THEN nil ELSE s[i - 1]
          /\ l.next[s[i]] = IF i = Len(s) THEN nil ELSE s[i + 1]
      BY <3>1 DEF LinkedIn
    <3>3. s[i] \in S /\ s[i] # b /\ s # <<>>
      BY <1>1, <3>1
    <3>4. m.prev[s[i]] = IF i = 1 THEN nil ELSE t[i - 1]
      <4>1. i # 1 => t[i - 1] = s[i - 1]
        BY <1>1, <1>2, <3>1
      <4> QED BY <1>7, <3>2, <3>3, <4>1
    <3>5. s[i] = h <=> i = Len(s)
      BY <1>1, <1>3, <1>6, <3>1, <3>3 DEF NoDup
    <3>6. t[i + 1] = IF i = Len(s) THEN b ELSE s[i + 1]
      BY <1>1, <1>2, <3>1
    <3>7. m.next[s[i]] = t[i + 1]
      BY <1>6, <1>8, <3>2, <3>3, <3>5, <3>6
    <3> QED BY <2>2, <3>1, <3>4, <3>7
  <2> QED BY <2>1, <2>2
<1>12. ASSUME NEW c \in S, c \notin ToSet(s), c # b
       PROVE  m.prev[c] = l.prev[c] /\ m.next[c] = l.next[c]
  <2>1. h # nil => c # h
    BY <1>1, <1>3, <1>6, <1>12
  <2> QED BY <1>7, <1>8, <1>12, <2>1
<1>13. m.tail = t[Len(t)]
  BY <1>2, <1>4
<1>14. KeepsLinks(l, m, ToSet(t), S)
  BY <1>2, <1>12 DEF KeepsLinks
<1> QED BY <1>2, <1>9, <1>10, <1>11, <1>13, <1>14 DEF LinkedIn

\* A list is as long as its set of entries is large.
LEMMA LinkedLengthIn ==
  ASSUME NEW S, NEW nil, nil \notin S, IsFiniteSet(S),
         NEW l, NEW s, LinkedIn(l, s, S, nil)
  PROVE  Len(s) = Cardinality(ToSet(s)) /\ Len(s) <= Cardinality(S)
<1>1. s \in Seq(S) /\ NoDup(s) /\ Len(s) \in Nat
  BY EntriesIn DEF LinkedIn
<1>2. IsFiniteSet(1..Len(s)) /\ Cardinality(1..Len(s)) = Len(s)
  <2>1. PICK n \in Nat : n = Len(s)
    BY <1>1
  <2>2. IsFiniteSet(1..n) /\ Cardinality(1..n) = n
    BY FS_Interval
  <2> QED BY <2>1, <2>2
<1>3. s \in [1..Len(s) -> ToSet(s)] /\ DOMAIN s = 1..Len(s)
  BY <1>1 DEF ToSet
<1>4. s \in Surjection(1..Len(s), ToSet(s)) /\ s \in Injection(1..Len(s), ToSet(s))
  <2>1. \A x \in ToSet(s) : \E i \in 1..Len(s) : s[i] = x
    BY <1>3 DEF ToSet
  <2>2. s \in Surjection(1..Len(s), ToSet(s))
    BY <1>3, <2>1 DEF Surjection
  <2>3. s \in Injection(1..Len(s), ToSet(s))
    BY <1>1, <1>3 DEF Injection, IsInjective, NoDup
  <2> QED BY <2>2, <2>3
<1>5. IsFiniteSet(ToSet(s)) /\ Cardinality(ToSet(s)) = Len(s)
  BY <1>2, <1>4, FS_Surjection
<1>7. ToSet(s) \in SUBSET S
  BY <1>1 DEF ToSet
<1>8. Cardinality(ToSet(s)) <= Cardinality(S)
  BY <1>7, FS_Subset
<1> QED BY <1>5, <1>8

\* A list whose links are as they were is the list it was.
LEMMA LinkedStaysIn ==
  ASSUME NEW S, NEW nil, nil \notin S,
         NEW l, NEW m, NEW s, LinkedIn(l, s, S, nil), m.head = l.head, m.tail = l.tail,
         \A c \in ToSet(s) : m.prev[c] = l.prev[c] /\ m.next[c] = l.next[c]
  PROVE  LinkedIn(m, s, S, nil)
<1>1. \A i \in 1..Len(s) : s[i] \in ToSet(s)
  BY EntriesIn
<1> QED BY <1>1 DEF LinkedIn

-----------------------------------------------------------------------------
(* Tables of such lists, which share the links of the entries.             *)

\* The list at place h of a table, and the table with that list changed.
ChainOf(t, h) == [head |-> t.head[h], tail |-> t.tail[h], prev |-> t.prev, next |-> t.next]
WithChainOf(t, h, l) ==
  [head |-> [t.head EXCEPT ![h] = l.head], tail |-> [t.tail EXCEPT ![h] = l.tail],
   prev |-> l.prev, next |-> l.next]

\* The records of a table of lists.
TableType(G, S, nil) == [head : [G -> EntryOf(S, nil)], tail : [G -> EntryOf(S, nil)], prev : [S -> EntryOf(S, nil)], next : [S -> EntryOf(S, nil)]]

\* The list at every place h is whole and holds the entries M[h].
TableIn(t, M, G, S, nil) ==
  /\ t \in TableType(G, S, nil)
  /\ \A h \in G : \E s : LinkedIn(ChainOf(t, h), s, S, nil) /\ ToSet(s) = M[h]

\* No entry is in two lists.
ApartIn(M, G) == \A g, h \in G : g # h => M[g] \cap M[h] = {}

\* The other lists hold none of the entries K.
ApartBut(M, h, K, G) == \A g \in G : g # h => M[g] \cap K = {}

\* One list of a table changes.
LEMMA ChainChangesIn ==
  ASSUME NEW G, NEW S, NEW nil, nil \notin S,
         NEW t, NEW M, TableIn(t, M, G, S, nil), NEW h \in G, NEW l \in ListTypeOf(S, nil), NEW s, LinkedIn(l, s, S, nil), NEW K,
         KeepsLinks(t, l, K, S), ApartBut(M, h, K, G)
  PROVE  TableIn(WithChainOf(t, h, l), [g \in G |-> IF g = h THEN ToSet(s) ELSE M[g]], G, S, nil)
<1>1. PICK u : u = WithChainOf(t, h, l)
  OBVIOUS
<1>2. /\ t.head \in [G -> EntryOf(S, nil)] /\ t.tail \in [G -> EntryOf(S, nil)]
      /\ l.head \in EntryOf(S, nil) /\ l.tail \in EntryOf(S, nil) /\ l.prev \in [S -> EntryOf(S, nil)] /\ l.next \in [S -> EntryOf(S, nil)]
  BY DEF TableIn, TableType, ListTypeOf
<1>3. /\ u = [head |-> [t.head EXCEPT ![h] = l.head], tail |-> [t.tail EXCEPT ![h] = l.tail],
              prev |-> l.prev, next |-> l.next]
  BY <1>1 DEF WithChainOf
<1>4. u \in TableType(G, S, nil)
  BY <1>2, <1>3 DEF TableType
<1>5. ASSUME NEW g \in G
      PROVE  \E v : LinkedIn(ChainOf(u, g), v, S, nil) /\ ToSet(v) = IF g = h THEN ToSet(s) ELSE M[g]
  <2>1. PICK w : w = ChainOf(u, g)
    OBVIOUS
  <2>2. CASE g = h
    <3>1. w.head = l.head /\ w.tail = l.tail /\ w.prev = l.prev /\ w.next = l.next
      BY <1>2, <1>3, <2>1, <2>2 DEF ChainOf
    <3>2. LinkedIn(w, s, S, nil)
      BY <3>1, LinkedStaysIn
    <3> QED BY <2>1, <2>2, <3>2
  <2>3. CASE g # h
    <3>1. PICK v : LinkedIn(ChainOf(t, g), v, S, nil) /\ ToSet(v) = M[g]
      BY DEF TableIn
    <3>2. PICK x : x = ChainOf(t, g)
      OBVIOUS
    <3>3. w.head = x.head /\ w.tail = x.tail /\ w.prev = l.prev /\ w.next = l.next /\ x.prev = t.prev /\ x.next = t.next
      BY <1>2, <1>3, <2>1, <2>3, <3>2 DEF ChainOf
    <3>4. ToSet(v) \subseteq S
      <4>1. v \in Seq(S)
        BY <3>1 DEF LinkedIn
      <4> QED BY <4>1 DEF ToSet
    <3>5. \A c \in ToSet(v) : w.prev[c] = x.prev[c] /\ w.next[c] = x.next[c]
      BY <2>3, <3>1, <3>3, <3>4 DEF KeepsLinks, ApartBut
    <3>6. LinkedIn(w, v, S, nil)
      BY <3>1, <3>2, <3>3, <3>5, LinkedStaysIn
    <3> QED BY <2>1, <2>3, <3>1, <3>6
  <2> QED BY <2>2, <2>3
<1> QED BY <1>1, <1>4, <1>5 DEF TableIn

\* The type of a list of a table.
LEMMA ChainTypeIn ==
  ASSUME NEW G, NEW S, NEW nil, nil \notin S,
         NEW t, NEW M, TableIn(t, M, G, S, nil), NEW h \in G
  PROVE  /\ ChainOf(t, h) \in ListTypeOf(S, nil) /\ ChainOf(t, h).head = t.head[h]
         /\ ChainOf(t, h).prev = t.prev /\ ChainOf(t, h).next = t.next
BY DEF TableIn, TableType, ListTypeOf, ChainOf

\* An entry leaves the list it is in.
LEMMA LeavesChain ==
  ASSUME NEW G, NEW S, NEW nil, nil \notin S,
         NEW t, NEW M, TableIn(t, M, G, S, nil), ApartIn(M, G), NEW h \in G, NEW b \in M[h]
  PROVE  TableIn(WithChainOf(t, h, UnlinkOf(ChainOf(t, h), b, nil)), [g \in G |-> IF g = h THEN M[h] \ {b} ELSE M[g]], G, S, nil)
<1>1. PICK l : l = ChainOf(t, h) /\ l \in ListTypeOf(S, nil) /\ l.prev = t.prev /\ l.next = t.next
  BY ChainTypeIn
<1>2. PICK s : LinkedIn(l, s, S, nil) /\ ToSet(s) = M[h]
  BY <1>1 DEF TableIn
<1>3. PICK k \in 1..Len(s) : s[k] = b
  <2>1. s \in Seq(S)
    BY <1>2 DEF LinkedIn
  <2> QED BY <1>2, <2>1 DEF ToSet
<1>4. PICK m, u : m = UnlinkOf(l, b, nil) /\ u = RemoveAt(s, k)
  OBVIOUS
<1>5. m \in ListTypeOf(S, nil) /\ LinkedIn(m, u, S, nil) /\ ToSet(u) = M[h] \ {b} /\ KeepsLinks(l, m, ToSet(s), S)
  BY <1>1, <1>2, <1>3, <1>4, UnlinkLinkedIn
<1>6. PICK K : K = ToSet(s)
  OBVIOUS
<1>7. KeepsLinks(t, m, K, S) /\ ApartBut(M, h, K, G)
  BY <1>1, <1>2, <1>5, <1>6 DEF KeepsLinks, ApartIn, ApartBut
<1>8. m \in ListTypeOf(S, nil) /\ LinkedIn(m, u, S, nil)
  BY <1>5
<1>9. TableIn(WithChainOf(t, h, m), [g \in G |-> IF g = h THEN ToSet(u) ELSE M[g]], G, S, nil)
  BY <1>7, <1>8, ChainChangesIn
<1> QED BY <1>1, <1>4, <1>5, <1>9

\* An entry that is in no list enters one.
LEMMA EntersChain ==
  ASSUME NEW G, NEW S, NEW nil, nil \notin S,
         NEW t, NEW M, TableIn(t, M, G, S, nil), ApartIn(M, G), NEW h \in G, NEW b \in S, \A g \in G : b \notin M[g]
  PROVE  TableIn(WithChainOf(t, h, PushTailOf(ChainOf(t, h), b, nil)), [g \in G |-> IF g = h THEN M[h] \cup {b} ELSE M[g]], G, S, nil)
<1>1. PICK l : l = ChainOf(t, h) /\ l \in ListTypeOf(S, nil) /\ l.prev = t.prev /\ l.next = t.next
  BY ChainTypeIn
<1>2. PICK s : LinkedIn(l, s, S, nil) /\ ToSet(s) = M[h]
  BY <1>1 DEF TableIn
<1>3. PICK m, u : m = PushTailOf(l, b, nil) /\ u = Append(s, b)
  OBVIOUS
<1>4. m \in ListTypeOf(S, nil) /\ LinkedIn(m, u, S, nil) /\ ToSet(u) = ToSet(s) \cup {b} /\ KeepsLinks(l, m, ToSet(u), S)
  <2>1. b \notin ToSet(s) /\ LinkedIn(l, s, S, nil) /\ l \in ListTypeOf(S, nil)
    BY <1>1, <1>2
  <2>2. m \in ListTypeOf(S, nil) /\ LinkedIn(m, u, S, nil) /\ KeepsLinks(l, m, ToSet(u), S)
    BY <1>3, <2>1, PushTailLinkedIn
  <2>3. s \in Seq(S) /\ NoDup(s)
    BY <2>1 DEF LinkedIn
  <2>4. ToSet(Append(s, b)) = ToSet(s) \cup {b}
    BY <2>1, <2>3, AppendQueue, Zenon
  <2> QED BY <1>3, <2>2, <2>4
<1>5. PICK K : K = ToSet(u)
  OBVIOUS
<1>6. KeepsLinks(t, m, K, S) /\ ApartBut(M, h, K, G)
  BY <1>1, <1>2, <1>4, <1>5 DEF KeepsLinks, ApartIn, ApartBut
<1>7. m \in ListTypeOf(S, nil) /\ LinkedIn(m, u, S, nil)
  BY <1>4
<1>8. TableIn(WithChainOf(t, h, m), [g \in G |-> IF g = h THEN ToSet(u) ELSE M[g]], G, S, nil)
  BY <1>6, <1>7, ChainChangesIn
<1> QED BY <1>1, <1>2, <1>3, <1>4, <1>8
=============================================================================
