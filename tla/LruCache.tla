------------------------------ MODULE LruCache ------------------------------
(***************************************************************************)
(* What the data buffer promises: a cache of slices in which a slice is    *)
(* held by one buffer at most, and the buffer given away is the one whose  *)
(* last use is the longest ago.                                            *)
(***************************************************************************)
EXTENDS Naturals, Sequences, FiniteSets

CONSTANTS
  Buf,     \* the buffers
  Lsa,     \* the logical slices
  NoLsa    \* a buffer that holds no slice, not in Lsa

VARIABLES
  asked,   \* the slices still to be used, in order
  recency, \* the buffers, the last used first
  holds    \* the slice of each buffer

Init ==
  /\ asked = <<>>
  /\ recency \in Seq(Buf) /\ Len(recency) = Cardinality(Buf)
  /\ \A b \in Buf : \E i \in 1..Len(recency) : recency[i] = b
  /\ holds = [b \in Buf |-> NoLsa]

Holders(a) == {b \in Buf : holds[b] = a}

Ask ==
  /\ asked = <<>>
  /\ asked' \in Seq(Lsa)
  /\ UNCHANGED <<recency, holds>>

\* The buffer is used: it goes to the front.
Use(b) ==
  \E i \in 1..Len(recency) :
    /\ recency[i] = b
    /\ recency' = <<b>> \o SubSeq(recency, 1, i - 1) \o SubSeq(recency, i + 1, Len(recency))

Hit ==
  /\ asked # <<>>
  /\ \E b \in Holders(Head(asked)) : Use(b)
  /\ asked' = Tail(asked)
  /\ UNCHANGED holds

Miss ==
  /\ asked # <<>>
  /\ Holders(Head(asked)) = {}
  /\ LET b == recency[Len(recency)] IN
       /\ Use(b)
       /\ holds' = [holds EXCEPT ![b] = Head(asked)]
  /\ asked' = Tail(asked)

Next == Ask \/ Hit \/ Miss

Spec == Init /\ [][Next]_<<asked, recency, holds>>
=============================================================================
