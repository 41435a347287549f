----------------------------- MODULE InOrderExec -----------------------------
(***************************************************************************)
(* What the request layer promises the layers above it: operations are     *)
(* submitted one by one, and one may complete before an older one only if  *)
(* the two do not conflict.                                                *)
(***************************************************************************)
EXTENDS Naturals, Sequences

CONSTANTS
  Op,             \* the operations
  Conflict(_, _)  \* may the younger not complete before the older?

VARIABLE pending  \* the operations that are not complete, oldest first

Submit(o) == pending' = Append(pending, o)

Complete(i) ==
  /\ \A j \in 1..(i - 1) : ~Conflict(pending[j], pending[i])
  /\ pending' = SubSeq(pending, 1, i - 1) \o SubSeq(pending, i + 1, Len(pending))

Init == pending = <<>>

Next == \/ \E o \in Op : Submit(o)
        \/ \E i \in 1..Len(pending) : Complete(i)

Spec == Init /\ [][Next]_pending
=============================================================================
