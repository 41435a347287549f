------------------------------- MODULE MCFtl -------------------------------
EXTENDS FtlData

\* The logical slices, and the contents, are interchangeable.
DataSymmetry == Permutations(Lsa) \cup Permutations(Data)

\* The place of a logical slice.
Placed(v) == \E l \in Lsa : logicalSlice[l] = v

\* What the steps and the property tell apart: of a page that was overwritten
\* only that it was given out.
View ==
  <<logicalSlice,
    [v \in Vsa |-> IF Placed(v) THEN <<virtualSlice[v], flash[v]>> ELSE virtualSlice[v] # NoLsa],
    blocks, lists, targetDie, phase, lsa,
    IF phase \in {"copy", "erase"} THEN gcVars ELSE <<>>,
    IF phase = "idle" THEN NoData ELSE inHand>>
=============================================================================
