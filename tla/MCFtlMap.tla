------------------------------ MODULE MCFtlMap ------------------------------
EXTENDS FtlMap

\* The logical slices are interchangeable.
LsaSymmetry == Permutations(Lsa)

\* What the steps and the properties tell apart: of a page that was overwritten
\* only that it was given out, of the victim nothing once it is erased.
View ==
  <<logicalSlice,
    [v \in Vsa |-> IF \E l \in Lsa : logicalSlice[l] = v THEN virtualSlice[v]
                    ELSE virtualSlice[v] # NoLsa],
    blocks, lists, targetDie, phase, lsa,
    IF phase \in {"copy", "erase"} THEN gcVars ELSE <<>> >>
=============================================================================
