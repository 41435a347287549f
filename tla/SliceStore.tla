----------------------------- MODULE SliceStore -----------------------------
(***************************************************************************)
(* What the flash translation layer promises: a store of logical slices in *)
(* which a write replaces the content of its slice when it is accepted,    *)
(* and nothing changes a content until the next write is.                  *)
(***************************************************************************)
CONSTANTS Lsa, NoLsa, Data, NoData

VARIABLES
  store,   \* the content of each logical slice
  writing  \* the logical slice a place is found for

Init == store = [l \in Lsa |-> NoData] /\ writing = NoLsa

Write(l, x) ==
  /\ writing = NoLsa
  /\ writing' = l
  /\ store' = [store EXCEPT ![l] = x]

Finish ==
  /\ writing # NoLsa
  /\ writing' = NoLsa
  /\ UNCHANGED store

Next == (\E l \in Lsa, x \in Data : Write(l, x)) \/ Finish

Spec == Init /\ [][Next]_<<store, writing>>
=============================================================================
