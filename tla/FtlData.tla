------------------------------ MODULE FtlData ------------------------------
(***************************************************************************)
(* FtlMap with the content of the flash: what a program puts on a page, a  *)
(* copy moves and an erase destroys.  The requests are carried out in the  *)
(* order they are made, which is what ReqOrder shows of the request layer. *)
(***************************************************************************)
EXTENDS FtlMap

CONSTANTS
  Data,    \* contents of a slice
  NoData   \* an erased page

VARIABLES
  flash,   \* the content of each page
  inHand   \* the content AddrTransWrite finds a place for

dataVars == <<vars, flash, inHand>>

DataInit == Init /\ flash = [v \in Vsa |-> NoData] /\ inHand = NoData

\* EvictDataBufEntry asks for a place for the content of a data buffer.
WriteSlice(l, x) ==
  /\ AddrTransWrite(l)
  /\ inHand' = x
  /\ UNCHANGED flash
  /\ Workload'

\* The places that became the place of a slice in this step.
Given == {logicalSlice'[l] : l \in {k \in Lsa : logicalSlice'[k] \notin {logicalSlice[k], NoVsa}}}

\* What the step asks of the flash: an erase of the victim, a program with the
\* content in hand, or a copy of a page of the victim.
Execute ==
  flash' = [v \in Vsa |->
              IF phase = "erase" /\ v[1] = targetDie /\ v[2] = victim THEN NoData
              ELSE IF v \notin Given THEN flash[v]
              ELSE IF phase = "copy" THEN flash[<<targetDie, victim, gcPage>>] ELSE inHand]

DataNext ==
  \/ \E l \in Lsa, x \in Data : WriteSlice(l, x)
  \/ Continue /\ Execute /\ UNCHANGED inHand

DataSpec == DataInit /\ [][DataNext]_dataVars

-----------------------------------------------------------------------------
\* The content of a slice: what is in hand while it is written, then what is
\* on its page.
Content(l) ==
  IF l = lsa THEN inHand
  ELSE IF logicalSlice[l] = NoVsa THEN NoData ELSE flash[logicalSlice[l]]

\* The flash translation layer implements a store of slices: no garbage
\* collection loses, revives or mixes up the content of one.
Store == INSTANCE SliceStore WITH store <- [l \in Lsa |-> Content(l)], writing <- lsa

ImplementsSliceStore == Store!Spec
=============================================================================
