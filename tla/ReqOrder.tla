------------------------------ MODULE ReqOrder ------------------------------
(***************************************************************************)
(* ReqSched with two history variables, and the properties that need them: *)
(* order remembers in which order the outstanding requests were made,      *)
(* flash how far each block has really been programmed.                    *)
(***************************************************************************)
EXTENDS ReqSched

VARIABLES
  order,  \* the outstanding low-level requests, oldest first
  flash   \* per block: pages the flash has programmed since its last erase

orderVars == <<vars, order, flash>>

\* Requests that must not overtake one another: they use the same data
\* buffer, or an access to a block meets a write or an erase it depends on.
Conflict(p, q) ==
  \/ p.buf # NoBuf /\ p.buf = q.buf
  \/ /\ p.block # NoBlock /\ p.block = q.block
     /\ \/ "ERASE" \in {p.reqCode, q.reqCode}
        \/ "WRITE" \in {p.reqCode, q.reqCode} /\ p.page = q.page
        \/ {p.reqCode, q.reqCode} = {"WRITE"}

OrderInit == Init /\ order = <<>> /\ flash = [k \in Block |-> 0]

\* What the head of a die does to the flash when it completes.
Executed(q) ==
  CASE q.reqCode = "WRITE" -> [flash EXCEPT ![q.block] = q.page + 1]
    [] q.reqCode = "ERASE" -> [flash EXCEPT ![q.block] = 0]
    [] OTHER               -> flash

\* A step completes at most one request and makes at most one.
Record ==
  LET done == {r \in Req : Outstanding(r) /\ ~Outstanding(r)'}
      new  == {r \in Req : ~Outstanding(r) /\ Outstanding(r)'}
      rest == IF done = {} THEN order ELSE Without(order, CHOOSE r \in done : TRUE)
  IN
  /\ order' = IF new = {} THEN rest ELSE Append(rest, CHOOSE r \in new : TRUE)
  /\ flash' = IF \E r \in done : reqQueueType[r] = "NAND"
              THEN Executed(reqPool[CHOOSE r \in done : reqQueueType[r] = "NAND"])
              ELSE flash

OrderNext == Next /\ Record

OrderSpec == OrderInit /\ [][OrderNext]_orderVars

-----------------------------------------------------------------------------
(* Safety.                                                                 *)

\* A request that has reached the queue of its die has every older request
\* it conflicts with in front of it there or finished: the dependency checks
\* give the flash the order in which the requests were made
\* (request_transform.c, CheckRowAddrDep).
NoOvertaking ==
  \A i, j \in 1..Len(order) :
    LET p == order[i]
        q == order[j]
        d == DieOf[reqPool[q].block]
    IN i < j /\ reqQueueType[q] = "NAND" /\ Conflict(reqPool[p], reqPool[q]) =>
         /\ reqQueueType[p] = "NAND"
         /\ IndexOf(nandReqQ[d], p) < IndexOf(nandReqQ[d], q)

\* What the flash is asked to do next is what its state allows: a program
\* of the first free page, a read of a programmed page, an erase of a
\* block whose expected pages are all programmed.
FlashAccepts ==
  \A d \in Die : nandReqQ[d] # <<>> =>
    LET q == reqPool[Head(nandReqQ[d])] IN
    CASE q.reqCode = "READ" -> q.page < flash[q.block]
      [] OTHER              -> q.page = flash[q.block]

\* The request layer implements in-order execution of conflicting operations:
\* what is pending is what the slots of order hold.
InOrder == INSTANCE InOrderExec WITH
             Op <- Request, Conflict <- Conflict,
             pending <- [i \in 1..Len(order) |-> reqPool[order[i]]]

ImplementsInOrder == InOrder!Spec
=============================================================================
