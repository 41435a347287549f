------------------------------ MODULE WaySched ------------------------------
(***************************************************************************)
(* The NAND scheduler of one channel: SchedulingNandReqPerCh moves the     *)
(* ways through lists by the state of their die, issues the request at the *)
(* head of each way's queue, checks its status in two stages and retries   *)
(* or records a failure.  The lists are kept at the level of their links.  *)
(* The flash controller takes commands into a queue and the dies work on   *)
(* their own.                                                              *)
(*                                                                         *)
(* Which requests are made, and when one that was blocked is released, is  *)
(* the matter of ReqSched; here a request may enter a queue whenever the   *)
(* code could put one there.  RESET and SET_FEATURE are sent only at boot. *)
(***************************************************************************)
EXTENDS Integers, Sequences, FiniteSets, FiniteSetsExt, Functions

CONSTANTS
  USER_WAYS,    \* ways of the channel
  RETRY_LIMIT,  \* times a failed read is tried again
  Code,         \* the codes of the requests that are made
  QueueDepth,   \* commands the controller holds
  MaxRequests   \* bound: requests in the queues of the channel

ASSUME WaysAssumption  == USER_WAYS \in 1..15
ASSUME RetryAssumption == RETRY_LIMIT \in Nat
ASSUME CodeAssumption  == Code \subseteq {"READ", "WRITE", "ERASE"}
ASSUME DepthAssumption == QueueDepth \in Nat \ {0} /\ MaxRequests \in Nat

Way      == 0..(USER_WAYS - 1)
WAY_NONE == 15

List == {"idle", "statusReport", "statusCheck", "readTrigger", "erase", "write", "readTransfer"}

\* The order in which the last part of a pass serves the lists.
Priority == <<"statusCheck", "readTrigger", "erase", "write", "readTransfer">>

VARIABLES
  nandReqQ,           \* per way: the codes of its requests
  dieState,           \* per way: "IDLE" or "EXE"
  reqStatusCheckOpt,  \* per way
  retryLimit,         \* per way
  links,              \* head and tail of each list, prevWay and nextWay of each way
  statusReport,       \* per way: the word a status check fills in
  completeFlag        \* per way: the flag of a transfer, with its ECC result

VARIABLES
  pc,          \* where the pass is: "poll", "idle", "report", "rearm" or a list of Priority
  wayNo,       \* the way a walk is at
  readyBusy,   \* the ways that were ready when the walk began
  waitWayCnt   \* ways that wait for a request or their die

VARIABLES
  commands,    \* per way: the commands the controller has not begun
  busy,        \* per way: the operation its die works on, or "none"
  dieStatus,   \* per way: how the last operation of the die ended
  register     \* per way: its page register holds the page of the first request

VARIABLES
  last,        \* per way: the newest operation for its first request, with its result
  failures,    \* per way: how often the first request failed
  answer       \* how the request just completed was taken: "good", "bad", or "none"

fw   == <<nandReqQ, dieState, reqStatusCheckOpt, retryLimit, links>>
pass == <<pc, wayNo, readyBusy, waitWayCnt>>
hw   == <<busy, dieStatus, register, failures, last>>
vars == <<fw, statusReport, completeFlag, pass, commands, hw, answer>>

-----------------------------------------------------------------------------
(* The lists of ways.                                                      *)

\* SelectiveGetFrom...List: from the body, the tail or the head of a list, or
\* as its only way; the links of the way itself stay.
GetFrom(l, list, w) ==
  LET p == l.prevWay[w]  n == l.nextWay[w] IN
  [head    |-> IF p = WAY_NONE THEN [l.head EXCEPT ![list] = n] ELSE l.head,
   tail    |-> IF n = WAY_NONE THEN [l.tail EXCEPT ![list] = p] ELSE l.tail,
   prevWay |-> IF n = WAY_NONE THEN l.prevWay ELSE [l.prevWay EXCEPT ![n] = p],
   nextWay |-> IF p = WAY_NONE THEN l.nextWay ELSE [l.nextWay EXCEPT ![p] = n]]

\* Mutant: the former tail keeps its next link.
PutToNoLink(l, list, w) ==
  LET t == l.tail[list] IN
  [head    |-> IF t = WAY_NONE THEN [l.head EXCEPT ![list] = w] ELSE l.head,
   tail    |-> [l.tail EXCEPT ![list] = w],
   prevWay |-> [l.prevWay EXCEPT ![w] = t],
   nextWay |-> [l.nextWay EXCEPT ![w] = WAY_NONE]]

\* PutTo...List: at the tail.
PutTo(l, list, w) ==
  LET t == l.tail[list] IN
  [head    |-> IF t = WAY_NONE THEN [l.head EXCEPT ![list] = w] ELSE l.head,
   tail    |-> [l.tail EXCEPT ![list] = w],
   prevWay |-> [l.prevWay EXCEPT ![w] = t],
   nextWay |-> IF t = WAY_NONE THEN [l.nextWay EXCEPT ![w] = WAY_NONE]
               ELSE [l.nextWay EXCEPT ![w] = WAY_NONE, ![t] = w]]

Move(w, from, to) == PutTo(GetFrom(links, from, w), to, w)

\* PutToNandWayPriorityTable: the list of the request at the head.
ListOfCode(c) == CASE c = "READ"          -> "readTrigger"
                   [] c = "READ_TRANSFER" -> "readTransfer"
                   [] c = "WRITE"         -> "write"
                   [] c = "ERASE"         -> "erase"

\* The ways met from the head of a list on, at most USER_WAYS.
Walk(list) ==
  LET at[i \in 1..USER_WAYS] ==
        IF i = 1 THEN links.head[list]
        ELSE IF at[i - 1] = WAY_NONE THEN WAY_NONE ELSE links.nextWay[at[i - 1]]
  IN  [i \in 1..Cardinality({j \in 1..USER_WAYS : at[j] # WAY_NONE}) |-> at[i]]

-----------------------------------------------------------------------------
(* The flash controller and the dies.                                      *)

V2FIsControllerBusy == SumFunction([w \in Way |-> Len(commands[w])]) >= QueueDepth
V2FReadyBusyAsync   == {w \in Way : busy[w] = "none"}

Issue(w, c) == /\ ~V2FIsControllerBusy
               /\ commands' = [commands EXCEPT ![w] = Append(@, c)]

\* Mutant: the report of the former check stays.
V2FStatusCheckAsyncKeep(w) == Issue(w, "STATUS") /\ UNCHANGED statusReport

\* The report is cleared before the command is issued.
V2FStatusCheckAsync(w) ==
  Issue(w, "STATUS") /\ statusReport' = [statusReport EXCEPT ![w] = "none"]

\* So is the completion flag.
V2FReadPageTransferAsync(w) ==
  Issue(w, "READ_TRANSFER") /\ completeFlag' = [completeFlag EXCEPT ![w] = "none"]

Result(w, c, r) == /\ last' = [last EXCEPT ![w] = <<c, r>>]
                   /\ failures' = [failures EXCEPT ![w] = IF r = "fail" THEN @ + 1 ELSE @]

\* The controller hands the next command of a way to its die: it reads the
\* status, starts an operation, or moves the page register out.  Commands of
\* different ways may overtake each other.
Begin(w) ==
  /\ commands[w] # <<>>
  /\ commands' = [commands EXCEPT ![w] = Tail(@)]
  /\ CASE Head(commands[w]) = "STATUS" ->
            /\ statusReport' = [statusReport EXCEPT ![w] = IF busy[w] # "none" THEN "busy" ELSE dieStatus[w]]
            /\ UNCHANGED <<completeFlag, hw>>
       [] Head(commands[w]) = "READ_TRANSFER" ->
            \E ecc \in {"pass", "warning", "fail"} :
              /\ completeFlag' = [completeFlag EXCEPT ![w] = ecc]
              /\ Result(w, "READ_TRANSFER", ecc)
              /\ UNCHANGED <<statusReport, busy, dieStatus, register>>
       [] OTHER ->
            /\ busy' = [busy EXCEPT ![w] = Head(commands[w])]
            /\ register' = [register EXCEPT ![w] = FALSE]
            /\ dieStatus' = [dieStatus EXCEPT ![w] = "pass"]
            /\ last' = [last EXCEPT ![w] = <<"none", "none">>]
            /\ UNCHANGED <<statusReport, completeFlag, failures>>
  /\ UNCHANGED <<fw, pass, answer>>

\* A die ends its operation.
Finish(w) ==
  /\ busy[w] # "none"
  /\ \E r \in {"pass", "fail"} :
       /\ dieStatus' = [dieStatus EXCEPT ![w] = r]
       /\ register' = [register EXCEPT ![w] = busy[w] = "READ" /\ r = "pass"]
       /\ Result(w, busy[w], r)
  /\ busy' = [busy EXCEPT ![w] = "none"]
  /\ UNCHANGED <<fw, statusReport, completeFlag, pass, commands, answer>>

-----------------------------------------------------------------------------
(* Requests.                                                               *)

\* PutToNandReqQ: a request enters a queue between the passes, when a walk
\* over the idle ways releases it, or when the completion of another does.
PutToNandReqQ(w, c) ==
  /\ pc \in {"poll", "rearm"} \/ (pc = "idle" /\ wayNo = w)
  /\ SumFunction([v \in Way |-> Len(nandReqQ[v])]) < MaxRequests
  /\ nandReqQ' = [nandReqQ EXCEPT ![w] = Append(@, c)]
  /\ UNCHANGED <<dieState, reqStatusCheckOpt, retryLimit, links, statusReport, completeFlag,
                 pass, commands, hw, answer>>

IssueNandReq(w) ==
  LET c == Head(nandReqQ[w]) IN
  IF c = "READ_TRANSFER"
  THEN /\ reqStatusCheckOpt' = [reqStatusCheckOpt EXCEPT ![w] = "COMPLETION_FLAG"]
       /\ V2FReadPageTransferAsync(w)
  ELSE /\ reqStatusCheckOpt' = [reqStatusCheckOpt EXCEPT ![w] = "CHECK"]
       /\ Issue(w, c)
       /\ UNCHANGED completeFlag

\* CheckReqStatus: its result, and what it changes.
ReqStatus(w) ==
  LET opt == reqStatusCheckOpt[w] IN
  CASE opt = "COMPLETION_FLAG" /\ completeFlag[w] = "pass"    -> "DONE"
    [] opt = "COMPLETION_FLAG" /\ completeFlag[w] = "warning" -> "WARNING"
    [] opt = "COMPLETION_FLAG" /\ completeFlag[w] = "fail"    -> "FAIL"
    [] opt = "REPORT" /\ statusReport[w] = "pass"             -> "DONE"
    [] opt = "REPORT" /\ statusReport[w] = "fail"             -> "FAIL"
    [] opt = "NONE" /\ w \in V2FReadyBusyAsync                -> "DONE"
    [] OTHER                                                  -> "RUNNING"

\* Mutant: a request found running is not checked again.
OptAfterCheckOnce(w) ==
  LET opt == reqStatusCheckOpt[w] IN
  CASE opt = "CHECK"                              -> "REPORT"
    [] opt = "REPORT" /\ statusReport[w] = "pass" -> "NONE"
    [] OTHER                                      -> opt

OptAfterCheck(w) ==
  LET opt == reqStatusCheckOpt[w] IN
  CASE opt = "CHECK"                               -> "REPORT"
    [] opt = "REPORT" /\ statusReport[w] = "pass"  -> "NONE"
    [] opt = "REPORT" /\ statusReport[w] = "busy"  -> "CHECK"
    [] OTHER                                       -> opt

CheckReqStatus(w) ==
  /\ reqStatusCheckOpt' = [reqStatusCheckOpt EXCEPT ![w] = OptAfterCheck(w)]
  /\ IF reqStatusCheckOpt[w] = "CHECK" THEN V2FStatusCheckAsync(w)
     ELSE UNCHANGED <<statusReport, commands>>

\* The request leaves its queue; after a failure or a warning its block has
\* been recorded as a grown bad block.
Complete(w, a) ==
  /\ nandReqQ' = [nandReqQ EXCEPT ![w] = Tail(@)]
  /\ retryLimit' = [retryLimit EXCEPT ![w] = RETRY_LIMIT]
  /\ answer' = a

Recode(w, c) == /\ nandReqQ' = [nandReqQ EXCEPT ![w] = <<c>> \o Tail(@)]
                /\ UNCHANGED answer

IsRead(w) == Head(nandReqQ[w]) \in {"READ", "READ_TRANSFER"}

Retry(w, status) == status = "FAIL" /\ IsRead(w) /\ retryLimit[w] > 0

\* Mutant: a read that failed is transferred again.
RetryCodeSame(w) == "READ_TRANSFER"

\* It is read again from the start, whichever half of it failed.
RetryCode(w) == "READ"

\* ExecuteNandReq, of a die in "EXE" whose request is no longer running: a
\* page read is transferred next, a read that failed is tried again, anything
\* else is complete.
ExecuteNandReq(w, status) ==
  /\ dieState' = [dieState EXCEPT ![w] = "IDLE"]
  /\ CASE status = "DONE" /\ Head(nandReqQ[w]) = "READ" ->
            Recode(w, "READ_TRANSFER") /\ UNCHANGED retryLimit
       [] status = "DONE" /\ Head(nandReqQ[w]) # "READ" -> Complete(w, "good")
       [] Retry(w, status) ->
            Recode(w, RetryCode(w)) /\ retryLimit' = [retryLimit EXCEPT ![w] = @ - 1]
       [] status = "FAIL" /\ ~Retry(w, status) -> Complete(w, "bad")
       [] status = "WARNING"                   -> Complete(w, "warning")

-----------------------------------------------------------------------------
(* A pass: SchedulingNandReqPerCh.                                         *)

StartPass ==
  /\ pc = "poll"
  /\ pc' = "idle" /\ wayNo' = links.head["idle"]
  /\ UNCHANGED <<fw, statusReport, completeFlag, readyBusy, waitWayCnt, commands, hw, answer>>

\* First part, one idle way: it goes to the list of its request, if it has one.
IdleWay ==
  /\ pc = "idle" /\ wayNo # WAY_NONE
  /\ wayNo' = links.nextWay[wayNo]
  /\ IF nandReqQ[wayNo] # <<>>
     THEN /\ links' = Move(wayNo, "idle", ListOfCode(Head(nandReqQ[wayNo])))
          /\ UNCHANGED waitWayCnt
     ELSE waitWayCnt' = waitWayCnt + 1 /\ UNCHANGED links
  /\ UNCHANGED <<nandReqQ, dieState, reqStatusCheckOpt, retryLimit, statusReport, completeFlag,
                 pc, readyBusy, commands, hw, answer>>

\* The ready lines are read once, before the walk of the second part.
StartReport ==
  /\ pc = "idle" /\ wayNo = WAY_NONE
  /\ pc' = "report" /\ wayNo' = links.head["statusReport"] /\ readyBusy' = V2FReadyBusyAsync
  /\ UNCHANGED <<fw, statusReport, completeFlag, waitWayCnt, commands, hw, answer>>

\* Second part, a way whose die was busy.
ReportNotReady ==
  /\ pc = "report" /\ wayNo # WAY_NONE /\ wayNo \notin readyBusy
  /\ wayNo' = links.nextWay[wayNo] /\ waitWayCnt' = waitWayCnt + 1
  /\ UNCHANGED <<fw, statusReport, completeFlag, pc, readyBusy, commands, hw, answer>>

\* A request that runs on: checked again from the first stage if the status
\* said so, else left where it is.
ReportRunning ==
  /\ pc = "report" /\ wayNo \in readyBusy /\ ReqStatus(wayNo) = "RUNNING"
  /\ CheckReqStatus(wayNo)
  /\ wayNo' = links.nextWay[wayNo]
  /\ IF OptAfterCheck(wayNo) = "CHECK"
     THEN links' = Move(wayNo, "statusReport", "statusCheck") /\ UNCHANGED waitWayCnt
     ELSE waitWayCnt' = waitWayCnt + 1 /\ UNCHANGED links
  /\ UNCHANGED <<nandReqQ, dieState, retryLimit, completeFlag, pc, readyBusy, hw, answer>>

\* A request with a result.
ReportResult ==
  /\ pc = "report" /\ wayNo \in readyBusy /\ ReqStatus(wayNo) # "RUNNING"
  /\ CheckReqStatus(wayNo)
  /\ ExecuteNandReq(wayNo, ReqStatus(wayNo))
  /\ pc' = "rearm"
  /\ UNCHANGED <<links, completeFlag, wayNo, readyBusy, waitWayCnt, hw>>

\* The way goes to the list of its next request, or is idle.  What the
\* hardware did for a request that is complete is forgotten.
Rearm ==
  /\ pc = "rearm"
  /\ pc' = "report" /\ wayNo' = links.nextWay[wayNo] /\ answer' = "none"
  /\ IF nandReqQ[wayNo] # <<>>
     THEN /\ links' = Move(wayNo, "statusReport", ListOfCode(Head(nandReqQ[wayNo])))
          /\ UNCHANGED waitWayCnt
     ELSE /\ links' = Move(wayNo, "statusReport", "idle")
          /\ waitWayCnt' = waitWayCnt + 1
  /\ IF answer = "none" THEN UNCHANGED <<register, failures, last>>
     ELSE /\ register' = [register EXCEPT ![wayNo] = FALSE]
          /\ failures' = [failures EXCEPT ![wayNo] = 0]
          /\ last' = [last EXCEPT ![wayNo] = <<"none", "none">>]
  /\ UNCHANGED <<nandReqQ, dieState, reqStatusCheckOpt, retryLimit, statusReport, completeFlag,
                 readyBusy, commands, busy, dieStatus>>

\* The last part is skipped if every way waits.  The local variables are no
\* longer used.
EndReport ==
  /\ pc = "report" /\ wayNo = WAY_NONE
  /\ pc' = IF waitWayCnt = USER_WAYS THEN "poll" ELSE "statusCheck"
  /\ readyBusy' = {} /\ waitWayCnt' = 0
  /\ UNCHANGED <<fw, statusReport, completeFlag, wayNo, commands, hw, answer>>

\* Last part: the next list in the order of priority that has a way, if any.
AfterList(list, l) ==
  LET at  == CHOOSE i \in DOMAIN Priority : Priority[i] = list
      due == {i \in DOMAIN Priority : i > at /\ l.head[Priority[i]] # WAY_NONE}
  IN  IF due = {} THEN "poll" ELSE Priority[Min(due)]

\* The controller is busy: the rest of the lists is skipped.
ControllerBusy ==
  /\ pc \in Range(Priority) /\ V2FIsControllerBusy
  /\ pc' = "poll"
  /\ UNCHANGED <<fw, statusReport, completeFlag, wayNo, readyBusy, waitWayCnt, commands, hw, answer>>

\* Where ways of the status check list stand whose die is ready.
Checkable == {i \in DOMAIN Walk("statusCheck") : Walk("statusCheck")[i] \in V2FReadyBusyAsync}

NoStatusCheck ==
  /\ pc = "statusCheck" /\ ~V2FIsControllerBusy /\ Checkable = {}
  /\ pc' = AfterList("statusCheck", links)
  /\ UNCHANGED <<fw, statusReport, completeFlag, wayNo, readyBusy, waitWayCnt, commands, hw, answer>>

\* The first way whose die is ready has its status asked for.  Having been
\* moved it has no next way: the walk ends with it.
ServeStatusCheck ==
  /\ pc = "statusCheck" /\ ~V2FIsControllerBusy
  /\ Checkable # {}
  /\ LET w == Walk("statusCheck")[Min(Checkable)] IN
     CheckReqStatus(w) /\ links' = Move(w, "statusCheck", "statusReport")
  /\ pc' = AfterList("statusCheck", links')
  /\ UNCHANGED <<nandReqQ, dieState, retryLimit, completeFlag, wayNo, readyBusy, waitWayCnt, hw, answer>>

\* The first way of a list has its request issued; the walk ends there too.
ServeList(list) ==
  /\ pc = list /\ list # "statusCheck" /\ ~V2FIsControllerBusy
  /\ LET w == links.head[list] IN
     /\ IF dieState[w] = "IDLE" THEN IssueNandReq(w)
        ELSE UNCHANGED <<reqStatusCheckOpt, completeFlag, commands>>
     /\ dieState' = [dieState EXCEPT ![w] = "EXE"]
     /\ links' = Move(w, list, IF list = "readTransfer" THEN "statusReport" ELSE "statusCheck")
  /\ pc' = AfterList(list, links')
  /\ UNCHANGED <<nandReqQ, retryLimit, statusReport, wayNo, readyBusy, waitWayCnt, hw, answer>>

SchedulingNandReqPerCh ==
  \/ StartPass \/ IdleWay \/ StartReport
  \/ ReportNotReady \/ ReportRunning \/ ReportResult \/ Rearm \/ EndReport
  \/ ControllerBusy \/ NoStatusCheck \/ ServeStatusCheck
  \/ \E list \in Range(Priority) : ServeList(list)

Init ==
  /\ nandReqQ = [w \in Way |-> <<>>]
  /\ dieState = [w \in Way |-> "IDLE"]
  /\ reqStatusCheckOpt = [w \in Way |-> "NONE"]
  /\ retryLimit = [w \in Way |-> RETRY_LIMIT]
  /\ links = [head    |-> [l \in List |-> IF l = "idle" THEN 0 ELSE WAY_NONE],
              tail    |-> [l \in List |-> IF l = "idle" THEN USER_WAYS - 1 ELSE WAY_NONE],
              prevWay |-> [w \in Way |-> IF w = 0 THEN WAY_NONE ELSE w - 1],
              nextWay |-> [w \in Way |-> IF w = USER_WAYS - 1 THEN WAY_NONE ELSE w + 1]]
  /\ statusReport = [w \in Way |-> "none"] /\ completeFlag = [w \in Way |-> "none"]
  /\ pc = "poll" /\ wayNo = WAY_NONE /\ readyBusy = {} /\ waitWayCnt = 0
  /\ commands = [w \in Way |-> <<>>]
  /\ busy = [w \in Way |-> "none"] /\ dieStatus = [w \in Way |-> "pass"]
  /\ register = [w \in Way |-> FALSE]
  /\ last = [w \in Way |-> <<"none", "none">>] /\ failures = [w \in Way |-> 0]
  /\ answer = "none"

Next == \/ SchedulingNandReqPerCh
        \/ \E w \in Way, c \in Code : PutToNandReqQ(w, c)
        \/ \E w \in Way : Begin(w) \/ Finish(w)

Spec == Init /\ [][Next]_vars

\* The polling loops call the scheduler again and again; the controller and
\* the dies do their work.
FairSpec == /\ Spec
            /\ WF_vars(SchedulingNandReqPerCh)
            /\ \A w \in Way : WF_vars(Begin(w)) /\ WF_vars(Finish(w))

-----------------------------------------------------------------------------
\* The types of the variables.
TypeOK ==
  /\ nandReqQ \in [Way -> Seq(Code \cup {"READ", "READ_TRANSFER"})]
  /\ dieState \in [Way -> {"IDLE", "EXE"}]
  /\ reqStatusCheckOpt \in [Way -> {"NONE", "CHECK", "REPORT", "COMPLETION_FLAG"}]
  /\ retryLimit \in [Way -> 0..RETRY_LIMIT]
  /\ links \in [head : [List -> Way \cup {WAY_NONE}], tail : [List -> Way \cup {WAY_NONE}],
                prevWay : [Way -> Way \cup {WAY_NONE}], nextWay : [Way -> Way \cup {WAY_NONE}]]
  /\ statusReport \in [Way -> {"none", "busy", "pass", "fail"}]
  /\ completeFlag \in [Way -> {"none", "pass", "warning", "fail"}]
  /\ pc \in {"poll", "idle", "report", "rearm"} \cup Range(Priority)
  /\ wayNo \in Way \cup {WAY_NONE} /\ readyBusy \subseteq Way /\ waitWayCnt \in 0..USER_WAYS
  /\ commands \in [Way -> Seq({"READ", "READ_TRANSFER", "WRITE", "ERASE", "STATUS"})]
  /\ busy \in [Way -> {"none", "READ", "WRITE", "ERASE"}]
  /\ dieStatus \in [Way -> {"pass", "fail"}] /\ register \in [Way -> BOOLEAN]
  /\ last \in [Way -> {"none", "READ", "READ_TRANSFER", "WRITE", "ERASE"} \X {"none", "pass", "warning", "fail"}]
  /\ failures \in [Way -> Nat]
  /\ answer \in {"none", "good", "bad", "warning"}

\* A way on a list is in the state the code that walks the list takes for granted.
Fits(w, list) ==
  CASE list = "idle"         -> dieState[w] = "IDLE"
    [] list = "statusCheck"  -> dieState[w] = "EXE" /\ reqStatusCheckOpt[w] = "CHECK"
    [] list = "statusReport" -> \/ dieState[w] = "EXE" /\ reqStatusCheckOpt[w] \in {"REPORT", "COMPLETION_FLAG"}
                                \/ pc = "rearm" /\ w = wayNo
    [] OTHER                 -> /\ dieState[w] = "IDLE" /\ nandReqQ[w] # <<>>
                                /\ list = ListOfCode(Head(nandReqQ[w]))

\* No way is lost: each is on exactly one list, which is linked both ways
\* from its head to its tail, and on one that fits the state of its die and
\* the request at the head of its queue (request_schedule.c:511-975).
WaysListed ==
  /\ \A list \in List :
       LET s == Walk(list) IN
       /\ s = <<>> <=> links.tail[list] = WAY_NONE
       /\ s # <<>> => /\ links.prevWay[s[1]] = WAY_NONE
                      /\ s[Len(s)] = links.tail[list] /\ links.nextWay[s[Len(s)]] = WAY_NONE
       /\ \A i \in 2..Len(s) : links.prevWay[s[i]] = s[i - 1]
       /\ \A i \in DOMAIN s : Fits(s[i], list)
  /\ \A w \in Way : \E list \in List, i \in 1..USER_WAYS :
       /\ i \in DOMAIN Walk(list) /\ Walk(list)[i] = w
       /\ \A m \in List, j \in 1..USER_WAYS :
            j \in DOMAIN Walk(m) /\ Walk(m)[j] = w => m = list /\ j = i

\* What reaches a die suits it: an operation finds the die at rest, and a
\* transfer finds the page of its own request in the register, nothing having
\* come between the two halves of a read (comment at ExecuteNandReq,
\* request_schedule.c:1362-1366).
CommandsFit ==
  \A w \in Way : commands[w] # <<>> =>
    /\ Head(commands[w]) # "STATUS" => busy[w] = "none"
    /\ Head(commands[w]) = "READ_TRANSFER" => register[w]

\* A request is completed as what happened to it: as done only if the die
\* did its last operation and did it well, as failed only if it failed, and a
\* read only after it failed RETRY_LIMIT + 1 times.
AnsweredAsHappened ==
  answer # "none" =>
    LET op == last[wayNo][1]  r == last[wayNo][2] IN
    /\ answer = "good"    => op \in {"READ_TRANSFER", "WRITE", "ERASE"} /\ r = "pass"
    /\ answer = "warning" => op = "READ_TRANSFER" /\ r = "warning"
    /\ answer = "bad"     => /\ r = "fail"
                             /\ op \in {"READ", "READ_TRANSFER"} => failures[wayNo] = RETRY_LIMIT + 1

\* Every request in a queue is completed, however many more arrive: no way is
\* forgotten by the walks, which end early when they move a way, nor starved
\* by the lists of higher priority.
Answered == \A w \in Way : nandReqQ[w] # <<>> ~> (answer # "none" /\ wayNo = w)
=============================================================================
