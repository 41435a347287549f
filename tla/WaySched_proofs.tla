--------------------------- MODULE WaySched_proofs ---------------------------
(***************************************************************************)
(* WaySched, for any number of ways, any limit of retries, any codes, and  *)
(* any room in the controller and in the queues: no way is lost from the   *)
(* lists, what reaches a die suits it, and a request is answered as what   *)
(* happened to it.                                                         *)
(*                                                                         *)
(* The invariant has two halves.  One follows a way through the stages of  *)
(* its request: what the scheduler has noted of it, the commands the       *)
(* controller still holds and what the die has done are in step            *)
(* (WayInv).  The other says which ways are on which list, where the walk  *)
(* of a pass is among them, and which it has counted as waiting            *)
(* (ListsInv).                                                             *)
(***************************************************************************)
EXTENDS WaySched, CommonLemmas, TLAPS

-----------------------------------------------------------------------------
(* The lists of ways as a table of linked lists.                           *)

\* The links of the ways, under the names of the common lemmas.
AsTable(l) == [head |-> l.head, tail |-> l.tail, prev |-> l.prevWay, next |-> l.nextWay]

\* The records of the links.
LinksType == [head : [List -> Way \cup {WAY_NONE}], tail : [List -> Way \cup {WAY_NONE}],
              prevWay : [Way -> Way \cup {WAY_NONE}], nextWay : [Way -> Way \cup {WAY_NONE}]]

\* Every list is whole and holds the ways M[list].
Listed(l, M) == l \in LinksType /\ TableIn(AsTable(l), M, List, Way, WAY_NONE)

\* The ways of every list once way w has moved to one.
MovedTo(M, list, w) == [m \in List |-> IF m = list THEN M[m] \cup {w} ELSE M[m] \ {w}]

\* WAY_NONE is no way.
LEMMA NoneIsNoWay == WAY_NONE \notin Way
BY WaysAssumption DEF Way, WAY_NONE

\* There are USER_WAYS ways.
LEMMA WaysFinite == IsFiniteSet(Way) /\ Cardinality(Way) = USER_WAYS /\ USER_WAYS \in Nat \ {0}
<1>1. USER_WAYS \in Nat \ {0} /\ 0 \in Int /\ USER_WAYS - 1 \in Int
  BY WaysAssumption
<1>2. /\ IsFiniteSet(0..(USER_WAYS - 1))
      /\ Cardinality(0..(USER_WAYS - 1)) = IF 0 > USER_WAYS - 1 THEN 0 ELSE (USER_WAYS - 1) - 0 + 1
  BY <1>1, FS_Interval
<1> QED BY <1>1, <1>2 DEF Way

\* GetFrom unlinks a way from one list of the table.
LEMMA GetFromIs ==
  ASSUME NEW l \in LinksType, NEW list \in List, NEW w \in Way
  PROVE  /\ GetFrom(l, list, w) \in LinksType
         /\ AsTable(GetFrom(l, list, w))
              = WithChainOf(AsTable(l), list, UnlinkOf(ChainOf(AsTable(l), list), w, WAY_NONE))
<1>1. PICK p, n : p = l.prevWay[w] /\ n = l.nextWay[w]
  OBVIOUS
<1>2. p \in Way \cup {WAY_NONE} /\ n \in Way \cup {WAY_NONE}
  BY <1>1 DEF LinksType
<1>3. PICK m : m = GetFrom(l, list, w)
  OBVIOUS
<1>4. m = [head    |-> IF p = WAY_NONE THEN [l.head EXCEPT ![list] = n] ELSE l.head,
           tail    |-> IF n = WAY_NONE THEN [l.tail EXCEPT ![list] = p] ELSE l.tail,
           prevWay |-> IF n = WAY_NONE THEN l.prevWay ELSE [l.prevWay EXCEPT ![n] = p],
           nextWay |-> IF p = WAY_NONE THEN l.nextWay ELSE [l.nextWay EXCEPT ![p] = n]]
  BY <1>1, <1>3 DEF GetFrom
<1>5. /\ l.head \in [List -> Way \cup {WAY_NONE}] /\ l.tail \in [List -> Way \cup {WAY_NONE}]
      /\ l.prevWay \in [Way -> Way \cup {WAY_NONE}] /\ l.nextWay \in [Way -> Way \cup {WAY_NONE}]
  BY DEF LinksType
<1>6. m \in LinksType
  BY <1>2, <1>4, <1>5 DEF LinksType
<1>7. PICK c : c = UnlinkOf(ChainOf(AsTable(l), list), w, WAY_NONE)
  OBVIOUS
<1>8. c = [head |-> IF p = WAY_NONE THEN n ELSE l.head[list],
           tail |-> IF n = WAY_NONE THEN p ELSE l.tail[list],
           prev |-> IF n = WAY_NONE THEN l.prevWay ELSE [l.prevWay EXCEPT ![n] = p],
           next |-> IF p = WAY_NONE THEN l.nextWay ELSE [l.nextWay EXCEPT ![p] = n]]
  BY <1>1, <1>7 DEF UnlinkOf, ChainOf, AsTable
<1>9. WithChainOf(AsTable(l), list, c) =
        [head |-> [l.head EXCEPT ![list] = c.head], tail |-> [l.tail EXCEPT ![list] = c.tail],
         prev |-> c.prev, next |-> c.next]
  BY DEF WithChainOf, AsTable
<1>10. m.head = [l.head EXCEPT ![list] = c.head] /\ m.tail = [l.tail EXCEPT ![list] = c.tail]
  BY <1>4, <1>5, <1>8
<1>11. m.prevWay = c.prev /\ m.nextWay = c.next
  BY <1>4, <1>8
<1>12. AsTable(m) = WithChainOf(AsTable(l), list, c)
  BY <1>9, <1>10, <1>11 DEF AsTable
<1> QED BY <1>3, <1>6, <1>7, <1>12

\* PutTo links a way to the tail of one list of the table.
LEMMA PutToIs ==
  ASSUME NEW l \in LinksType, NEW list \in List, NEW w \in Way
  PROVE  /\ PutTo(l, list, w) \in LinksType
         /\ AsTable(PutTo(l, list, w))
              = WithChainOf(AsTable(l), list, PushTailOf(ChainOf(AsTable(l), list), w, WAY_NONE))
<1>1. PICK t : t = l.tail[list]
  OBVIOUS
<1>2. t \in Way \cup {WAY_NONE}
  BY <1>1 DEF LinksType
<1>3. PICK m : m = PutTo(l, list, w)
  OBVIOUS
<1>4. m = [head    |-> IF t = WAY_NONE THEN [l.head EXCEPT ![list] = w] ELSE l.head,
           tail    |-> [l.tail EXCEPT ![list] = w],
           prevWay |-> [l.prevWay EXCEPT ![w] = t],
           nextWay |-> IF t = WAY_NONE THEN [l.nextWay EXCEPT ![w] = WAY_NONE]
                       ELSE [l.nextWay EXCEPT ![w] = WAY_NONE, ![t] = w]]
  BY <1>1, <1>3 DEF PutTo
<1>5. /\ l.head \in [List -> Way \cup {WAY_NONE}] /\ l.tail \in [List -> Way \cup {WAY_NONE}]
      /\ l.prevWay \in [Way -> Way \cup {WAY_NONE}] /\ l.nextWay \in [Way -> Way \cup {WAY_NONE}]
  BY DEF LinksType
<1>6. m \in LinksType
  BY <1>2, <1>4, <1>5 DEF LinksType
<1>7. PICK c : c = PushTailOf(ChainOf(AsTable(l), list), w, WAY_NONE)
  OBVIOUS
<1>8. c = [head |-> IF t = WAY_NONE THEN w ELSE l.head[list],
           tail |-> w,
           prev |-> [l.prevWay EXCEPT ![w] = t],
           next |-> IF t = WAY_NONE THEN [l.nextWay EXCEPT ![w] = WAY_NONE]
                    ELSE [l.nextWay EXCEPT ![w] = WAY_NONE, ![t] = w]]
  BY <1>1, <1>7 DEF PushTailOf, ChainOf, AsTable
<1>9. WithChainOf(AsTable(l), list, c) =
        [head |-> [l.head EXCEPT ![list] = c.head], tail |-> [l.tail EXCEPT ![list] = c.tail],
         prev |-> c.prev, next |-> c.next]
  BY DEF WithChainOf, AsTable
<1>10. m.head = [l.head EXCEPT ![list] = c.head] /\ m.tail = [l.tail EXCEPT ![list] = c.tail]
  BY <1>4, <1>5, <1>8
<1>11. m.prevWay = c.prev /\ m.nextWay = c.next
  BY <1>4, <1>8
<1>12. AsTable(m) = WithChainOf(AsTable(l), list, c)
  BY <1>9, <1>10, <1>11 DEF AsTable
<1> QED BY <1>3, <1>6, <1>7, <1>12

\* A way that is moved is on the other list, and the lists stay whole.
LEMMA MoveListed ==
  ASSUME NEW M \in [List -> SUBSET Way], Listed(links, M), ApartIn(M, List),
         NEW from \in List, NEW to \in List, NEW w \in M[from]
  PROVE  /\ MovedTo(M, to, w) \in [List -> SUBSET Way]
         /\ Listed(Move(w, from, to), MovedTo(M, to, w))
         /\ ApartIn(MovedTo(M, to, w), List)
<1>1. w \in Way
  OBVIOUS
<1>2. PICK l : l = GetFrom(links, from, w)
  OBVIOUS
<1>3. PICK K : K = [m \in List |-> IF m = from THEN M[from] \ {w} ELSE M[m]]
  OBVIOUS
<1>4. l \in LinksType /\ TableIn(AsTable(l), K, List, Way, WAY_NONE)
  <2>1. /\ l \in LinksType
        /\ AsTable(l) = WithChainOf(AsTable(links), from, UnlinkOf(ChainOf(AsTable(links), from), w, WAY_NONE))
    BY <1>1, <1>2, GetFromIs DEF Listed
  <2>2. TableIn(AsTable(links), M, List, Way, WAY_NONE)
    BY DEF Listed
  <2>3. TableIn(WithChainOf(AsTable(links), from, UnlinkOf(ChainOf(AsTable(links), from), w, WAY_NONE)), K, List, Way, WAY_NONE)
    BY <1>3, <2>2, NoneIsNoWay, LeavesChain
  <2> QED BY <2>1, <2>3
<1>5. \A m \in List : w \notin K[m]
  BY <1>3 DEF ApartIn
<1>6. ApartIn(K, List)
  BY <1>3 DEF ApartIn
<1>7. PICK u : u = PutTo(l, to, w)
  OBVIOUS
<1>8. PICK J : J = [m \in List |-> IF m = to THEN K[to] \cup {w} ELSE K[m]]
  OBVIOUS
<1>9. u \in LinksType /\ TableIn(AsTable(u), J, List, Way, WAY_NONE)
  <2>1. /\ u \in LinksType
        /\ AsTable(u) = WithChainOf(AsTable(l), to, PushTailOf(ChainOf(AsTable(l), to), w, WAY_NONE))
    BY <1>1, <1>4, <1>7, PutToIs
  <2>2. TableIn(WithChainOf(AsTable(l), to, PushTailOf(ChainOf(AsTable(l), to), w, WAY_NONE)), J, List, Way, WAY_NONE)
    BY <1>1, <1>4, <1>5, <1>6, <1>8, NoneIsNoWay, EntersChain
  <2> QED BY <2>1, <2>2
<1>10. J = MovedTo(M, to, w)
  <2>1. \A m \in List : J[m] = IF m = to THEN M[m] \cup {w} ELSE M[m] \ {w}
    BY <1>3, <1>5, <1>8
  <2> QED BY <1>8, <2>1 DEF MovedTo
<1>11. Move(w, from, to) = u
  BY <1>2, <1>7 DEF Move
<1>12. MovedTo(M, to, w) \in [List -> SUBSET Way] /\ ApartIn(MovedTo(M, to, w), List)
  BY <1>1 DEF MovedTo, ApartIn
<1> QED BY <1>9, <1>10, <1>11, <1>12 DEF Listed

\* What walking along a list meets is the list.
LEMMA WalkIs ==
  ASSUME NEW M \in [List -> SUBSET Way], Listed(links, M), NEW list \in List
  PROVE  \E s : /\ LinkedIn(ChainOf(AsTable(links), list), s, Way, WAY_NONE)
                /\ ToSet(s) = M[list] /\ Len(s) \in 0..USER_WAYS /\ Walk(list) = s
<1>1. PICK l : l = ChainOf(AsTable(links), list)
  OBVIOUS
<1>2. PICK s : LinkedIn(l, s, Way, WAY_NONE) /\ ToSet(s) = M[list]
  BY <1>1 DEF Listed, TableIn
<1>3. IsFiniteSet(Way) /\ Cardinality(Way) = USER_WAYS /\ USER_WAYS \in Nat \ {0}
  BY WaysFinite
<1>4. Len(s) \in 0..USER_WAYS
  <2>1. Len(s) <= Cardinality(Way)
    BY <1>2, <1>3, NoneIsNoWay, LinkedLengthIn
  <2>2. Len(s) \in Nat
    BY <1>2, NoneIsNoWay, EntriesIn
  <2> QED BY <1>3, <2>1, <2>2
<1>5. WalkOf(l.head, l.next, USER_WAYS, WAY_NONE) = s
  <2>1. Len(s) <= USER_WAYS
    BY <1>3, <1>4
  <2> QED BY <1>2, <1>3, <2>1, NoneIsNoWay, WalkLinkedIn
<1>6. l.head = links.head[list] /\ l.next = links.nextWay
  BY <1>1 DEF ChainOf, AsTable
<1>7. WalkOf(links.head[list], links.nextWay, USER_WAYS, WAY_NONE) = s
  BY <1>5, <1>6
<1>8. Walk(list) = s
  BY <1>7 DEF Walk, WalkOf
<1> QED BY <1>1, <1>2, <1>4, <1>8

\* The ends of a list, and the way next to one.
LEMMA NextListed ==
  ASSUME NEW M \in [List -> SUBSET Way], NEW l0, Listed(l0, M), NEW list \in List
  PROVE  /\ l0.head[list] \in M[list] \cup {WAY_NONE} /\ l0.tail[list] \in M[list] \cup {WAY_NONE}
         /\ l0.head[list] = WAY_NONE <=> M[list] = {}
         /\ l0.head[list] # WAY_NONE => l0.prevWay[l0.head[list]] = WAY_NONE
         /\ \A w \in M[list] : /\ l0.nextWay[w] \in (M[list] \ {w}) \cup {WAY_NONE}
                               /\ l0.nextWay[w] # WAY_NONE => l0.prevWay[l0.nextWay[w]] = w
<1>1. PICK l : l = ChainOf(AsTable(l0), list)
  OBVIOUS
<1>2. PICK s : LinkedIn(l, s, Way, WAY_NONE) /\ ToSet(s) = M[list]
  BY <1>1 DEF Listed, TableIn
<1>3. l.head = l0.head[list] /\ l.tail = l0.tail[list] /\ l.next = l0.nextWay /\ l.prev = l0.prevWay
  BY <1>1 DEF ChainOf, AsTable
<1>4. /\ Len(s) \in Nat /\ (s = <<>> <=> Len(s) = 0)
      /\ \A i \in 1..Len(s) : s[i] \in Way /\ s[i] # WAY_NONE /\ s[i] \in M[list]
  BY <1>2, NoneIsNoWay, EntriesIn
<1>5. s \in Seq(Way) /\ NoDup(s)
  BY <1>2 DEF LinkedIn
<1>6. CASE s = <<>>
  <2>1. M[list] = {}
    BY <1>2, <1>6 DEF ToSet
  <2>2. l0.head[list] = WAY_NONE /\ l0.tail[list] = WAY_NONE
    BY <1>2, <1>3, <1>6 DEF LinkedIn
  <2> QED BY <2>1, <2>2
<1>7. CASE s # <<>>
  <2>1. 1 \in 1..Len(s) /\ Len(s) \in 1..Len(s)
    BY <1>4, <1>7
  <2>2. /\ l0.head[list] = s[1] /\ s[1] \in M[list] /\ s[1] # WAY_NONE /\ l0.prevWay[s[1]] = WAY_NONE
        /\ l0.tail[list] \in M[list]
    BY <1>2, <1>3, <1>4, <1>7, <2>1 DEF LinkedIn
  <2>3. ASSUME NEW w \in M[list]
        PROVE  /\ l0.nextWay[w] \in (M[list] \ {w}) \cup {WAY_NONE}
               /\ l0.nextWay[w] # WAY_NONE => l0.prevWay[l0.nextWay[w]] = w
    <3>1. PICK i \in 1..Len(s) : s[i] = w
      BY <1>2, <1>5 DEF ToSet
    <3>2. l0.nextWay[w] = IF i = Len(s) THEN WAY_NONE ELSE s[i + 1]
      BY <1>2, <1>3, <3>1 DEF LinkedIn
    <3>3. i # Len(s) => i + 1 \in 1..Len(s) /\ s[i + 1] # s[i] /\ i + 1 # 1 /\ (i + 1) - 1 = i
      BY <1>4, <1>5 DEF NoDup
    <3>4. i # Len(s) => l0.prevWay[s[i + 1]] = s[i]
      BY <1>2, <1>3, <3>3 DEF LinkedIn
    <3> QED BY <1>4, <3>1, <3>2, <3>3, <3>4
  <2> QED BY <2>2, <2>3
<1> QED BY <1>6, <1>7

\* A pass goes on with a list that has a way, or ends.
LEMMA AfterListIs ==
  ASSUME NEW list \in Range(Priority), NEW l
  PROVE  \/ AfterList(list, l) = "poll"
         \/ /\ AfterList(list, l) \in Range(Priority) \ {"statusCheck"}
            /\ l.head[AfterList(list, l)] # WAY_NONE
<1> DEFINE at  == CHOOSE i \in DOMAIN Priority : Priority[i] = list
           due == {i \in DOMAIN Priority : i > at /\ l.head[Priority[i]] # WAY_NONE}
<1>1. AfterList(list, l) = IF due = {} THEN "poll" ELSE Priority[Min(due)]
  BY DEF AfterList
<1>2. DOMAIN Priority = 1..5
  BY DEF Priority
<1>3. at \in 1..5
  BY <1>2 DEF Range
<1>4. due \subseteq 2..5 /\ \A i \in due : l.head[Priority[i]] # WAY_NONE
  <2>1. \A i \in due : i \in DOMAIN Priority /\ i > at /\ l.head[Priority[i]] # WAY_NONE
    <3> HIDE DEF at
    <3> QED OBVIOUS
  <2> HIDE DEF at, due
  <2>2. \A i \in due : i \in 2..5
    BY <1>2, <1>3, <2>1
  <2> QED BY <2>1, <2>2
<1> HIDE DEF at, due
<1>5. CASE due # {}
  <2>1. due \in SUBSET Nat
    BY <1>4
  <2>2. Min(due) \in due
    BY <1>5, <2>1, MinOf
  <2>3. PICK i \in 2..5 : i = Min(due) /\ l.head[Priority[i]] # WAY_NONE
    BY <1>4, <2>2
  <2>4. Priority[i] # "statusCheck"
    <3>1. /\ Priority[2] = "readTrigger" /\ Priority[3] = "erase"
          /\ Priority[4] = "write" /\ Priority[5] = "readTransfer"
      BY DEF Priority
    <3>2. i = 2 \/ i = 3 \/ i = 4 \/ i = 5
      OBVIOUS
    <3> QED BY <3>1, <3>2
  <2>5. Priority[i] \in Range(Priority)
    BY <1>2 DEF Range
  <2>6. AfterList(list, l) = Priority[i]
    BY <1>1, <1>5, <2>3
  <2> QED BY <2>3, <2>4, <2>5, <2>6
<1>6. CASE due = {}
  BY <1>1, <1>6
<1> QED BY <1>5, <1>6

\* A way of the status check list whose die is ready.
LEMMA CheckableIs ==
  ASSUME NEW M \in [List -> SUBSET Way], Listed(links, M), Checkable # {}
  PROVE  /\ Walk("statusCheck")[Min(Checkable)] \in M["statusCheck"]
         /\ busy[Walk("statusCheck")[Min(Checkable)]] = "none"
<1>1. PICK s : ToSet(s) = M["statusCheck"] /\ Walk("statusCheck") = s /\ s \in Seq(Way)
  <2>1. "statusCheck" \in List
    BY DEF List
  <2> QED BY <2>1, WalkIs DEF LinkedIn
<1>2. Checkable \in SUBSET (1..Len(s))
  BY <1>1 DEF Checkable
<1>3. Min(Checkable) \in Checkable
  <2>1. Checkable \in SUBSET Nat
    BY <1>2
  <2> QED BY <2>1, MinOf
<1>4. s[Min(Checkable)] \in ToSet(s) /\ busy[s[Min(Checkable)]] = "none"
  BY <1>1, <1>2, <1>3 DEF Checkable, ToSet, V2FReadyBusyAsync
<1> QED BY <1>1, <1>4

-----------------------------------------------------------------------------
(* The inductive invariant.                                                *)

\* TypeOK without the count of the ways that wait.
TypesInv ==
  /\ nandReqQ \in [Way -> Seq(Code \cup {"READ", "READ_TRANSFER"})]
  /\ dieState \in [Way -> {"IDLE", "EXE"}]
  /\ reqStatusCheckOpt \in [Way -> {"NONE", "CHECK", "REPORT", "COMPLETION_FLAG"}]
  /\ retryLimit \in [Way -> 0..RETRY_LIMIT]
  /\ statusReport \in [Way -> {"none", "busy", "pass", "fail"}]
  /\ completeFlag \in [Way -> {"none", "pass", "warning", "fail"}]
  /\ commands \in [Way -> Seq({"READ", "READ_TRANSFER", "WRITE", "ERASE", "STATUS"})]
  /\ busy \in [Way -> {"none", "READ", "WRITE", "ERASE"}]
  /\ dieStatus \in [Way -> {"pass", "fail"}] /\ register \in [Way -> BOOLEAN]
  /\ last \in [Way -> {"none", "READ", "READ_TRANSFER", "WRITE", "ERASE"} \X {"none", "pass", "warning", "fail"}]
  /\ failures \in [Way -> Nat]

\* The types of a pass.
PassTypes ==
  /\ pc \in {"poll", "idle", "report", "rearm"} \cup Range(Priority)
  /\ wayNo \in Way \cup {WAY_NONE} /\ readyBusy \subseteq Way
  /\ answer \in {"none", "good", "bad", "warning"}
  /\ answer # "none" => pc = "rearm"

\* The first request of a way has just been completed.
Answering(w) == pc = "rearm" /\ w = wayNo /\ answer # "none"

\* The failures of the first request are the tries used up, and n more.
Balance(w, n) == failures[w] + retryLimit[w] = RETRY_LIMIT + n

\* The die is at rest, and the first request has no result that counts.
Fresh(w) == busy[w] = "none" /\ Balance(w, 0)

\* The operation c of the first request has ended with r.
Ended(w, c, r) ==
  /\ busy[w] = "none" /\ last[w] = <<c, r>>
  /\ c = "READ" /\ r = "pass" => register[w]
  /\ Balance(w, IF r = "fail" THEN 1 ELSE 0)

\* The operation c has begun: the die works on it, or has ended it.
Started(w, c) == \/ busy[w] = c /\ Balance(w, 0)
                 \/ Ended(w, c, dieStatus[w])

\* A request whose status is to be asked for.
Checked(w, c) == \/ commands[w] = <<c>> /\ Fresh(w)
                 \/ commands[w] = <<>> /\ Started(w, c)

\* A request whose status has been asked for: the report is what the die said.
Reported(w, c) ==
  \/ statusReport[w] = "none" /\ commands[w] = <<c, "STATUS">> /\ Fresh(w)
  \/ statusReport[w] = "none" /\ commands[w] = <<"STATUS">> /\ Started(w, c)
  \/ statusReport[w] = "busy" /\ commands[w] = <<>> /\ Started(w, c)
  \/ statusReport[w] \in {"pass", "fail"} /\ commands[w] = <<>> /\ Ended(w, c, statusReport[w])

\* A page on its way out of the register.
Transferred(w) ==
  \/ completeFlag[w] = "none" /\ commands[w] = <<"READ_TRANSFER">> /\ register[w] /\ Fresh(w)
  \/ completeFlag[w] # "none" /\ commands[w] = <<>> /\ Ended(w, "READ_TRANSFER", completeFlag[w])

\* A way with nothing under way; the register holds what a transfer will ask for.
Resting(w) ==
  /\ commands[w] = <<>> /\ busy[w] = "none"
  /\ nandReqQ[w] # <<>> /\ Head(nandReqQ[w]) = "READ_TRANSFER" => register[w]
  /\ IF Answering(w) THEN /\ retryLimit[w] = RETRY_LIMIT
                          /\ nandReqQ[w] # <<>> => Head(nandReqQ[w]) \in Code
     ELSE Balance(w, 0)

\* A way whose first request is under way.
Working(w) ==
  /\ nandReqQ[w] # <<>>
  /\ \/ /\ reqStatusCheckOpt[w] = "CHECK" /\ Head(nandReqQ[w]) \in Code \cup {"READ"}
        /\ Checked(w, Head(nandReqQ[w]))
     \/ /\ reqStatusCheckOpt[w] = "REPORT" /\ Head(nandReqQ[w]) \in Code \cup {"READ"}
        /\ Reported(w, Head(nandReqQ[w]))
     \/ /\ reqStatusCheckOpt[w] = "COMPLETION_FLAG" /\ Head(nandReqQ[w]) = "READ_TRANSFER"
        /\ Transferred(w)

\* Only the first request of a queue has reached its second half.
Behind(w) == \A i \in 2..Len(nandReqQ[w]) : nandReqQ[w][i] \in Code

\* Where the first request of a way is.
Stage(w) == Behind(w) /\ IF dieState[w] = "IDLE" THEN Resting(w) ELSE Working(w)

\* That is so of every way.
WayInv == \A w \in Way : Stage(w)

\* The walk of a pass is at a way of its list; a list is served if it has one.
WalkAt(M) ==
  /\ pc = "idle" => wayNo \in M["idle"] \cup {WAY_NONE}
  /\ pc = "report" => wayNo \in M["statusReport"] \cup {WAY_NONE}
  /\ pc = "rearm" => wayNo \in M["statusReport"] /\ dieState[wayNo] = "IDLE"
  /\ pc \in Range(Priority) \ {"statusCheck"} => M[pc] # {}

\* The ways R of a list are those that the walk has yet to come to.
Ahead(list, M, R) ==
  /\ R \subseteq M[list]
  /\ wayNo # WAY_NONE => wayNo \in R /\ links.prevWay[wayNo] \notin R
  /\ \A v \in R : links.nextWay[v] \in R \cup {WAY_NONE}

\* The ways W have been counted as waiting, and none of them will be again.
CountedAs(M, W, R) ==
  /\ Cardinality(W) = waitWayCnt /\ W \cap R = {} /\ W \subseteq M["idle"] \cup M["statusReport"]
  /\ pc = "idle" => W \subseteq M["idle"] /\ Ahead("idle", M, R)
  /\ pc \in {"report", "rearm"} => Ahead("statusReport", M, R)
  /\ pc \notin {"idle", "report", "rearm"} => waitWayCnt = 0

\* The count of a pass is that of some such ways.
Counted(M) == \E W, R \in SUBSET Way : CountedAs(M, W, R)

\* The lists hold the ways M: every way is on one list, and fits it.
Places(M) ==
  /\ Listed(links, M) /\ ApartIn(M, List)
  /\ \A w \in Way : \E list \in List : w \in M[list]
  /\ \A list \in List : \A w \in M[list] : Fits(w, list)
  /\ WalkAt(M) /\ Counted(M)

\* The lists hold some ways in that way.
ListsInv == \E M \in [List -> SUBSET Way] : Places(M)

\* The inductive invariant.
WaySchedInv == TypesInv /\ PassTypes /\ WayInv /\ AnsweredAsHappened /\ ListsInv

-----------------------------------------------------------------------------
(* Queues of requests and of commands.                                     *)

\* A request at the end of a queue.
LEMMA AppendFacts ==
  ASSUME NEW S, NEW s \in Seq(S), NEW c \in S, NEW t, t = Append(s, c)
  PROVE  /\ t \in Seq(S) /\ t # <<>> /\ Head(t) = IF s = <<>> THEN c ELSE Head(s)
         /\ \A i \in 2..Len(t) : t[i] = c \/ (i \in 2..Len(s) /\ t[i] = s[i])
<1>1. /\ t \in Seq(S) /\ Len(s) \in Nat /\ Len(t) = Len(s) + 1 /\ t[Len(s) + 1] = c
      /\ \A i \in 1..Len(s) : t[i] = s[i]
  BY AppendProperties
<1>2. t # <<>> /\ Head(t) = t[1]
  BY <1>1
<1>3. CASE s = <<>>
  BY <1>1, <1>2, <1>3
<1>4. CASE s # <<>>
  <2>1. Len(s) >= 1 /\ Head(s) = s[1]
    BY <1>1, <1>4
  <2>2. \A i \in 2..Len(t) : i = Len(s) + 1 \/ i \in 2..Len(s)
    BY <1>1
  <2> QED BY <1>1, <1>2, <1>4, <2>1, <2>2
<1> QED BY <1>3, <1>4

\* What is left of a queue without its first request.
LEMMA TailFacts ==
  ASSUME NEW S, NEW s \in Seq(S), s # <<>>, NEW t, t = Tail(s)
  PROVE  /\ t \in Seq(S) /\ Head(s) \in S
         /\ \A i \in 2..Len(t) : i + 1 \in 2..Len(s) /\ t[i] = s[i + 1]
         /\ t # <<>> => 2 \in 2..Len(s) /\ Head(t) = s[2]
<1>1. /\ t \in Seq(S) /\ Head(s) \in S /\ Len(s) \in Nat \ {0} /\ Len(t) = Len(s) - 1
      /\ \A i \in 1..Len(t) : t[i] = s[i + 1]
  BY HeadTailProperties
<1>2. \A i \in 2..Len(t) : i + 1 \in 2..Len(s) /\ t[i] = s[i + 1]
  BY <1>1
<1>3. t # <<>> => Len(t) >= 1 /\ Head(t) = t[1] /\ 1 + 1 = 2
  BY <1>1
<1>4. t # <<>> => 1 \in 1..Len(t) /\ 2 \in 2..Len(s)
  BY <1>1, <1>3
<1> QED BY <1>1, <1>2, <1>3, <1>4

\* A queue whose first request has another code.
LEMMA RecodeFacts ==
  ASSUME NEW S, NEW s \in Seq(S), s # <<>>, NEW c \in S, NEW t, t = <<c>> \o Tail(s)
  PROVE  /\ t \in Seq(S) /\ t # <<>> /\ Head(t) = c /\ Len(t) = Len(s)
         /\ \A i \in 2..Len(t) : t[i] = s[i]
<1>1. PICK u : u = Tail(s)
  OBVIOUS
<1>2. /\ u \in Seq(S) /\ Len(s) \in Nat \ {0} /\ Len(u) = Len(s) - 1
      /\ \A i \in 1..Len(u) : u[i] = s[i + 1]
  BY <1>1, HeadTailProperties
<1>3. <<c>> \in Seq(S) /\ Len(<<c>>) = 1 /\ <<c>>[1] = c
  OBVIOUS
<1>4. /\ t \in Seq(S) /\ Len(t) = Len(<<c>>) + Len(u)
      /\ \A i \in 1..(Len(<<c>>) + Len(u)) : t[i] = IF i <= Len(<<c>>) THEN <<c>>[i] ELSE u[i - Len(<<c>>)]
  BY <1>1, <1>2, <1>3, ConcatProperties
<1>5. Len(t) = Len(s) /\ \A i \in 1..Len(s) : t[i] = IF i <= 1 THEN c ELSE u[i - 1]
  BY <1>2, <1>3, <1>4
<1>6. t # <<>> /\ Head(t) = t[1] /\ 1 \in 1..Len(s)
  BY <1>2, <1>4, <1>5
<1>7. \A i \in 2..Len(t) : t[i] = s[i]
  BY <1>2, <1>5
<1> QED BY <1>4, <1>5, <1>6, <1>7

\* The few commands a way has.
LEMMA CommandFacts ==
  ASSUME NEW a, NEW b
  PROVE  /\ <<a>> # <<>> /\ Head(<<a>>) = a /\ Tail(<<a>>) = <<>>
         /\ <<a, b>> # <<>> /\ Head(<<a, b>>) = a /\ Tail(<<a, b>>) = <<b>>
         /\ Append(<<>>, a) = <<a>> /\ Append(<<a>>, b) = <<a, b>>
<1>0. PICK S : S = {a, b}
  OBVIOUS
<1>1. /\ <<a>> \in Seq(S) /\ Len(<<a>>) = 1 /\ <<a>>[1] = a
      /\ b \in S
      /\ <<a, b>> \in Seq(S) /\ Len(<<a, b>>) = 2 /\ <<a, b>>[1] = a /\ <<a, b>>[2] = b
  BY <1>0
<1>2. <<a>> # <<>> /\ Head(<<a>>) = a
  OBVIOUS
<1>3. Tail(<<a>>) = <<>>
  OBVIOUS
<1>4. <<a, b>> # <<>> /\ Head(<<a, b>>) = a
  OBVIOUS
<1>5. Tail(<<a, b>>) = <<b>>
  OBVIOUS
<1>6. Append(<<>>, a) = <<a>>
  OBVIOUS
<1>7. Append(<<a>>, b) = <<a, b>>
  <2>1. PICK t, u : t = Append(<<a>>, b) /\ u = <<a, b>>
    OBVIOUS
  <2>2. t \in Seq(S) /\ Len(t) = 2 /\ t[1] = a /\ t[2] = b
    BY <1>1, <2>1, AppendProperties
  <2>3. u \in Seq(S) /\ Len(u) = 2 /\ u[1] = a /\ u[2] = b
    BY <1>1, <2>1
  <2>4. \A i \in 1..Len(t) : t[i] = u[i]
    <3>1. \A i \in 1..2 : i = 1 \/ i = 2
      OBVIOUS
    <3> QED BY <2>2, <2>3, <3>1
  <2>5. t = u
    BY <2>2, <2>3, <2>4, SeqEqual
  <2> QED BY <2>1, <2>5
<1> QED BY <1>2, <1>3, <1>4, <1>5, <1>6, <1>7

-----------------------------------------------------------------------------
(* What a step leaves alone.                                               *)

\* Nothing happens to way v.
SameWay(v) ==
  /\ nandReqQ'[v] = nandReqQ[v] /\ dieState'[v] = dieState[v]
  /\ reqStatusCheckOpt'[v] = reqStatusCheckOpt[v] /\ retryLimit'[v] = retryLimit[v]
  /\ statusReport'[v] = statusReport[v] /\ completeFlag'[v] = completeFlag[v]
  /\ commands'[v] = commands[v] /\ busy'[v] = busy[v] /\ dieStatus'[v] = dieStatus[v]
  /\ register'[v] = register[v] /\ last'[v] = last[v] /\ failures'[v] = failures[v]

\* Then its request stays where it is.
LEMMA StageStays ==
  ASSUME NEW v, Stage(v), SameWay(v), Answering(v)' <=> Answering(v)
  PROVE  Stage(v)'
<1>1. \A n : Balance(v, n)' <=> Balance(v, n)
  BY DEF Balance, SameWay
<1>2. Fresh(v)' <=> Fresh(v)
  BY <1>1 DEF Fresh, SameWay
<1>3. \A c, r : Ended(v, c, r)' <=> Ended(v, c, r)
  BY <1>1 DEF Ended, SameWay
<1>4. \A c : Started(v, c)' <=> Started(v, c)
  BY <1>1, <1>3 DEF Started, SameWay
<1>5. \A c : (Checked(v, c)' <=> Checked(v, c)) /\ (Reported(v, c)' <=> Reported(v, c))
  BY <1>2, <1>3, <1>4 DEF Checked, Reported, SameWay
<1>6. Transferred(v)' <=> Transferred(v)
  BY <1>2, <1>3 DEF Transferred, SameWay
<1>7. Working(v)' <=> Working(v)
  BY <1>5, <1>6 DEF Working, SameWay
<1>8. Resting(v)' <=> Resting(v)
  BY <1>1 DEF Resting, SameWay
<1>9. Behind(v)' <=> Behind(v)
  BY DEF Behind, SameWay
<1> QED BY <1>7, <1>8, <1>9 DEF Stage, SameWay

\* And it fits its list.
LEMMA FitsStays ==
  ASSUME NEW v, NEW list, Fits(v, list),
         nandReqQ'[v] = nandReqQ[v], dieState'[v] = dieState[v], reqStatusCheckOpt'[v] = reqStatusCheckOpt[v],
         pc = "rearm" /\ v = wayNo => pc' = "rearm" /\ v = wayNo'
  PROVE  Fits(v, list)'
<1>1. CASE list = "statusReport"
  BY <1>1 DEF Fits
<1>2. CASE list \in {"idle", "statusCheck"}
  BY <1>2 DEF Fits
<1>3. CASE list \notin {"idle", "statusCheck", "statusReport"}
  BY <1>3 DEF Fits
<1> QED BY <1>1, <1>2, <1>3

\* The lists are as they were.
LEMMA ListsStay ==
  ASSUME ListsInv, UNCHANGED <<fw, pass>>
  PROVE  ListsInv'
<1>1. PICK M \in [List -> SUBSET Way] : Places(M)
  BY DEF ListsInv
<1>2. \A list \in List : \A w \in M[list] : Fits(w, list)'
  BY <1>1, FitsStays DEF Places, fw, pass
<1>3. Places(M)'
  BY <1>1, <1>2 DEF Places, WalkAt, Counted, CountedAs, Ahead, fw, pass
<1> QED BY <1>3 DEF ListsInv

\* So is the answer.
LEMMA AnswerStays ==
  ASSUME AnsweredAsHappened, answer' = answer, wayNo' = wayNo,
         answer # "none" => last'[wayNo] = last[wayNo] /\ failures'[wayNo] = failures[wayNo]
  PROVE  AnsweredAsHappened'
BY DEF AnsweredAsHappened

\* A step that does not answer has no answer to account for.
LEMMA NoAnswer == answer' = "none" => AnsweredAsHappened'
BY DEF AnsweredAsHappened

\* The types of what belongs to a way.
LEMMA WayTypes ==
  ASSUME TypesInv, NEW w \in Way
  PROVE  /\ nandReqQ[w] \in Seq(Code \cup {"READ", "READ_TRANSFER"})
         /\ dieState[w] \in {"IDLE", "EXE"} /\ reqStatusCheckOpt[w] \in {"NONE", "CHECK", "REPORT", "COMPLETION_FLAG"}
         /\ retryLimit[w] \in 0..RETRY_LIMIT /\ retryLimit[w] \in Nat /\ failures[w] \in Nat /\ RETRY_LIMIT \in Nat
         /\ statusReport[w] \in {"none", "busy", "pass", "fail"} /\ completeFlag[w] \in {"none", "pass", "warning", "fail"}
         /\ commands[w] \in Seq({"READ", "READ_TRANSFER", "WRITE", "ERASE", "STATUS"})
         /\ busy[w] \in {"none", "READ", "WRITE", "ERASE"} /\ dieStatus[w] \in {"pass", "fail"} /\ register[w] \in BOOLEAN
BY RetryAssumption DEF TypesInv

\* The types of the result of an operation of a die.
LEMMA ResultTypes ==
  ASSUME TypesInv, NEW w \in Way, NEW c \in {"READ", "READ_TRANSFER", "WRITE", "ERASE"},
         NEW r \in {"pass", "warning", "fail"}, Result(w, c, r)
  PROVE  /\ last' \in [Way -> {"none", "READ", "READ_TRANSFER", "WRITE", "ERASE"} \X {"none", "pass", "warning", "fail"}]
         /\ failures' \in [Way -> Nat]
<1>1. /\ last \in [Way -> {"none", "READ", "READ_TRANSFER", "WRITE", "ERASE"} \X {"none", "pass", "warning", "fail"}]
      /\ failures \in [Way -> Nat]
  BY DEF TypesInv
<1>2. last' = [last EXCEPT ![w] = <<c, r>>]
  BY DEF Result
<1>3. PICK n : n = IF r = "fail" THEN failures[w] + 1 ELSE failures[w]
  OBVIOUS
<1>4. failures' = [failures EXCEPT ![w] = n] /\ n \in Nat
  BY <1>1, <1>3 DEF Result
<1>5. <<c, r>> \in {"none", "READ", "READ_TRANSFER", "WRITE", "ERASE"} \X {"none", "pass", "warning", "fail"}
  OBVIOUS
<1> QED BY <1>1, <1>2, <1>4, <1>5

\* The codes of requests that go to a die, and the names of the codes.
LEMMA Codes ==
  /\ Code \cup {"READ"} \subseteq {"READ", "WRITE", "ERASE"}
  /\ "READ_TRANSFER" \notin Code /\ "STATUS" \notin Code
BY CodeAssumption

-----------------------------------------------------------------------------
(* The controller and the dies.                                            *)

\* The first command of a way that has one, and what is left of the others.
LEMMA FirstCommand ==
  ASSUME TypesInv, NEW w \in Way, Stage(w), commands[w] # <<>>
  PROVE  LET c == Head(nandReqQ[w]) IN
         /\ dieState[w] = "EXE" /\ nandReqQ[w] # <<>>
         /\ \/ /\ commands[w] = <<"STATUS">> /\ c \in {"READ", "WRITE", "ERASE"} /\ c \in Code \cup {"READ"}
               /\ reqStatusCheckOpt[w] = "REPORT" /\ statusReport[w] = "none" /\ Started(w, c)
            \/ /\ commands[w] = <<"READ_TRANSFER">> /\ c = "READ_TRANSFER" /\ register[w]
               /\ reqStatusCheckOpt[w] = "COMPLETION_FLAG" /\ Fresh(w)
            \/ /\ commands[w] = <<c>> /\ c \in {"READ", "WRITE", "ERASE"} /\ c \in Code \cup {"READ"}
               /\ reqStatusCheckOpt[w] = "CHECK" /\ Fresh(w)
            \/ /\ commands[w] = <<c, "STATUS">> /\ c \in {"READ", "WRITE", "ERASE"} /\ c \in Code \cup {"READ"}
               /\ reqStatusCheckOpt[w] = "REPORT" /\ statusReport[w] = "none" /\ Fresh(w)
<1>1. dieState[w] = "EXE" /\ Working(w)
  BY WayTypes DEF Stage, Resting
<1> QED BY <1>1, Codes DEF Working, Checked, Reported, Transferred

\* The controller hands a command to a die.
LEMMA BeginStage ==
  ASSUME TypesInv, NEW w \in Way, Stage(w), Begin(w)
  PROVE  Stage(w)' /\ TypesInv'
<1>1. PICK c : c = Head(nandReqQ[w])
  OBVIOUS
<1>2. commands[w] # <<>> /\ commands' = [commands EXCEPT ![w] = Tail(@)]
  BY DEF Begin
<1>3. UNCHANGED <<nandReqQ, dieState, reqStatusCheckOpt, retryLimit, links, pc, wayNo, answer>>
  BY DEF Begin, fw, pass
<1>4. commands' \in [Way -> Seq({"READ", "READ_TRANSFER", "WRITE", "ERASE", "STATUS"})] /\ commands'[w] = Tail(commands[w])
  <2>1. commands[w] \in Seq({"READ", "READ_TRANSFER", "WRITE", "ERASE", "STATUS"})
    BY WayTypes
  <2>2. Tail(commands[w]) \in Seq({"READ", "READ_TRANSFER", "WRITE", "ERASE", "STATUS"})
    BY <1>2, <2>1, HeadTailProperties
  <2> QED BY <1>2, <2>2 DEF TypesInv
<1>5. Behind(w)' /\ dieState[w] = "EXE" /\ nandReqQ[w] # <<>>
  BY <1>2, <1>3, FirstCommand DEF Stage, Behind
<1>6. CASE commands[w] = <<"STATUS">>
  <2>1. /\ c \in Code \cup {"READ"} /\ c \in {"READ", "WRITE", "ERASE"}
        /\ reqStatusCheckOpt[w] = "REPORT" /\ statusReport[w] = "none" /\ Started(w, c)
    <3>1. /\ Head(<<"STATUS">>) = "STATUS" /\ Head(<<"READ_TRANSFER">>) = "READ_TRANSFER"
          /\ Head(<<c>>) = c /\ Head(<<c, "STATUS">>) = c
      BY CommandFacts
    <3> QED BY <1>1, <1>2, <1>6, <3>1, FirstCommand
  <2>2. Head(commands[w]) = "STATUS" /\ commands'[w] = <<>>
    BY <1>4, <1>6, CommandFacts
  <2>3. /\ statusReport' = [statusReport EXCEPT ![w] = IF busy[w] # "none" THEN "busy" ELSE dieStatus[w]]
        /\ UNCHANGED <<completeFlag, hw>>
    BY <2>2 DEF Begin
  <2>4. TypesInv' /\ statusReport'[w] = IF busy[w] # "none" THEN "busy" ELSE dieStatus[w]
    BY <1>3, <1>4, <2>3 DEF TypesInv, hw
  <2>5. UNCHANGED <<busy, dieStatus, register, failures, last>>
    BY <2>3 DEF hw
  <2>6. Reported(w, c)'
    <3>1. CASE busy[w] = c /\ Balance(w, 0)
      BY <1>3, <2>1, <2>2, <2>4, <2>5, <3>1 DEF Reported, Started, Balance
    <3>2. CASE Ended(w, c, dieStatus[w])
      BY <1>3, <2>1, <2>2, <2>4, <2>5, <3>2, WayTypes DEF Reported, Ended, Balance
    <3> QED BY <2>1, <3>1, <3>2 DEF Started
  <2> QED BY <1>1, <1>3, <1>5, <2>1, <2>4, <2>6 DEF Stage, Working
<1>7. CASE commands[w] = <<"READ_TRANSFER">>
  <2>1. c = "READ_TRANSFER" /\ reqStatusCheckOpt[w] = "COMPLETION_FLAG" /\ Fresh(w)
    <3>1. /\ Head(<<"STATUS">>) = "STATUS" /\ Head(<<"READ_TRANSFER">>) = "READ_TRANSFER"
          /\ Head(<<c>>) = c /\ Head(<<c, "STATUS">>) = c
      BY CommandFacts
    <3> QED BY <1>1, <1>2, <1>7, <3>1, FirstCommand
  <2>2. Head(commands[w]) = "READ_TRANSFER" /\ commands'[w] = <<>>
    BY <1>4, <1>7, CommandFacts
  <2>3. PICK ecc \in {"pass", "warning", "fail"} :
          /\ completeFlag' = [completeFlag EXCEPT ![w] = ecc]
          /\ Result(w, "READ_TRANSFER", ecc)
          /\ UNCHANGED <<statusReport, busy, dieStatus, register>>
    BY <2>2 DEF Begin
  <2>4. /\ completeFlag'[w] = ecc /\ last'[w] = <<"READ_TRANSFER", ecc>>
        /\ failures'[w] = IF ecc = "fail" THEN failures[w] + 1 ELSE failures[w]
    BY <2>3 DEF Result, TypesInv
  <2>5. TypesInv'
    <3>1. completeFlag' \in [Way -> {"none", "pass", "warning", "fail"}]
      BY <2>3 DEF TypesInv
    <3>2. /\ last' \in [Way -> {"none", "READ", "READ_TRANSFER", "WRITE", "ERASE"} \X {"none", "pass", "warning", "fail"}]
          /\ failures' \in [Way -> Nat]
      BY <2>3, ResultTypes
    <3> QED BY <1>3, <1>4, <2>3, <3>1, <3>2 DEF TypesInv
  <2>6. Ended(w, "READ_TRANSFER", ecc)'
    <3>1. busy'[w] = "none" /\ retryLimit'[w] = retryLimit[w] /\ failures[w] + retryLimit[w] = RETRY_LIMIT + 0
      BY <1>3, <2>1, <2>3 DEF Fresh, Balance
    <3>2. failures'[w] + retryLimit'[w] = RETRY_LIMIT + (IF ecc = "fail" THEN 1 ELSE 0)
      BY <2>4, <3>1, WayTypes
    <3> QED BY <2>4, <3>1, <3>2 DEF Ended, Balance
  <2>7. Transferred(w)'
    BY <2>2, <2>4, <2>6 DEF Transferred
  <2> QED BY <1>1, <1>3, <1>5, <2>1, <2>5, <2>7 DEF Stage, Working
<1>8. CASE commands[w] = <<c>> \/ commands[w] = <<c, "STATUS">>
  <2>0. CASE c = "READ_TRANSFER"
    <3>1. commands[w] = <<"READ_TRANSFER">>
      <4>1. Head(commands[w]) = c /\ Head(<<"STATUS">>) = "STATUS"
        BY <1>8, CommandFacts
      <4> QED BY <1>1, <1>2, <2>0, <4>1, FirstCommand
    <3> QED BY <1>7, <3>1
  <2>1. CASE c # "READ_TRANSFER"
    <3>1. /\ c \in {"READ", "WRITE", "ERASE"} /\ c \in Code \cup {"READ"} /\ Fresh(w)
          /\ \/ commands[w] = <<c>> /\ reqStatusCheckOpt[w] = "CHECK"
             \/ commands[w] = <<c, "STATUS">> /\ reqStatusCheckOpt[w] = "REPORT" /\ statusReport[w] = "none"
      <4>1. Head(commands[w]) = c
        BY <1>8, CommandFacts
      <4>2. Head(<<"STATUS">>) = "STATUS" /\ Head(<<"READ_TRANSFER">>) = "READ_TRANSFER"
        BY CommandFacts
      <4> QED BY <1>1, <1>2, <2>1, <4>1, <4>2, FirstCommand
    <3>2. /\ Head(commands[w]) = c
          /\ commands[w] = <<c>> => commands'[w] = <<>>
          /\ commands[w] = <<c, "STATUS">> => commands'[w] = <<"STATUS">>
      <4>1. /\ Head(<<c>>) = c /\ Tail(<<c>>) = <<>>
            /\ Head(<<c, "STATUS">>) = c /\ Tail(<<c, "STATUS">>) = <<"STATUS">>
        BY CommandFacts
      <4> QED BY <1>4, <1>8, <4>1, Zenon
    <3>3. /\ busy' = [busy EXCEPT ![w] = c] /\ register' = [register EXCEPT ![w] = FALSE]
          /\ dieStatus' = [dieStatus EXCEPT ![w] = "pass"] /\ last' = [last EXCEPT ![w] = <<"none", "none">>]
          /\ UNCHANGED <<statusReport, completeFlag, failures>>
      BY <3>1, <3>2 DEF Begin
    <3>4. TypesInv' /\ busy'[w] = c
      BY <1>3, <1>4, <3>1, <3>3 DEF TypesInv
    <3>5. Started(w, c)'
      BY <1>3, <3>1, <3>3, <3>4 DEF Started, Fresh, Balance
    <3>6. CASE commands[w] = <<c>> /\ reqStatusCheckOpt[w] = "CHECK"
      BY <1>1, <1>3, <1>5, <3>1, <3>2, <3>4, <3>5, <3>6 DEF Stage, Working, Checked
    <3>7. CASE commands[w] = <<c, "STATUS">> /\ reqStatusCheckOpt[w] = "REPORT" /\ statusReport[w] = "none"
      BY <1>1, <1>3, <1>5, <3>1, <3>2, <3>3, <3>4, <3>5, <3>7 DEF Stage, Working, Reported
    <3> QED BY <3>1, <3>6, <3>7
  <2> QED BY <2>0, <2>1
<1> QED BY <1>1, <1>2, <1>6, <1>7, <1>8, FirstCommand

\* A die ends its operation, which is that of its first request.
LEMMA FinishStage ==
  ASSUME TypesInv, NEW w \in Way, Stage(w), Finish(w)
  PROVE  Stage(w)' /\ TypesInv' /\ dieState[w] = "EXE"
<1>1. PICK c : c = Head(nandReqQ[w])
  OBVIOUS
<1>2. busy[w] # "none" /\ busy' = [busy EXCEPT ![w] = "none"]
  BY DEF Finish
<1>3. /\ UNCHANGED <<nandReqQ, dieState, reqStatusCheckOpt, retryLimit, links, pc, wayNo, answer>>
      /\ UNCHANGED <<statusReport, completeFlag, commands>>
  BY DEF Finish, fw, pass
<1>4. PICK r \in {"pass", "fail"} :
        /\ dieStatus' = [dieStatus EXCEPT ![w] = r]
        /\ register' = [register EXCEPT ![w] = busy[w] = "READ" /\ r = "pass"]
        /\ Result(w, busy[w], r)
  BY DEF Finish
<1>5. dieState[w] = "EXE" /\ Working(w) /\ Behind(w)
  BY <1>2, WayTypes DEF Stage, Resting
<1>6. busy[w] = c /\ Balance(w, 0)
  BY <1>1, <1>2, <1>5, Codes DEF Working, Checked, Reported, Transferred, Fresh, Started, Ended
<1>7. /\ dieStatus'[w] = r /\ register'[w] = (c = "READ" /\ r = "pass") /\ last'[w] = <<c, r>> /\ busy'[w] = "none"
      /\ failures'[w] = IF r = "fail" THEN failures[w] + 1 ELSE failures[w]
  BY <1>2, <1>4, <1>6 DEF Result, TypesInv
<1>8. TypesInv'
  <2>1. busy[w] \in {"READ", "WRITE", "ERASE"}
    BY <1>2, WayTypes
  <2>2. (busy[w] = "READ" /\ r = "pass") \in BOOLEAN
    OBVIOUS
  <2>3. register' \in [Way -> BOOLEAN]
    BY <1>4, <2>2 DEF TypesInv
  <2>4. /\ last' \in [Way -> {"none", "READ", "READ_TRANSFER", "WRITE", "ERASE"} \X {"none", "pass", "warning", "fail"}]
        /\ failures' \in [Way -> Nat]
    BY <1>4, <2>1, ResultTypes
  <2> QED BY <1>2, <1>3, <1>4, <2>3, <2>4 DEF TypesInv
<1>9. Started(w, c)'
  <2>1. retryLimit'[w] = retryLimit[w] /\ failures[w] + retryLimit[w] = RETRY_LIMIT + 0
    BY <1>3, <1>6 DEF Balance
  <2>2. failures'[w] + retryLimit'[w] = RETRY_LIMIT + (IF r = "fail" THEN 1 ELSE 0)
    BY <1>7, <2>1, WayTypes
  <2> QED BY <1>7, <2>2 DEF Started, Ended, Balance
<1>10. Working(w)'
  <2>1. ~Fresh(w) /\ \A x, y : ~Ended(w, x, y)
    BY <1>2 DEF Fresh, Ended
  <2>2. \/ /\ reqStatusCheckOpt[w] = "CHECK" /\ c \in Code \cup {"READ"} /\ commands[w] = <<>>
        \/ /\ reqStatusCheckOpt[w] = "REPORT" /\ c \in Code \cup {"READ"}
           /\ \/ statusReport[w] = "none" /\ commands[w] = <<"STATUS">>
              \/ statusReport[w] = "busy" /\ commands[w] = <<>>
    BY <1>1, <1>5, <2>1 DEF Working, Checked, Reported, Transferred
  <2> QED BY <1>1, <1>3, <1>5, <1>9, <2>2 DEF Working, Checked, Reported
<1> QED BY <1>3, <1>5, <1>8, <1>10 DEF Stage, Behind

\* A step that concerns one way leaves the others where they are.
LEMMA OthersStay ==
  ASSUME WayInv, NEW w, w \in Way => Stage(w)',
         \A v \in Way \ {w} : SameWay(v) /\ (Answering(v)' <=> Answering(v))
  PROVE  WayInv'
<1>1. ASSUME NEW v \in Way, v # w PROVE Stage(v)'
  BY <1>1, StageStays DEF WayInv
<1> QED BY <1>1 DEF WayInv

\* An answer is given for a way whose die is idle.
LEMMA AnsweredIdle ==
  ASSUME WaySchedInv, answer # "none"
  PROVE  pc = "rearm" /\ wayNo \in Way /\ dieState[wayNo] = "IDLE"
BY DEF WaySchedInv, PassTypes, ListsInv, Places, WalkAt, List

\* The controller hands on a command.
LEMMA BeginKeepsInv ==
  ASSUME WaySchedInv, NEW w \in Way, Begin(w)
  PROVE  WaySchedInv'
<1>1. TypesInv /\ PassTypes /\ WayInv /\ AnsweredAsHappened /\ ListsInv /\ Stage(w)
  BY DEF WaySchedInv, WayInv
<1>2. /\ UNCHANGED <<nandReqQ, dieState, reqStatusCheckOpt, retryLimit, links>> /\ UNCHANGED <<fw, pass>>
      /\ UNCHANGED <<pc, wayNo, readyBusy, waitWayCnt, answer>>
  BY DEF Begin, fw, pass
<1>3. Stage(w)' /\ TypesInv'
  BY <1>1, BeginStage
<1>4. dieState[w] = "EXE"
  BY <1>1, FirstCommand DEF Begin
<1>5. ASSUME NEW v \in Way, v # w PROVE SameWay(v) /\ last'[v] = last[v] /\ failures'[v] = failures[v]
  <2>1. commands'[v] = commands[v]
    BY <1>1, <1>5 DEF Begin, TypesInv
  <2>2. /\ statusReport'[v] = statusReport[v] /\ completeFlag'[v] = completeFlag[v]
        /\ busy'[v] = busy[v] /\ dieStatus'[v] = dieStatus[v] /\ register'[v] = register[v]
        /\ last'[v] = last[v] /\ failures'[v] = failures[v]
    BY <1>1, <1>5 DEF Begin, TypesInv, Result, hw
  <2> QED BY <1>2, <2>1, <2>2 DEF SameWay
<1>6. WayInv'
  BY <1>1, <1>2, <1>3, <1>5, OthersStay DEF Answering
<1>7. AnsweredAsHappened'
  <2>1. answer # "none" => wayNo \in Way /\ wayNo # w
    BY <1>4, AnsweredIdle
  <2> QED BY <1>1, <1>2, <1>5, <2>1, AnswerStays
<1>8. ListsInv' /\ PassTypes'
  BY <1>1, <1>2, ListsStay DEF PassTypes
<1> QED BY <1>3, <1>6, <1>7, <1>8 DEF WaySchedInv

\* A die ends its operation.
LEMMA FinishKeepsInv ==
  ASSUME WaySchedInv, NEW w \in Way, Finish(w)
  PROVE  WaySchedInv'
<1>1. TypesInv /\ PassTypes /\ WayInv /\ AnsweredAsHappened /\ ListsInv /\ Stage(w)
  BY DEF WaySchedInv, WayInv
<1>2. /\ UNCHANGED <<nandReqQ, dieState, reqStatusCheckOpt, retryLimit, links>> /\ UNCHANGED <<fw, pass>>
      /\ UNCHANGED <<pc, wayNo, readyBusy, waitWayCnt, answer>>
  BY DEF Finish, fw, pass
<1>3. Stage(w)' /\ TypesInv' /\ dieState[w] = "EXE"
  BY <1>1, FinishStage
<1>4. ASSUME NEW v \in Way, v # w PROVE SameWay(v) /\ last'[v] = last[v] /\ failures'[v] = failures[v]
  BY <1>1, <1>2, <1>4 DEF Finish, Result, TypesInv, SameWay
<1>5. WayInv'
  BY <1>1, <1>2, <1>3, <1>4, OthersStay DEF Answering
<1>6. AnsweredAsHappened'
  <2>1. answer # "none" => wayNo \in Way /\ wayNo # w
    BY <1>3, AnsweredIdle
  <2> QED BY <1>1, <1>2, <1>4, <2>1, AnswerStays
<1>7. ListsInv' /\ PassTypes'
  BY <1>1, <1>2, ListsStay DEF PassTypes
<1> QED BY <1>3, <1>5, <1>6, <1>7 DEF WaySchedInv

-----------------------------------------------------------------------------
(* Requests.                                                               *)

\* A request enters a queue.
LEMMA PutToNandReqQKeepsInv ==
  ASSUME WaySchedInv, NEW w \in Way, NEW c \in Code, PutToNandReqQ(w, c)
  PROVE  WaySchedInv'
<1>1. TypesInv /\ PassTypes /\ WayInv /\ AnsweredAsHappened /\ ListsInv /\ Stage(w)
  BY DEF WaySchedInv, WayInv
<1>2. /\ UNCHANGED <<dieState, reqStatusCheckOpt, retryLimit, links, statusReport, completeFlag, commands>>
      /\ UNCHANGED <<pc, wayNo, readyBusy, waitWayCnt, busy, dieStatus, register, failures, last, answer>>
      /\ nandReqQ' = [nandReqQ EXCEPT ![w] = Append(@, c)]
      /\ pc \in {"poll", "rearm"} \/ (pc = "idle" /\ wayNo = w)
  BY DEF PutToNandReqQ, pass, hw
<1>3. PICK q, t : q = nandReqQ[w] /\ t = Append(q, c)
  OBVIOUS
<1>4. q \in Seq(Code \cup {"READ", "READ_TRANSFER"})
  BY <1>1, <1>3, WayTypes
<1>5. /\ t \in Seq(Code \cup {"READ", "READ_TRANSFER"}) /\ t # <<>> /\ Head(t) = IF q = <<>> THEN c ELSE Head(q)
      /\ \A i \in 2..Len(t) : t[i] = c \/ (i \in 2..Len(q) /\ t[i] = q[i])
  BY <1>3, <1>4, AppendFacts
<1>6. TypesInv' /\ nandReqQ'[w] = t /\ \A v \in Way : v # w => nandReqQ'[v] = nandReqQ[v]
  BY <1>1, <1>2, <1>3, <1>5 DEF TypesInv
<1>7. \A v \in Way : v # w => SameWay(v)
  BY <1>2, <1>6 DEF SameWay
<1>8. Stage(w)'
  <2>1. Behind(w)'
    BY <1>1, <1>3, <1>5, <1>6 DEF Stage, Behind
  <2>2. \A n : Balance(w, n)' <=> Balance(w, n)
    BY <1>2 DEF Balance
  <2>3. CASE dieState[w] = "IDLE"
    <3>1. Resting(w)
      BY <1>1, <2>3 DEF Stage
    <3>2. Resting(w)'
      BY <1>2, <1>3, <1>5, <1>6, <2>2, <3>1, Codes DEF Resting, Answering
    <3> QED BY <1>2, <2>1, <2>3, <3>2 DEF Stage
  <2>4. CASE dieState[w] # "IDLE"
    <3>1. Working(w)
      BY <1>1, <2>4 DEF Stage
    <3>2. Fresh(w)' <=> Fresh(w)
      BY <1>2, <2>2 DEF Fresh
    <3>3. \A x, r : Ended(w, x, r)' <=> Ended(w, x, r)
      BY <1>2, <2>2 DEF Ended
    <3>4. \A x : Started(w, x)' <=> Started(w, x)
      BY <1>2, <2>2, <3>3 DEF Started
    <3>5. \A x : (Checked(w, x)' <=> Checked(w, x)) /\ (Reported(w, x)' <=> Reported(w, x))
      BY <1>2, <3>2, <3>3, <3>4 DEF Checked, Reported
    <3>6. Transferred(w)' <=> Transferred(w)
      BY <1>2, <3>2, <3>3 DEF Transferred
    <3>7. nandReqQ'[w] # <<>> /\ Head(nandReqQ'[w]) = Head(nandReqQ[w])
      BY <1>3, <1>5, <1>6, <3>1 DEF Working
    <3>8. Working(w)'
      BY <1>2, <3>1, <3>5, <3>6, <3>7 DEF Working
    <3> QED BY <1>2, <2>1, <2>4, <3>8 DEF Stage
  <2> QED BY <2>3, <2>4
<1>9. WayInv'
  BY <1>1, <1>2, <1>7, <1>8, OthersStay DEF Answering
<1>10. AnsweredAsHappened' /\ PassTypes'
  BY <1>1, <1>2, AnswerStays DEF PassTypes
<1>11. ListsInv'
  <2>1. PICK M \in [List -> SUBSET Way] : Places(M)
    BY <1>1 DEF ListsInv
  <2>2. ASSUME NEW list \in List, NEW v \in M[list] PROVE Fits(v, list)'
    <3>1. Fits(v, list)
      BY <2>1 DEF Places
    <3>2. CASE v # w
      BY <1>2, <1>6, <2>2, <3>1, <3>2, FitsStays
    <3>3. CASE v = w /\ list \in {"idle", "statusCheck", "statusReport"}
      BY <1>2, <3>1, <3>3 DEF Fits
    <3>4. CASE v = w /\ list \notin {"idle", "statusCheck", "statusReport"}
      <4>1. dieState[w] = "IDLE" /\ nandReqQ[w] # <<>> /\ list = ListOfCode(Head(nandReqQ[w]))
        BY <3>1, <3>4 DEF Fits
      <4>2. dieState'[w] = "IDLE" /\ nandReqQ'[w] # <<>> /\ Head(nandReqQ'[w]) = Head(nandReqQ[w])
        BY <1>2, <1>3, <1>5, <1>6, <4>1
      <4> QED BY <3>4, <4>1, <4>2 DEF Fits
    <3> QED BY <3>2, <3>3, <3>4
  <2>3. Places(M)'
    BY <1>2, <2>1, <2>2 DEF Places, WalkAt, Counted, CountedAs, Ahead
  <2> QED BY <2>3 DEF ListsInv
<1> QED BY <1>6, <1>9, <1>10, <1>11 DEF WaySchedInv

-----------------------------------------------------------------------------
(* A pass: what it leaves alone.                                           *)

\* Before a request is completed nobody has been answered.
LEMMA NotAnswering ==
  ASSUME WaySchedInv, pc # "rearm"
  PROVE  answer = "none" /\ \A v : ~Answering(v)
BY DEF WaySchedInv, PassTypes, Answering

\* A step of a pass that changes nothing of a way.
LEMMA WaysStay ==
  ASSUME WaySchedInv, pc # "rearm", answer' = answer,
         UNCHANGED <<nandReqQ, dieState, reqStatusCheckOpt, retryLimit, statusReport, completeFlag, commands>>,
         UNCHANGED <<busy, dieStatus, register, failures, last>>
  PROVE  TypesInv' /\ WayInv' /\ AnsweredAsHappened'
<1>1. TypesInv /\ PassTypes /\ WayInv
  BY DEF WaySchedInv
<1>2. \A v \in Way : SameWay(v)
  BY DEF SameWay
<1>3. answer' = "none" /\ \A v : ~Answering(v) /\ ~Answering(v)'
  BY NotAnswering DEF Answering
<1>4. WayInv'
  BY <1>1, <1>2, <1>3, StageStays DEF WayInv
<1> QED BY <1>1, <1>3, <1>4, NoAnswer DEF TypesInv

\* A step of a pass that leaves the lists as they are too.
LEMMA PassStep ==
  ASSUME WaySchedInv, pc # "rearm", PassTypes', UNCHANGED <<fw, statusReport, completeFlag, commands, hw, answer>>,
         NEW M \in [List -> SUBSET Way], Places(M), WalkAt(M)', Counted(M)'
  PROVE  WaySchedInv'
<1>1. /\ UNCHANGED <<nandReqQ, dieState, reqStatusCheckOpt, retryLimit, links, statusReport, completeFlag, commands>>
      /\ UNCHANGED <<busy, dieStatus, register, failures, last, answer>>
  BY DEF fw, hw
<1>2. TypesInv' /\ WayInv' /\ AnsweredAsHappened'
  BY <1>1, WaysStay
<1>3. \A list \in List : \A v \in M[list] : Fits(v, list)'
  BY <1>1, FitsStays DEF Places
<1>4. Places(M)'
  BY <1>1, <1>3 DEF Places
<1> QED BY <1>2, <1>4 DEF WaySchedInv, ListsInv

-----------------------------------------------------------------------------
(* The ways that a pass counts as waiting.                                 *)

\* Nobody waits.
LEMMA CountZero ==
  ASSUME NEW M, waitWayCnt' = 0, pc' \notin {"idle", "report", "rearm"}
  PROVE  Counted(M)'
<1>1. CountedAs(M, {}, {})'
  BY FS_EmptySet DEF CountedAs
<1> QED BY <1>1 DEF Counted

\* Outside of the walks nobody has been counted.
LEMMA NoneCounted ==
  ASSUME NEW M, Counted(M), pc \notin {"idle", "report", "rearm"}
  PROVE  waitWayCnt = 0
BY DEF Counted, CountedAs

\* A walk has the whole list ahead of it.
LEMMA AheadAtFirst ==
  ASSUME NEW M \in [List -> SUBSET Way], Listed(links, M), NEW list \in List, links' = links, wayNo' = links.head[list]
  PROVE  Ahead(list, M, M[list])'
<1>1. /\ links.head[list] \in M[list] \cup {WAY_NONE}
      /\ links.head[list] # WAY_NONE => links.prevWay[links.head[list]] = WAY_NONE
      /\ \A v \in M[list] : links.nextWay[v] \in M[list] \cup {WAY_NONE}
  BY NextListed
<1>2. WAY_NONE \notin M[list]
  BY NoneIsNoWay
<1> QED BY <1>1, <1>2 DEF Ahead

\* The walk stays where it is.
LEMMA CountStays ==
  ASSUME NEW M, Counted(M), UNCHANGED <<links, wayNo, waitWayCnt>>, pc' = pc \/ (pc = "report" /\ pc' = "rearm")
  PROVE  Counted(M)'
BY DEF Counted, CountedAs, Ahead

\* The walk goes on from a way that it leaves where it is.
LEMMA AheadOn ==
  ASSUME NEW M \in [List -> SUBSET Way], Listed(links, M), NEW list \in List, NEW R, Ahead(list, M, R),
         NEW w, w = wayNo, w # WAY_NONE, links' = links, wayNo' = links.nextWay[w]
  PROVE  w \in R /\ Ahead(list, M, R \ {w})'
<1>1. w \in R /\ w \in M[list] /\ R \subseteq M[list] /\ links.prevWay[w] \notin R
  BY DEF Ahead
<1>2. \A v \in M[list] : /\ links.nextWay[v] \in (M[list] \ {v}) \cup {WAY_NONE}
                         /\ links.nextWay[v] # WAY_NONE => links.prevWay[links.nextWay[v]] = v
  BY NextListed
<1>3. \A v \in R : links.nextWay[v] \in R \cup {WAY_NONE}
  BY DEF Ahead
<1>4. \A v \in R \ {w} : links.nextWay[v] \in (R \ {w}) \cup {WAY_NONE}
  BY <1>1, <1>2, <1>3
<1>5. wayNo' # WAY_NONE => wayNo' \in R \ {w} /\ links.prevWay[wayNo'] = w
  BY <1>1, <1>2, <1>3
<1> QED BY <1>1, <1>4, <1>5 DEF Ahead

\* What a move does to the links of the ways that stay.
LEMMA MoveLinks ==
  ASSUME NEW M \in [List -> SUBSET Way], Listed(links, M), ApartIn(M, List),
         NEW from \in List, NEW to \in List, from # to, NEW w \in M[from]
  PROVE  /\ \A v \in M[from] \ {w} :
              Move(w, from, to).nextWay[v] = IF v = links.prevWay[w] THEN links.nextWay[w] ELSE links.nextWay[v]
         /\ links.nextWay[w] # WAY_NONE => Move(w, from, to).prevWay[links.nextWay[w]] = links.prevWay[w]
<1>1. w \in Way /\ links \in LinksType
  BY DEF Listed
<1>2. PICK g : g = GetFrom(links, from, w)
  OBVIOUS
<1>3. PICK p, n, t : p = links.prevWay[w] /\ n = links.nextWay[w] /\ t = g.tail[to]
  OBVIOUS
<1>4. /\ p \in Way \cup {WAY_NONE} /\ n \in (M[from] \ {w}) \cup {WAY_NONE}
      /\ \A v \in M[from] : v \in Way
  BY <1>1, <1>3, NextListed DEF LinksType
<1>5. /\ g.tail = IF n = WAY_NONE THEN [links.tail EXCEPT ![from] = p] ELSE links.tail
      /\ g.prevWay = IF n = WAY_NONE THEN links.prevWay ELSE [links.prevWay EXCEPT ![n] = p]
      /\ g.nextWay = IF p = WAY_NONE THEN links.nextWay ELSE [links.nextWay EXCEPT ![p] = n]
  BY <1>2, <1>3 DEF GetFrom
<1>6. /\ links.tail \in [List -> Way \cup {WAY_NONE}] /\ links.prevWay \in [Way -> Way \cup {WAY_NONE}]
      /\ links.nextWay \in [Way -> Way \cup {WAY_NONE}]
  BY <1>1 DEF LinksType
<1>7. t = links.tail[to]
  BY <1>3, <1>5, <1>6
<1>8. t \notin M[from]
  <2>1. t \in M[to] \cup {WAY_NONE}
    BY <1>7, NextListed
  <2> QED BY <1>4, <2>1, NoneIsNoWay DEF ApartIn
<1>9. g \in LinksType
  BY <1>1, <1>2, GetFromIs
<1>10. PICK m : m = Move(w, from, to)
  OBVIOUS
<1>11. /\ m.prevWay = [g.prevWay EXCEPT ![w] = t]
       /\ m.nextWay = IF t = WAY_NONE THEN [g.nextWay EXCEPT ![w] = WAY_NONE]
                      ELSE [g.nextWay EXCEPT ![w] = WAY_NONE, ![t] = w]
  BY <1>2, <1>3, <1>10 DEF Move, PutTo
<1>12. g.prevWay \in [Way -> Way \cup {WAY_NONE}] /\ g.nextWay \in [Way -> Way \cup {WAY_NONE}]
  BY <1>9 DEF LinksType
<1>13. ASSUME NEW v \in M[from], v # w PROVE m.nextWay[v] = IF v = p THEN n ELSE links.nextWay[v]
  <2>1. v \in Way /\ v # t /\ v # WAY_NONE
    BY <1>4, <1>8, NoneIsNoWay
  <2>2. m.nextWay[v] = g.nextWay[v]
    BY <1>11, <1>12, <1>13, <2>1
  <2>3. g.nextWay[v] = IF v = p THEN n ELSE links.nextWay[v]
    BY <1>5, <1>6, <2>1
  <2> QED BY <2>2, <2>3
<1>14. n # WAY_NONE => m.prevWay[n] = p
  <2>1. n # WAY_NONE => n \in Way /\ n # w
    BY <1>4
  <2>2. n # WAY_NONE => m.prevWay[n] = g.prevWay[n]
    BY <1>11, <1>12, <2>1
  <2>3. n # WAY_NONE => g.prevWay[n] = p
    BY <1>5, <1>6, <2>1
  <2> QED BY <2>2, <2>3
<1> QED BY <1>3, <1>10, <1>13, <1>14

\* The walk goes on from a way that it has moved.
LEMMA AheadMoved ==
  ASSUME NEW M \in [List -> SUBSET Way], Listed(links, M), ApartIn(M, List),
         NEW from \in List, NEW to \in List, from # to, NEW R, Ahead(from, M, R),
         NEW w, w = wayNo, w # WAY_NONE, links' = Move(w, from, to), wayNo' = links.nextWay[w]
  PROVE  w \in R /\ Ahead(from, MovedTo(M, to, w), R \ {w})'
<1>1. w \in R /\ w \in M[from] /\ R \subseteq M[from] /\ links.prevWay[w] \notin R
  BY DEF Ahead
<1>2. \A v \in M[from] : /\ links.nextWay[v] \in (M[from] \ {v}) \cup {WAY_NONE}
                         /\ links.nextWay[v] # WAY_NONE => links.prevWay[links.nextWay[v]] = v
  BY NextListed
<1>3. \A v \in R : links.nextWay[v] \in R \cup {WAY_NONE}
  BY DEF Ahead
<1>4. /\ \A v \in M[from] \ {w} :
           links'.nextWay[v] = IF v = links.prevWay[w] THEN links.nextWay[w] ELSE links.nextWay[v]
      /\ links.nextWay[w] # WAY_NONE => links'.prevWay[links.nextWay[w]] = links.prevWay[w]
  BY <1>1, MoveLinks
<1>5. \A v \in R \ {w} : links'.nextWay[v] \in (R \ {w}) \cup {WAY_NONE}
  BY <1>1, <1>2, <1>3, <1>4
<1>6. wayNo' # WAY_NONE => wayNo' \in R \ {w} /\ links'.prevWay[wayNo'] \notin R \ {w}
  BY <1>1, <1>2, <1>3, <1>4
<1>7. R \ {w} \subseteq MovedTo(M, to, w)[from]
  BY <1>1 DEF MovedTo
<1> QED BY <1>5, <1>6, <1>7 DEF Ahead

\* One more way waits.
LEMMA OneMoreWaits ==
  ASSUME NEW W \in SUBSET Way, NEW w \in Way, w \notin W
  PROVE  Cardinality(W \cup {w}) = Cardinality(W) + 1
<1>1. IsFiniteSet(Way)
  BY WaysFinite
<1>2. IsFiniteSet(W)
  BY <1>1, FS_Subset
<1> QED BY <1>2, FS_AddElement

\* A way is counted and left where it is.
LEMMA CountOn ==
  ASSUME NEW M \in [List -> SUBSET Way], Listed(links, M), Counted(M), pc \in {"idle", "report"}, wayNo # WAY_NONE,
         pc' = pc, links' = links, waitWayCnt' = waitWayCnt + 1, wayNo' = links.nextWay[wayNo]
  PROVE  Counted(M)'
<1>1. PICK W, R \in SUBSET Way : CountedAs(M, W, R)
  BY DEF Counted
<1>2. PICK list, w : list = (IF pc = "idle" THEN "idle" ELSE "statusReport") /\ w = wayNo
  OBVIOUS
<1>3. list \in List /\ Ahead(list, M, R) /\ W \cap R = {} /\ (pc = "idle" <=> list = "idle")
  BY <1>1, <1>2 DEF CountedAs, List
<1>4. w \in R /\ Ahead(list, M, R \ {w})'
  BY <1>2, <1>3, AheadOn
<1>5. w \notin W /\ w \in Way /\ w \in M[list]
  BY <1>3, <1>4 DEF Ahead
<1>6. Cardinality(W \cup {w}) = waitWayCnt'
  BY <1>1, <1>5, OneMoreWaits DEF CountedAs
<1>7. W \cup {w} \subseteq M["idle"] \cup M["statusReport"] /\ (pc = "idle" => W \cup {w} \subseteq M["idle"])
  BY <1>1, <1>2, <1>5 DEF CountedAs
<1>8. (W \cup {w}) \cap (R \ {w}) = {}
  BY <1>3
<1>9. CountedAs(M, W \cup {w}, R \ {w})'
  BY <1>2, <1>4, <1>6, <1>7, <1>8 DEF CountedAs
<1>10. W \cup {w} \in SUBSET Way /\ R \ {w} \in SUBSET Way
  BY <1>5
<1> QED BY <1>9, <1>10 DEF Counted

\* A way is moved; it is counted if it has become idle.
LEMMA CountMoved ==
  ASSUME NEW M \in [List -> SUBSET Way], Listed(links, M), ApartIn(M, List), Counted(M),
         pc \in {"idle", "report", "rearm"}, pc' = IF pc = "idle" THEN "idle" ELSE "report",
         NEW from, from = IF pc = "idle" THEN "idle" ELSE "statusReport", NEW to \in List, to # from,
         NEW w, w = wayNo, w # WAY_NONE, links' = Move(w, from, to), wayNo' = links.nextWay[w],
         waitWayCnt' = IF to = "idle" THEN waitWayCnt + 1 ELSE waitWayCnt
  PROVE  Counted(MovedTo(M, to, w))'
<1>1. PICK W, R \in SUBSET Way : CountedAs(M, W, R)
  BY DEF Counted
<1>2. PICK N : N = MovedTo(M, to, w)
  OBVIOUS
<1>3. from \in List /\ Ahead(from, M, R) /\ W \cap R = {} /\ {"idle", "statusReport"} \subseteq List
  BY <1>1 DEF CountedAs, List
<1>4. w \in R /\ Ahead(from, N, R \ {w})'
  BY <1>2, <1>3, AheadMoved
<1>5. w \notin W /\ w \in Way
  BY <1>3, <1>4
<1>6. \A list \in {"idle", "statusReport"} : N[list] = IF list = to THEN M[list] \cup {w} ELSE M[list] \ {w}
  BY <1>2, <1>3 DEF MovedTo
<1>7. W \subseteq M["idle"] \cup M["statusReport"] /\ (pc = "idle" => W \subseteq M["idle"]) /\ Cardinality(W) = waitWayCnt
  BY <1>1 DEF CountedAs
<1>8. CASE to = "idle"
  <2>1. Cardinality(W \cup {w}) = waitWayCnt'
    BY <1>5, <1>7, <1>8, OneMoreWaits
  <2>2. W \cup {w} \subseteq N["idle"] \cup N["statusReport"] /\ pc' = "report" /\ from = "statusReport"
    BY <1>5, <1>6, <1>7, <1>8
  <2>3. (W \cup {w}) \cap (R \ {w}) = {}
    BY <1>3
  <2>4. CountedAs(N, W \cup {w}, R \ {w})'
    BY <1>4, <2>1, <2>2, <2>3 DEF CountedAs
  <2>5. W \cup {w} \in SUBSET Way /\ R \ {w} \in SUBSET Way
    BY <1>5
  <2> QED BY <1>2, <2>4, <2>5 DEF Counted
<1>9. CASE to # "idle"
  <2>1. W \subseteq N["idle"] \cup N["statusReport"] /\ (pc = "idle" => W \subseteq N["idle"])
    BY <1>5, <1>6, <1>7
  <2>2. W \cap (R \ {w}) = {}
    BY <1>3
  <2>3. CountedAs(N, W, R \ {w})'
    BY <1>4, <1>7, <1>9, <2>1, <2>2 DEF CountedAs
  <2>4. W \in SUBSET Way /\ R \ {w} \in SUBSET Way
    OBVIOUS
  <2> QED BY <1>2, <2>3, <2>4 DEF Counted
<1> QED BY <1>8, <1>9

-----------------------------------------------------------------------------
(* A pass: the steps that move no way.                                     *)

\* The steps of a pass that go on with another list, or another way of it.
LEMMA StartsKeepInv ==
  ASSUME WaySchedInv, StartPass \/ StartReport \/ ReportNotReady
  PROVE  WaySchedInv'
<1>1. PICK M \in [List -> SUBSET Way] : Places(M)
  BY DEF WaySchedInv, ListsInv
<1>2. Listed(links, M) /\ WalkAt(M) /\ PassTypes /\ {"idle", "statusReport"} \subseteq List
  BY <1>1 DEF Places, WaySchedInv, List
<1>3. /\ links.head["idle"] \in M["idle"] \cup {WAY_NONE}
      /\ links.head["statusReport"] \in M["statusReport"] \cup {WAY_NONE}
      /\ \A v \in M["statusReport"] : links.nextWay[v] \in M["statusReport"] \cup {WAY_NONE}
  BY <1>2, NextListed
<1>4. CASE StartPass
  <2>1. WalkAt(M)' /\ PassTypes'
    BY <1>2, <1>3, <1>4 DEF StartPass, WalkAt, PassTypes, Priority, Range
  <2>2. CountedAs(M, {}, M["idle"])'
    <3>1. waitWayCnt' = 0
      BY <1>1, <1>4, NoneCounted DEF StartPass, Places
    <3>2. Ahead("idle", M, M["idle"])'
      BY <1>2, <1>4, AheadAtFirst DEF StartPass, fw
    <3> QED BY <1>4, <3>1, <3>2, FS_EmptySet DEF StartPass, CountedAs
  <2>3. Counted(M)'
    BY <1>2, <2>2 DEF Counted
  <2> QED BY <1>1, <1>4, <2>1, <2>3, PassStep DEF StartPass
<1>5. CASE StartReport
  <2>1. WalkAt(M)' /\ PassTypes'
    BY <1>2, <1>3, <1>5 DEF StartReport, WalkAt, PassTypes, Priority, Range, V2FReadyBusyAsync
  <2>2. PICK W, R \in SUBSET Way : CountedAs(M, W, R)
    BY <1>1 DEF Places, Counted
  <2>3. CountedAs(M, W, M["statusReport"])'
    <3>1. Ahead("statusReport", M, M["statusReport"])'
      BY <1>2, <1>5, AheadAtFirst DEF StartReport, fw
    <3>2. W \subseteq M["idle"] /\ W \cap M["statusReport"] = {}
      BY <1>1, <1>2, <1>5, <2>2 DEF StartReport, CountedAs, Places, ApartIn
    <3> QED BY <1>5, <2>2, <3>1, <3>2 DEF StartReport, CountedAs
  <2>4. Counted(M)'
    BY <1>2, <2>2, <2>3 DEF Counted
  <2> QED BY <1>1, <1>5, <2>1, <2>4, PassStep DEF StartReport
<1>6. CASE ReportNotReady
  <2>1. WalkAt(M)' /\ PassTypes'
    BY <1>2, <1>3, <1>6 DEF ReportNotReady, WalkAt, PassTypes, Priority, Range
  <2>2. Counted(M)'
    BY <1>1, <1>2, <1>6, CountOn DEF ReportNotReady, Places, fw
  <2> QED BY <1>1, <1>6, <2>1, <2>2, PassStep DEF ReportNotReady
<1> QED BY <1>4, <1>5, <1>6

\* The steps of a pass that go on with the last part, or end it.
LEMMA EndsKeepInv ==
  ASSUME WaySchedInv, EndReport \/ ControllerBusy \/ NoStatusCheck
  PROVE  WaySchedInv'
<1>1. PICK M \in [List -> SUBSET Way] : Places(M)
  BY DEF WaySchedInv, ListsInv
<1>2. Listed(links, M) /\ WalkAt(M) /\ PassTypes
  BY <1>1 DEF Places, WaySchedInv
<1>3. /\ \A n : n \in Range(Priority) => n \in List /\ n \notin {"poll", "idle", "report", "rearm"}
      /\ "statusCheck" \in Range(Priority)
  BY DEF Priority, Range, List
<1>4. CASE EndReport
  <2>1. WalkAt(M)' /\ PassTypes'
    BY <1>2, <1>3, <1>4 DEF EndReport, WalkAt, PassTypes
  <2>2. Counted(M)'
    BY <1>3, <1>4, CountZero DEF EndReport
  <2> QED BY <1>1, <1>4, <2>1, <2>2, PassStep DEF EndReport
<1>5. CASE ControllerBusy
  <2>1. WalkAt(M)' /\ PassTypes'
    BY <1>2, <1>3, <1>5 DEF ControllerBusy, WalkAt, PassTypes
  <2>2. Counted(M)'
    <3>1. waitWayCnt' = 0
      BY <1>1, <1>3, <1>5, NoneCounted DEF ControllerBusy, Places
    <3> QED BY <1>3, <1>5, <3>1, CountZero DEF ControllerBusy
  <2> QED BY <1>1, <1>3, <1>5, <2>1, <2>2, PassStep DEF ControllerBusy
<1>6. CASE NoStatusCheck
  <2>1. \/ pc' = "poll"
        \/ pc' \in Range(Priority) \ {"statusCheck"} /\ links.head[pc'] # WAY_NONE
    BY <1>3, <1>6, AfterListIs DEF NoStatusCheck
  <2>2. pc' \in Range(Priority) \ {"statusCheck"} => M[pc'] # {}
    BY <1>2, <1>3, <2>1, NextListed
  <2>3. WalkAt(M)' /\ PassTypes'
    BY <1>2, <1>3, <1>6, <2>1, <2>2 DEF NoStatusCheck, WalkAt, PassTypes
  <2>4. Counted(M)'
    <3>1. waitWayCnt' = 0
      BY <1>1, <1>3, <1>6, NoneCounted DEF NoStatusCheck, Places
    <3> QED BY <1>3, <1>6, <2>1, <3>1, CountZero DEF NoStatusCheck
  <2> QED BY <1>1, <1>6, <2>3, <2>4, PassStep DEF NoStatusCheck
<1> QED BY <1>4, <1>5, <1>6

-----------------------------------------------------------------------------
(* A pass: the steps that move a way to another list.                      *)

\* The lists after a step that moved a way to one that it fits.
LEMMA MoveStep ==
  ASSUME NEW M \in [List -> SUBSET Way], Places(M),
         NEW from \in List, NEW to \in List, NEW w \in M[from], links' = Move(w, from, to),
         pc # "rearm" \/ wayNo = w, Fits(w, to)', WalkAt(MovedTo(M, to, w))', Counted(MovedTo(M, to, w))',
         \A v \in Way \ {w} : /\ nandReqQ'[v] = nandReqQ[v] /\ dieState'[v] = dieState[v]
                              /\ reqStatusCheckOpt'[v] = reqStatusCheckOpt[v]
  PROVE  ListsInv'
<1>1. PICK N : N = MovedTo(M, to, w)
  OBVIOUS
<1>2. N \in [List -> SUBSET Way] /\ Listed(links', N) /\ ApartIn(N, List)
  BY <1>1, MoveListed DEF Places
<1>3. \A m \in List : N[m] = IF m = to THEN M[m] \cup {w} ELSE M[m] \ {w}
  BY <1>1 DEF MovedTo
<1>4. \A v \in Way : \E list \in List : v \in N[list]
  BY <1>3 DEF Places
<1>5. ASSUME NEW list \in List, NEW v \in N[list] PROVE Fits(v, list)'
  <2>1. CASE v = w
    BY <1>3, <1>5, <2>1
  <2>2. CASE v # w
    <3>1. v \in M[list] /\ v \in Way /\ Fits(v, list)
      BY <1>2, <1>3, <1>5, <2>2 DEF Places
    <3> QED BY <2>2, <3>1, FitsStays
  <2> QED BY <2>1, <2>2
<1>6. Places(N)'
  BY <1>1, <1>2, <1>4, <1>5 DEF Places
<1> QED BY <1>2, <1>6 DEF ListsInv

\* The list of a request.
LEMMA ListOfCodeIs ==
  ASSUME NEW c \in Code \cup {"READ", "READ_TRANSFER"}
  PROVE  /\ ListOfCode(c) \in {"readTrigger", "erase", "write", "readTransfer"}
         /\ ListOfCode(c) = "readTransfer" <=> c = "READ_TRANSFER"
         /\ ListOfCode(c) \in List
BY CodeAssumption DEF ListOfCode, List

\* A way with a request at the head of its queue.
LEMMA HeadTypes ==
  ASSUME TypesInv, NEW w \in Way, nandReqQ[w] # <<>>
  PROVE  Head(nandReqQ[w]) \in Code \cup {"READ", "READ_TRANSFER"}
<1>1. nandReqQ[w] \in Seq(Code \cup {"READ", "READ_TRANSFER"})
  BY WayTypes
<1> QED BY <1>1, HeadTailProperties

\* An idle way goes to the list of its request.
LEMMA IdleWayKeepsInv ==
  ASSUME WaySchedInv, IdleWay
  PROVE  WaySchedInv'
<1>1. PICK M \in [List -> SUBSET Way] : Places(M)
  BY DEF WaySchedInv, ListsInv
<1>2. PICK w : w = wayNo
  OBVIOUS
<1>3. /\ pc = "idle" /\ pc' = "idle" /\ wayNo # WAY_NONE /\ wayNo' = links.nextWay[w]
      /\ UNCHANGED <<nandReqQ, dieState, reqStatusCheckOpt, retryLimit, statusReport, completeFlag, commands>>
      /\ UNCHANGED <<busy, dieStatus, register, failures, last, readyBusy, answer, hw>>
      /\ IF nandReqQ[w] # <<>> THEN links' = Move(w, "idle", ListOfCode(Head(nandReqQ[w]))) /\ waitWayCnt' = waitWayCnt
         ELSE links' = links /\ waitWayCnt' = waitWayCnt + 1
  BY <1>2 DEF IdleWay, hw
<1>4. /\ Listed(links, M) /\ WalkAt(M) /\ PassTypes /\ TypesInv /\ "idle" \in List /\ w \in Way /\ w \in M["idle"]
      /\ ApartIn(M, List) /\ Counted(M)
  BY <1>1, <1>2, <1>3 DEF Places, WaySchedInv, WalkAt, PassTypes, List
<1>5. wayNo' \in (M["idle"] \ {w}) \cup {WAY_NONE}
  BY <1>3, <1>4, NextListed
<1>6. PassTypes'
  BY <1>3, <1>4, <1>5 DEF PassTypes
<1>7. CASE nandReqQ[w] # <<>>
  <2>1. PICK to : to = ListOfCode(Head(nandReqQ[w]))
    OBVIOUS
  <2>2. to \in {"readTrigger", "erase", "write", "readTransfer"} /\ to \in List
    BY <1>4, <1>7, <2>1, HeadTypes, ListOfCodeIs
  <2>3. dieState[w] = "IDLE"
    BY <1>1, <1>4 DEF Places, Fits
  <2>4. Fits(w, to)'
    BY <1>3, <1>7, <2>1, <2>2, <2>3 DEF Fits
  <2>5. MovedTo(M, to, w)["idle"] = M["idle"] \ {w}
    BY <1>4, <2>2 DEF MovedTo
  <2>6. WalkAt(MovedTo(M, to, w))'
    BY <1>3, <1>5, <2>5 DEF WalkAt, Priority, Range
  <2>7. Counted(MovedTo(M, to, w))'
    BY <1>2, <1>3, <1>4, <1>7, <2>1, <2>2, CountMoved
  <2>8. ListsInv'
    BY <1>1, <1>3, <1>4, <1>7, <2>1, <2>2, <2>4, <2>6, <2>7, MoveStep
  <2>9. TypesInv' /\ WayInv' /\ AnsweredAsHappened'
    BY <1>3, WaysStay
  <2> QED BY <1>6, <2>8, <2>9 DEF WaySchedInv
<1>8. CASE nandReqQ[w] = <<>>
  <2>1. WalkAt(M)'
    BY <1>3, <1>5 DEF WalkAt, Priority, Range
  <2>2. Counted(M)'
    BY <1>2, <1>3, <1>4, <1>8, CountOn
  <2> QED BY <1>1, <1>3, <1>6, <1>8, <2>1, <2>2, PassStep DEF fw
<1> QED BY <1>7, <1>8

\* A way whose request runs on is to be checked from the first stage, or waits.
LEMMA ReportRunningKeepsInv ==
  ASSUME WaySchedInv, ReportRunning
  PROVE  WaySchedInv'
<1>1. PICK M \in [List -> SUBSET Way] : Places(M)
  BY DEF WaySchedInv, ListsInv
<1>2. PICK w : w = wayNo
  OBVIOUS
<1>3. /\ pc = "report" /\ pc' = "report" /\ w \in readyBusy /\ wayNo' = links.nextWay[w]
      /\ ReqStatus(w) = "RUNNING" /\ CheckReqStatus(w)
      /\ UNCHANGED <<nandReqQ, dieState, retryLimit, completeFlag>>
      /\ UNCHANGED <<busy, dieStatus, register, failures, last, readyBusy, answer, hw>>
      /\ IF OptAfterCheck(w) = "CHECK" THEN links' = Move(w, "statusReport", "statusCheck") /\ waitWayCnt' = waitWayCnt
         ELSE links' = links /\ waitWayCnt' = waitWayCnt + 1
  BY <1>2 DEF ReportRunning, hw
<1>4. /\ Listed(links, M) /\ WalkAt(M) /\ PassTypes /\ TypesInv /\ {"statusReport", "statusCheck"} \subseteq List
      /\ w \in Way /\ w \in M["statusReport"] /\ w # WAY_NONE /\ Stage(w) /\ WayInv
      /\ ApartIn(M, List) /\ Counted(M)
  BY <1>1, <1>2, <1>3, NoneIsNoWay DEF Places, WaySchedInv, WalkAt, PassTypes, List, WayInv
<1>5. wayNo' \in (M["statusReport"] \ {w}) \cup {WAY_NONE}
  BY <1>3, <1>4, NextListed
<1>6. PassTypes'
  BY <1>3, <1>4, <1>5 DEF PassTypes
<1>7. dieState[w] = "EXE" /\ reqStatusCheckOpt[w] \in {"REPORT", "COMPLETION_FLAG"}
  BY <1>1, <1>3, <1>4 DEF Places, Fits
<1>8. /\ reqStatusCheckOpt' = [reqStatusCheckOpt EXCEPT ![w] = OptAfterCheck(w)]
      /\ UNCHANGED <<statusReport, commands>>
  BY <1>3, <1>7 DEF CheckReqStatus
<1>9. CASE reqStatusCheckOpt[w] = "REPORT" /\ statusReport[w] = "busy"
  <2>1. OptAfterCheck(w) = "CHECK"
    BY <1>9 DEF OptAfterCheck
  <2>2. reqStatusCheckOpt'[w] = "CHECK" /\ \A v \in Way : v # w => reqStatusCheckOpt'[v] = reqStatusCheckOpt[v]
    BY <1>4, <1>8, <2>1 DEF TypesInv
  <2>3. Fits(w, "statusCheck")'
    BY <1>3, <1>7, <2>2 DEF Fits
  <2>4. MovedTo(M, "statusCheck", w)["statusReport"] = M["statusReport"] \ {w}
    BY <1>4 DEF MovedTo
  <2>5. WalkAt(MovedTo(M, "statusCheck", w))'
    BY <1>3, <1>5, <2>4 DEF WalkAt, Priority, Range
  <2>6. ListsInv'
    <3>1. pc # "rearm" /\ links' = Move(w, "statusReport", "statusCheck")
      BY <1>3, <2>1
    <3>2. \A v \in Way \ {w} : /\ nandReqQ'[v] = nandReqQ[v] /\ dieState'[v] = dieState[v]
                               /\ reqStatusCheckOpt'[v] = reqStatusCheckOpt[v]
      BY <1>3, <2>2
    <3>3. Counted(MovedTo(M, "statusCheck", w))'
      BY <1>2, <1>3, <1>4, <2>1, CountMoved
    <3> QED BY <1>1, <1>4, <2>3, <2>5, <3>1, <3>2, <3>3, MoveStep
  <2>7. Working(w) /\ Behind(w)
    BY <1>4, <1>7 DEF Stage
  <2>8. nandReqQ[w] # <<>> /\ Head(nandReqQ[w]) \in Code \cup {"READ"} /\ commands[w] = <<>> /\ Started(w, Head(nandReqQ[w]))
    BY <1>9, <2>7 DEF Working, Reported
  <2>9. Started(w, Head(nandReqQ[w]))'
    BY <1>3, <2>8 DEF Started, Ended, Balance
  <2>10. Stage(w)'
    BY <1>3, <1>7, <1>8, <2>2, <2>7, <2>8, <2>9 DEF Stage, Working, Checked, Behind
  <2>11. \A v \in Way \ {w} : SameWay(v) /\ (Answering(v)' <=> Answering(v))
    BY <1>3, <1>8, <2>2 DEF SameWay, Answering
  <2>12. WayInv'
    BY <1>4, <2>10, <2>11, OthersStay
  <2>13. AnsweredAsHappened'
    <3>1. answer' = "none"
      BY <1>3, NotAnswering
    <3> QED BY <3>1, NoAnswer
  <2>14. TypesInv'
    BY <1>3, <1>4, <1>8, <2>1 DEF TypesInv
  <2> QED BY <1>6, <2>6, <2>12, <2>13, <2>14 DEF WaySchedInv
<1>10. CASE ~(reqStatusCheckOpt[w] = "REPORT" /\ statusReport[w] = "busy")
  <2>1. OptAfterCheck(w) = reqStatusCheckOpt[w]
    BY <1>3, <1>7, <1>10 DEF OptAfterCheck, ReqStatus
  <2>2. reqStatusCheckOpt' = reqStatusCheckOpt /\ links' = links /\ waitWayCnt' = waitWayCnt + 1
    BY <1>3, <1>4, <1>7, <1>8, <2>1 DEF TypesInv
  <2>3. WalkAt(M)'
    BY <1>3, <1>5 DEF WalkAt, Priority, Range
  <2>4. UNCHANGED <<fw, statusReport, completeFlag, commands, hw, answer>> /\ pc # "rearm"
    BY <1>3, <1>8, <2>2 DEF fw
  <2>5. Counted(M)'
    BY <1>2, <1>3, <1>4, <2>2, CountOn
  <2> QED BY <1>1, <1>6, <2>3, <2>4, <2>5, PassStep
<1> QED BY <1>9, <1>10

\* The operation of a request that has a result.
LEMMA ResultIs ==
  ASSUME NEW w, Working(w), reqStatusCheckOpt[w] \in {"REPORT", "COMPLETION_FLAG"}, ReqStatus(w) # "RUNNING"
  PROVE  LET c == Head(nandReqQ[w])
             r == IF reqStatusCheckOpt[w] = "REPORT" THEN statusReport[w] ELSE completeFlag[w] IN
         /\ commands[w] = <<>> /\ nandReqQ[w] # <<>> /\ Ended(w, c, r)
         /\ \/ ReqStatus(w) = "DONE" /\ r = "pass"
            \/ ReqStatus(w) = "FAIL" /\ r = "fail"
            \/ ReqStatus(w) = "WARNING" /\ r = "warning" /\ c = "READ_TRANSFER"
<1>1. CASE reqStatusCheckOpt[w] = "REPORT"
  <2>1. statusReport[w] \in {"pass", "fail"}
    BY <1>1 DEF ReqStatus
  <2>2. Reported(w, Head(nandReqQ[w])) /\ nandReqQ[w] # <<>>
    BY <1>1 DEF Working
  <2>3. commands[w] = <<>> /\ Ended(w, Head(nandReqQ[w]), statusReport[w])
    BY <2>1, <2>2 DEF Reported
  <2> QED BY <1>1, <2>1, <2>2, <2>3 DEF ReqStatus
<1>2. CASE reqStatusCheckOpt[w] = "COMPLETION_FLAG"
  <2>1. completeFlag[w] \in {"pass", "warning", "fail"}
    BY <1>2 DEF ReqStatus
  <2>2. Transferred(w) /\ nandReqQ[w] # <<>> /\ Head(nandReqQ[w]) = "READ_TRANSFER"
    BY <1>2 DEF Working
  <2>3. commands[w] = <<>> /\ Ended(w, "READ_TRANSFER", completeFlag[w])
    BY <2>1, <2>2 DEF Transferred
  <2> QED BY <1>2, <2>1, <2>2, <2>3 DEF ReqStatus
<1> QED BY <1>1, <1>2

\* A way whose request is complete: the rest of its queue, the limit of its tries.
LEMMA CompleteStage ==
  ASSUME TypesInv, NEW w \in Way, Behind(w), nandReqQ[w] # <<>>, commands[w] = <<>>, busy[w] = "none",
         NEW a, a # "none", Complete(w, a), pc' = "rearm", wayNo' = w,
         dieState' = [dieState EXCEPT ![w] = "IDLE"], commands' = commands, busy' = busy
  PROVE  /\ Stage(w)' /\ nandReqQ' \in [Way -> Seq(Code \cup {"READ", "READ_TRANSFER"})]
         /\ retryLimit' \in [Way -> 0..RETRY_LIMIT]
<1>1. PICK q, t : q = nandReqQ[w] /\ t = Tail(q)
  OBVIOUS
<1>2. q \in Seq(Code \cup {"READ", "READ_TRANSFER"}) /\ q # <<>> /\ \A i \in 2..Len(q) : q[i] \in Code
  BY <1>1, WayTypes DEF Behind
<1>3. /\ t \in Seq(Code \cup {"READ", "READ_TRANSFER"})
      /\ \A i \in 2..Len(t) : i + 1 \in 2..Len(q) /\ t[i] = q[i + 1]
      /\ t # <<>> => 2 \in 2..Len(q) /\ Head(t) = q[2]
  BY <1>1, <1>2, TailFacts
<1>4. /\ nandReqQ' = [nandReqQ EXCEPT ![w] = t] /\ retryLimit' = [retryLimit EXCEPT ![w] = RETRY_LIMIT]
      /\ answer' = a
  BY <1>1 DEF Complete
<1>5. nandReqQ'[w] = t /\ retryLimit'[w] = RETRY_LIMIT /\ dieState'[w] = "IDLE"
  BY <1>4 DEF TypesInv
<1>6. Behind(w)'
  BY <1>2, <1>3, <1>5 DEF Behind
<1>7. t # <<>> => Head(t) \in Code /\ Head(t) # "READ_TRANSFER"
  BY <1>2, <1>3, Codes
<1>8. Resting(w)'
  BY <1>4, <1>5, <1>7 DEF Resting, Answering
<1>9. nandReqQ' \in [Way -> Seq(Code \cup {"READ", "READ_TRANSFER"})] /\ retryLimit' \in [Way -> 0..RETRY_LIMIT]
  BY <1>3, <1>4, RetryAssumption DEF TypesInv
<1> QED BY <1>5, <1>6, <1>8, <1>9 DEF Stage

\* A way whose request goes on with another half, or another try.
LEMMA RecodeStage ==
  ASSUME TypesInv, NEW w \in Way, Behind(w), nandReqQ[w] # <<>>, commands[w] = <<>>, busy[w] = "none",
         NEW c \in {"READ", "READ_TRANSFER"}, Recode(w, c), c = "READ_TRANSFER" => register[w], answer = "none",
         Balance(w, 0)', dieState' = [dieState EXCEPT ![w] = "IDLE"], UNCHANGED <<commands, busy, register>>
  PROVE  Stage(w)' /\ nandReqQ' \in [Way -> Seq(Code \cup {"READ", "READ_TRANSFER"})]
<1>1. PICK q, t : q = nandReqQ[w] /\ t = <<c>> \o Tail(q)
  OBVIOUS
<1>2. q \in Seq(Code \cup {"READ", "READ_TRANSFER"}) /\ q # <<>> /\ \A i \in 2..Len(q) : q[i] \in Code
  BY <1>1, WayTypes DEF Behind
<1>3. /\ t \in Seq(Code \cup {"READ", "READ_TRANSFER"}) /\ t # <<>> /\ Head(t) = c /\ Len(t) = Len(q)
      /\ \A i \in 2..Len(t) : t[i] = q[i]
  BY <1>1, <1>2, RecodeFacts
<1>4. nandReqQ' = [nandReqQ EXCEPT ![w] = t] /\ answer' = "none"
  BY <1>1 DEF Recode
<1>5. nandReqQ'[w] = t /\ dieState'[w] = "IDLE"
  BY <1>4 DEF TypesInv
<1>6. Behind(w)'
  BY <1>2, <1>3, <1>5 DEF Behind
<1>7. Resting(w)'
  BY <1>3, <1>4, <1>5 DEF Resting, Answering
<1>8. nandReqQ' \in [Way -> Seq(Code \cup {"READ", "READ_TRANSFER"})]
  BY <1>3, <1>4 DEF TypesInv
<1> QED BY <1>5, <1>6, <1>7, <1>8 DEF Stage

\* A request with a result is answered as what happened to it, or goes on.
LEMMA ExecuteStage ==
  ASSUME WaySchedInv, NEW w \in Way, w = wayNo, pc = "report", dieState[w] = "EXE",
         reqStatusCheckOpt[w] \in {"REPORT", "COMPLETION_FLAG"}, ReqStatus(w) # "RUNNING",
         ExecuteNandReq(w, ReqStatus(w)), pc' = "rearm", wayNo' = wayNo,
         UNCHANGED <<commands, busy, register, last, failures>>
  PROVE  /\ Stage(w)' /\ AnsweredAsHappened' /\ answer' \in {"none", "good", "bad", "warning"}
         /\ nandReqQ' \in [Way -> Seq(Code \cup {"READ", "READ_TRANSFER"})] /\ retryLimit' \in [Way -> 0..RETRY_LIMIT]
         /\ \A v \in Way : v # w => nandReqQ'[v] = nandReqQ[v] /\ retryLimit'[v] = retryLimit[v]
<1>1. PICK c, r, s : /\ c = Head(nandReqQ[w]) /\ s = ReqStatus(w)
                     /\ r = IF reqStatusCheckOpt[w] = "REPORT" THEN statusReport[w] ELSE completeFlag[w]
  OBVIOUS
<1>2. TypesInv /\ Behind(w) /\ Working(w) /\ answer = "none"
  BY NotAnswering DEF WaySchedInv, WayInv, Stage
<1>3. /\ commands[w] = <<>> /\ nandReqQ[w] # <<>> /\ Ended(w, c, r)
      /\ \/ s = "DONE" /\ r = "pass"
         \/ s = "FAIL" /\ r = "fail"
         \/ s = "WARNING" /\ r = "warning" /\ c = "READ_TRANSFER"
  BY <1>1, <1>2, ResultIs
<1>4. busy[w] = "none" /\ last[w] = <<c, r>> /\ failures[w] + retryLimit[w] = RETRY_LIMIT + IF r = "fail" THEN 1 ELSE 0
  BY <1>3 DEF Ended, Balance
<1>5. c \in {"READ", "READ_TRANSFER", "WRITE", "ERASE"}
  BY <1>1, <1>2, <1>3, HeadTypes, Codes
<1>6. dieState' = [dieState EXCEPT ![w] = "IDLE"] /\ last[w][1] = c /\ last[w][2] = r
  BY <1>4 DEF ExecuteNandReq
<1>7. CASE s = "DONE" /\ c = "READ"
  <2>1. Recode(w, "READ_TRANSFER") /\ retryLimit' = retryLimit
    BY <1>1, <1>7 DEF ExecuteNandReq, Retry
  <2>2. register[w] /\ r = "pass"
    BY <1>3, <1>7 DEF Ended
  <2>3. Balance(w, 0)'
    BY <1>4, <2>1, <2>2 DEF Balance
  <2>4. Stage(w)' /\ nandReqQ' \in [Way -> Seq(Code \cup {"READ", "READ_TRANSFER"})]
    BY <1>2, <1>3, <1>4, <1>6, <2>1, <2>2, <2>3, RecodeStage
  <2>5. answer' = "none"
    BY <1>2, <2>1 DEF Recode
  <2> QED BY <1>2, <2>1, <2>4, <2>5, NoAnswer DEF Recode, TypesInv
<1>8. ASSUME NEW a \in {"good", "bad", "warning"}, Complete(w, a),
             a = "good" => c # "READ" /\ r = "pass", a = "warning" => r = "warning" /\ c = "READ_TRANSFER",
             a = "bad" => r = "fail" /\ (c \in {"READ", "READ_TRANSFER"} => retryLimit[w] = 0)
      PROVE /\ Stage(w)' /\ AnsweredAsHappened' /\ answer' \in {"none", "good", "bad", "warning"}
            /\ nandReqQ' \in [Way -> Seq(Code \cup {"READ", "READ_TRANSFER"})] /\ retryLimit' \in [Way -> 0..RETRY_LIMIT]
            /\ \A v \in Way : v # w => nandReqQ'[v] = nandReqQ[v] /\ retryLimit'[v] = retryLimit[v]
  <2>1. /\ Stage(w)' /\ nandReqQ' \in [Way -> Seq(Code \cup {"READ", "READ_TRANSFER"})]
        /\ retryLimit' \in [Way -> 0..RETRY_LIMIT]
    BY <1>2, <1>3, <1>4, <1>6, <1>8, CompleteStage
  <2>2. answer' = a /\ last'[wayNo'][1] = c /\ last'[wayNo'][2] = r /\ failures'[wayNo'] = failures[w]
    BY <1>6, <1>8 DEF Complete
  <2>3. a = "bad" /\ c \in {"READ", "READ_TRANSFER"} => failures[w] = RETRY_LIMIT + 1
    BY <1>2, <1>4, <1>8, WayTypes
  <2>4. AnsweredAsHappened'
    BY <1>5, <1>8, <2>2, <2>3 DEF AnsweredAsHappened
  <2> QED BY <1>2, <1>8, <2>1, <2>2, <2>4 DEF Complete, TypesInv
<1>9. CASE s = "DONE" /\ c # "READ"
  <2>1. Complete(w, "good")
    BY <1>1, <1>9 DEF ExecuteNandReq, Retry
  <2> QED BY <1>3, <1>8, <1>9, <2>1
<1>10. CASE s = "WARNING"
  <2>1. Complete(w, "warning")
    BY <1>1, <1>10 DEF ExecuteNandReq, Retry
  <2> QED BY <1>3, <1>8, <1>10, <2>1
<1>11. CASE s = "FAIL" /\ ~Retry(w, s)
  <2>1. Complete(w, "bad")
    BY <1>1, <1>11 DEF ExecuteNandReq
  <2>2. c \in {"READ", "READ_TRANSFER"} => retryLimit[w] = 0
    BY <1>1, <1>2, <1>11, WayTypes DEF Retry, IsRead
  <2> QED BY <1>3, <1>8, <1>11, <2>1, <2>2
<1>12. CASE s = "FAIL" /\ Retry(w, s)
  <2>1. Recode(w, "READ") /\ retryLimit' = [retryLimit EXCEPT ![w] = @ - 1] /\ retryLimit[w] > 0
    BY <1>1, <1>12 DEF ExecuteNandReq, RetryCode, Retry
  <2>2. retryLimit[w] \in 1..RETRY_LIMIT /\ retryLimit'[w] = retryLimit[w] - 1
    BY <1>2, <2>1, WayTypes DEF TypesInv
  <2>3. Balance(w, 0)'
    <3>1. failures[w] + (retryLimit[w] - 1) = RETRY_LIMIT + 0
      <4>1. failures[w] + retryLimit[w] = RETRY_LIMIT + 1
        BY <1>3, <1>4, <1>12
      <4> QED BY <1>2, <4>1, WayTypes
    <3> QED BY <2>2, <3>1 DEF Balance
  <2>4. Stage(w)' /\ nandReqQ' \in [Way -> Seq(Code \cup {"READ", "READ_TRANSFER"})]
    BY <1>2, <1>3, <1>4, <1>6, <2>1, <2>3, RecodeStage
  <2>5. answer' = "none" /\ retryLimit' \in [Way -> 0..RETRY_LIMIT]
    <3>1. retryLimit[w] - 1 \in 0..RETRY_LIMIT
      BY <2>2, RetryAssumption
    <3> QED BY <1>2, <2>1, <3>1 DEF Recode, TypesInv
  <2> QED BY <1>2, <2>1, <2>4, <2>5, NoAnswer DEF Recode, TypesInv
<1> QED BY <1>3, <1>7, <1>9, <1>10, <1>11, <1>12

\* What a check makes of the option, and what it changes.
LEMMA CheckTypes ==
  ASSUME TypesInv, NEW w \in Way, CheckReqStatus(w)
  PROVE  /\ reqStatusCheckOpt' \in [Way -> {"NONE", "CHECK", "REPORT", "COMPLETION_FLAG"}]
         /\ reqStatusCheckOpt'[w] = OptAfterCheck(w)
         /\ \A v \in Way : v # w => reqStatusCheckOpt'[v] = reqStatusCheckOpt[v]
<1>1. OptAfterCheck(w) \in {"NONE", "CHECK", "REPORT", "COMPLETION_FLAG"}
  BY WayTypes DEF OptAfterCheck
<1> QED BY <1>1 DEF CheckReqStatus, TypesInv

\* A way whose request has a result.
LEMMA ReportResultKeepsInv ==
  ASSUME WaySchedInv, ReportResult
  PROVE  WaySchedInv'
<1>1. PICK M \in [List -> SUBSET Way] : Places(M)
  BY DEF WaySchedInv, ListsInv
<1>2. PICK w : w = wayNo
  OBVIOUS
<1>3. /\ pc = "report" /\ pc' = "rearm" /\ w \in readyBusy /\ wayNo' = wayNo
      /\ ReqStatus(w) # "RUNNING" /\ CheckReqStatus(w) /\ ExecuteNandReq(w, ReqStatus(w))
      /\ UNCHANGED <<links, completeFlag, readyBusy, waitWayCnt, busy, dieStatus, register, failures, last>>
  BY <1>2 DEF ReportResult, hw
<1>4. /\ WalkAt(M) /\ PassTypes /\ TypesInv /\ "statusReport" \in List
      /\ w \in Way /\ w \in M["statusReport"] /\ Stage(w) /\ WayInv
  BY <1>1, <1>2, <1>3, NoneIsNoWay DEF Places, WaySchedInv, WalkAt, PassTypes, List, WayInv
<1>5. dieState[w] = "EXE" /\ reqStatusCheckOpt[w] \in {"REPORT", "COMPLETION_FLAG"}
  BY <1>1, <1>3, <1>4 DEF Places, Fits
<1>6. UNCHANGED <<statusReport, commands>>
  BY <1>3, <1>5 DEF CheckReqStatus
<1>7. /\ Stage(w)' /\ AnsweredAsHappened' /\ answer' \in {"none", "good", "bad", "warning"}
      /\ nandReqQ' \in [Way -> Seq(Code \cup {"READ", "READ_TRANSFER"})] /\ retryLimit' \in [Way -> 0..RETRY_LIMIT]
      /\ \A v \in Way : v # w => nandReqQ'[v] = nandReqQ[v] /\ retryLimit'[v] = retryLimit[v]
  BY <1>2, <1>3, <1>4, <1>5, <1>6, ExecuteStage
<1>8. dieState' = [dieState EXCEPT ![w] = "IDLE"]
  BY <1>3 DEF ExecuteNandReq
<1>9. /\ reqStatusCheckOpt' \in [Way -> {"NONE", "CHECK", "REPORT", "COMPLETION_FLAG"}]
      /\ \A v \in Way : v # w => reqStatusCheckOpt'[v] = reqStatusCheckOpt[v]
  BY <1>3, <1>4, CheckTypes
<1>10. TypesInv'
  BY <1>3, <1>4, <1>6, <1>7, <1>8, <1>9 DEF TypesInv
<1>11. PassTypes'
  BY <1>3, <1>4, <1>7 DEF PassTypes
<1>12. \A v \in Way \ {w} : SameWay(v) /\ (Answering(v)' <=> Answering(v))
  <2>1. \A v \in Way : v # w => dieState'[v] = dieState[v]
    BY <1>4, <1>8 DEF TypesInv
  <2> QED BY <1>2, <1>3, <1>6, <1>7, <1>9, <2>1 DEF SameWay, Answering
<1>13. WayInv'
  BY <1>4, <1>7, <1>12, OthersStay
<1>14. ASSUME NEW list \in List, NEW v \in M[list] PROVE Fits(v, list)'
  <2>1. Fits(v, list) /\ v \in Way
    BY <1>1 DEF Places
  <2>2. CASE v # w
    BY <1>3, <1>12, <2>1, <2>2, FitsStays DEF SameWay
  <2>3. CASE v = w
    <3>1. list = "statusReport"
      BY <1>1, <1>4, <1>14, <2>3 DEF Places, ApartIn
    <3> QED BY <1>2, <1>3, <2>3, <3>1 DEF Fits
  <2> QED BY <2>2, <2>3
<1>15. WalkAt(M)'
  <2>1. dieState'[w] = "IDLE"
    BY <1>4, <1>8 DEF TypesInv
  <2> QED BY <1>2, <1>3, <1>4, <2>1 DEF WalkAt, Priority, Range
<1>16. Places(M)'
  <2>1. Counted(M)'
    BY <1>1, <1>3, CountStays DEF Places
  <2> QED BY <1>1, <1>3, <1>14, <1>15, <2>1 DEF Places
<1> QED BY <1>7, <1>10, <1>11, <1>13, <1>16 DEF WaySchedInv, ListsInv

\* The way goes to the list of its next request, or is idle.
LEMMA RearmKeepsInv ==
  ASSUME WaySchedInv, Rearm
  PROVE  WaySchedInv'
<1>1. PICK M \in [List -> SUBSET Way] : Places(M)
  BY DEF WaySchedInv, ListsInv
<1>2. PICK w, to : w = wayNo /\ to = IF nandReqQ[w] # <<>> THEN ListOfCode(Head(nandReqQ[w])) ELSE "idle"
  OBVIOUS
<1>3. /\ pc = "rearm" /\ pc' = "report" /\ wayNo' = links.nextWay[w] /\ answer' = "none"
      /\ links' = Move(w, "statusReport", to)
      /\ waitWayCnt' = IF nandReqQ[w] = <<>> THEN waitWayCnt + 1 ELSE waitWayCnt
      /\ UNCHANGED <<nandReqQ, dieState, reqStatusCheckOpt, retryLimit, statusReport, completeFlag>>
      /\ UNCHANGED <<commands, busy, dieStatus, readyBusy>>
  BY <1>2 DEF Rearm
<1>4. /\ Listed(links, M) /\ WalkAt(M) /\ PassTypes /\ TypesInv /\ WayInv /\ {"statusReport", "idle"} \subseteq List
      /\ w \in M["statusReport"] /\ w \in Way /\ dieState[w] = "IDLE" /\ ApartIn(M, List) /\ Counted(M)
  BY <1>1, <1>2, <1>3 DEF Places, WaySchedInv, WalkAt, List
<1>5. Stage(w) /\ Resting(w)
  BY <1>4 DEF WayInv, Stage
<1>6. wayNo' \in (M["statusReport"] \ {w}) \cup {WAY_NONE}
  BY <1>3, <1>4, NextListed
<1>7. PassTypes'
  BY <1>3, <1>4, <1>6 DEF PassTypes
<1>8. /\ to \in {"readTrigger", "erase", "write", "readTransfer", "idle"} /\ to \in List
      /\ to # "idle" <=> nandReqQ[w] # <<>>
      /\ to # "idle" => to = ListOfCode(Head(nandReqQ[w]))
  BY <1>2, <1>4, HeadTypes, ListOfCodeIs
<1>9. Fits(w, to)'
  BY <1>3, <1>4, <1>8 DEF Fits
<1>10. ListsInv'
  <2>1. MovedTo(M, to, w)["statusReport"] = M["statusReport"] \ {w}
    BY <1>4, <1>8 DEF MovedTo
  <2>2. WalkAt(MovedTo(M, to, w))'
    BY <1>3, <1>6, <2>1 DEF WalkAt, Priority, Range
  <2>3. wayNo = w /\ "statusReport" \in List
    BY <1>2, <1>4
  <2>4. Counted(MovedTo(M, to, w))'
    <3>1. waitWayCnt' = IF to = "idle" THEN waitWayCnt + 1 ELSE waitWayCnt
      BY <1>2, <1>3, <1>8
    <3>2. w # WAY_NONE /\ to # "statusReport"
      BY <1>4, <1>8, NoneIsNoWay
    <3> QED BY <1>2, <1>3, <1>4, <1>8, <3>1, <3>2, CountMoved
  <2> QED BY <1>1, <1>3, <1>4, <1>8, <1>9, <2>2, <2>3, <2>4, MoveStep
<1>11. CASE answer = "none"
  <2>1. UNCHANGED <<register, failures, last>>
    BY <1>11 DEF Rearm
  <2>2. \A v : ~Answering(v) /\ ~Answering(v)'
    BY <1>3, <1>11 DEF Answering
  <2>3. WayInv'
    <3>1. \A v \in Way : SameWay(v)
      BY <1>3, <2>1 DEF SameWay
    <3> QED BY <1>4, <2>2, <3>1, StageStays DEF WayInv
  <2>4. TypesInv'
    BY <1>3, <1>4, <2>1 DEF TypesInv
  <2> QED BY <1>3, <1>7, <1>10, <2>3, <2>4, NoAnswer DEF WaySchedInv
<1>12. CASE answer # "none"
  <2>1. /\ register' = [register EXCEPT ![w] = FALSE] /\ failures' = [failures EXCEPT ![w] = 0]
        /\ last' = [last EXCEPT ![w] = <<"none", "none">>]
    BY <1>2, <1>12 DEF Rearm
  <2>2. TypesInv' /\ failures'[w] = 0
    BY <1>3, <1>4, <2>1 DEF TypesInv
  <2>3. /\ commands[w] = <<>> /\ busy[w] = "none" /\ retryLimit[w] = RETRY_LIMIT
        /\ nandReqQ[w] # <<>> => Head(nandReqQ[w]) # "READ_TRANSFER"
    BY <1>2, <1>3, <1>5, <1>12, Codes DEF Resting, Answering
  <2>4. Balance(w, 0)'
    <3>1. 0 + RETRY_LIMIT = RETRY_LIMIT + 0
      BY RetryAssumption
    <3> QED BY <1>3, <2>2, <2>3, <3>1 DEF Balance
  <2>5. Stage(w)'
    BY <1>3, <1>4, <1>5, <2>3, <2>4 DEF Stage, Resting, Behind, Answering
  <2>6. \A v \in Way \ {w} : SameWay(v) /\ (Answering(v)' <=> Answering(v))
    BY <1>2, <1>3, <1>4, <2>1 DEF SameWay, TypesInv, Answering
  <2>7. WayInv'
    BY <1>4, <2>5, <2>6, OthersStay
  <2> QED BY <1>3, <1>7, <1>10, <2>2, <2>7, NoAnswer DEF WaySchedInv
<1> QED BY <1>11, <1>12

\* The lists after a way of one of them has been served.
LEMMA ServeStep ==
  ASSUME WaySchedInv, NEW M \in [List -> SUBSET Way], Places(M), pc \in Range(Priority),
         NEW from \in Range(Priority), NEW to \in List, NEW w \in M[from], links' = Move(w, from, to),
         pc' = AfterList(from, links'), Fits(w, to)', UNCHANGED <<wayNo, readyBusy, waitWayCnt, answer>>,
         \A v \in Way \ {w} : /\ nandReqQ'[v] = nandReqQ[v] /\ dieState'[v] = dieState[v]
                              /\ reqStatusCheckOpt'[v] = reqStatusCheckOpt[v]
  PROVE  ListsInv' /\ PassTypes' /\ AnsweredAsHappened'
<1>1. /\ \A n : n \in Range(Priority) => n \in List /\ n \notin {"poll", "idle", "report", "rearm"}
      /\ "statusCheck" \in Range(Priority)
  BY DEF Priority, Range, List
<1>2. \/ pc' = "poll"
      \/ pc' \in Range(Priority) \ {"statusCheck"} /\ links'.head[pc'] # WAY_NONE
  BY AfterListIs
<1>3. PICK N : N = MovedTo(M, to, w)
  OBVIOUS
<1>4. N \in [List -> SUBSET Way] /\ Listed(links', N)
  BY <1>1, <1>3, MoveListed DEF Places
<1>5. pc' \in Range(Priority) \ {"statusCheck"} => N[pc'] # {}
  BY <1>1, <1>2, <1>4, NextListed
<1>6. WalkAt(N)'
  BY <1>1, <1>2, <1>5 DEF WalkAt
<1>7. ListsInv'
  <2>1. waitWayCnt' = 0
    BY <1>1, NoneCounted DEF Places
  <2>2. Counted(N)'
    BY <1>1, <1>2, <2>1, CountZero
  <2> QED BY <1>1, <1>3, <1>6, <2>2, MoveStep
<1>8. answer' = "none"
  BY <1>1, NotAnswering
<1>9. PassTypes'
  BY <1>1, <1>2, <1>8 DEF PassTypes, WaySchedInv
<1> QED BY <1>7, <1>8, <1>9, NoAnswer

\* The status of a way whose die is ready is asked for.
LEMMA ServeStatusCheckKeepsInv ==
  ASSUME WaySchedInv, ServeStatusCheck
  PROVE  WaySchedInv'
<1>1. PICK M \in [List -> SUBSET Way] : Places(M)
  BY DEF WaySchedInv, ListsInv
<1>2. PICK w : w = Walk("statusCheck")[Min(Checkable)]
  OBVIOUS
<1>3. /\ pc = "statusCheck" /\ Checkable # {} /\ CheckReqStatus(w) /\ links' = Move(w, "statusCheck", "statusReport")
      /\ pc' = AfterList("statusCheck", links')
      /\ UNCHANGED <<nandReqQ, dieState, retryLimit, completeFlag, wayNo, readyBusy, waitWayCnt>>
      /\ UNCHANGED <<busy, dieStatus, register, failures, last, answer>>
  BY <1>2 DEF ServeStatusCheck, hw
<1>4. /\ "statusCheck" \in Range(Priority) /\ {"statusCheck", "statusReport"} \subseteq List
      /\ TypesInv /\ WayInv /\ Listed(links, M)
  BY <1>1 DEF Priority, Range, List, WaySchedInv, Places
<1>5. w \in M["statusCheck"] /\ w \in Way /\ Stage(w)
  <2>1. w \in M["statusCheck"]
    BY <1>2, <1>3, <1>4, CheckableIs
  <2> QED BY <1>4, <2>1 DEF WayInv
<1>6. dieState[w] = "EXE" /\ reqStatusCheckOpt[w] = "CHECK"
  BY <1>1, <1>4, <1>5 DEF Places, Fits
<1>7. /\ commands' = [commands EXCEPT ![w] = Append(@, "STATUS")]
      /\ statusReport' = [statusReport EXCEPT ![w] = "none"]
  BY <1>3, <1>6 DEF CheckReqStatus, V2FStatusCheckAsync, Issue
<1>8. /\ reqStatusCheckOpt' \in [Way -> {"NONE", "CHECK", "REPORT", "COMPLETION_FLAG"}]
      /\ reqStatusCheckOpt'[w] = "REPORT"
      /\ \A v \in Way : v # w => reqStatusCheckOpt'[v] = reqStatusCheckOpt[v]
  BY <1>3, <1>4, <1>5, <1>6, CheckTypes DEF OptAfterCheck
<1>9. Append(commands[w], "STATUS") \in Seq({"READ", "READ_TRANSFER", "WRITE", "ERASE", "STATUS"})
  <2>1. commands[w] \in Seq({"READ", "READ_TRANSFER", "WRITE", "ERASE", "STATUS"})
    BY <1>4, <1>5, WayTypes
  <2> QED BY <2>1, AppendProperties
<1>10. TypesInv' /\ commands'[w] = Append(commands[w], "STATUS") /\ statusReport'[w] = "none"
  <2>1. /\ commands \in [Way -> Seq({"READ", "READ_TRANSFER", "WRITE", "ERASE", "STATUS"})]
        /\ statusReport \in [Way -> {"none", "busy", "pass", "fail"}]
    BY <1>4 DEF TypesInv
  <2>2. PICK q : q = Append(commands[w], "STATUS")
    OBVIOUS
  <2>3. /\ commands' \in [Way -> Seq({"READ", "READ_TRANSFER", "WRITE", "ERASE", "STATUS"})]
        /\ commands'[w] = q
    BY <1>5, <1>7, <1>9, <2>1, <2>2
  <2>4. /\ statusReport' \in [Way -> {"none", "busy", "pass", "fail"}]
        /\ statusReport'[w] = "none"
    BY <1>5, <1>7, <2>1
  <2> QED BY <1>3, <1>4, <1>8, <2>2, <2>3, <2>4 DEF TypesInv
<1>11. \A v \in Way \ {w} : SameWay(v) /\ (Answering(v)' <=> Answering(v))
  <2>1. \A v \in Way : v # w => commands'[v] = commands[v] /\ statusReport'[v] = statusReport[v]
    BY <1>4, <1>7 DEF TypesInv
  <2>2. \A v : ~Answering(v) /\ ~Answering(v)'
    BY <1>3, NotAnswering DEF Answering
  <2> QED BY <1>3, <1>8, <2>1, <2>2 DEF SameWay
<1>12. ListsInv' /\ PassTypes' /\ AnsweredAsHappened'
  <2>1. Fits(w, "statusReport")'
    BY <1>3, <1>6, <1>8 DEF Fits
  <2>2. \A v \in Way \ {w} : /\ nandReqQ'[v] = nandReqQ[v] /\ dieState'[v] = dieState[v]
                             /\ reqStatusCheckOpt'[v] = reqStatusCheckOpt[v]
    BY <1>11 DEF SameWay
  <2> QED BY <1>1, <1>3, <1>4, <1>5, <2>1, <2>2, ServeStep
<1>13. Stage(w)'
  <2>1. PICK c : c = Head(nandReqQ[w])
    OBVIOUS
  <2>2. Behind(w) /\ nandReqQ[w] # <<>> /\ c \in Code \cup {"READ"} /\ Checked(w, c)
    BY <1>5, <1>6, <2>1 DEF Stage, Working
  <2>3. \A n : Balance(w, n)' <=> Balance(w, n)
    BY <1>3 DEF Balance
  <2>4. Reported(w, c)'
    <3>1. Append(<<>>, "STATUS") = <<"STATUS">> /\ Append(<<c>>, "STATUS") = <<c, "STATUS">>
      BY CommandFacts
    <3>2. CASE commands[w] = <<c>> /\ Fresh(w)
      <4>1. Fresh(w)'
        BY <1>3, <2>3, <3>2 DEF Fresh
      <4>2. commands'[w] = <<c, "STATUS">>
        BY <1>10, <3>1, <3>2
      <4> QED BY <1>10, <4>1, <4>2 DEF Reported
    <3>3. CASE commands[w] = <<>> /\ Started(w, c)
      <4>1. Started(w, c)'
        BY <1>3, <2>3, <3>3 DEF Started, Ended
      <4>2. commands'[w] = <<"STATUS">>
        BY <1>10, <3>1, <3>3
      <4> QED BY <1>10, <4>1, <4>2 DEF Reported
    <3> QED BY <2>2, <3>2, <3>3 DEF Checked
  <2> QED BY <1>3, <1>6, <1>8, <2>1, <2>2, <2>4 DEF Stage, Working, Behind
<1>14. WayInv'
  BY <1>4, <1>11, <1>13, OthersStay
<1> QED BY <1>10, <1>12, <1>14 DEF WaySchedInv

\* The request at the head of the queue of a way is issued.
LEMMA ServeListKeepsInv ==
  ASSUME WaySchedInv, NEW list \in Range(Priority), ServeList(list)
  PROVE  WaySchedInv'
<1>1. PICK M \in [List -> SUBSET Way] : Places(M)
  BY DEF WaySchedInv, ListsInv
<1>2. PICK w, c, to : /\ w = links.head[list] /\ c = Head(nandReqQ[w])
                      /\ to = IF list = "readTransfer" THEN "statusReport" ELSE "statusCheck"
  OBVIOUS
<1>3. /\ pc = list /\ list # "statusCheck" /\ links' = Move(w, list, to) /\ pc' = AfterList(list, links')
      /\ dieState' = [dieState EXCEPT ![w] = "EXE"]
      /\ dieState[w] = "IDLE" => IssueNandReq(w)
      /\ UNCHANGED <<nandReqQ, retryLimit, statusReport, wayNo, readyBusy, waitWayCnt>>
      /\ UNCHANGED <<busy, dieStatus, register, failures, last, answer>>
  BY <1>2 DEF ServeList, hw
<1>4. /\ list \in List /\ to \in List /\ list \notin {"idle", "statusReport", "rearm"}
      /\ TypesInv /\ WayInv /\ Listed(links, M) /\ WalkAt(M)
  BY <1>1, <1>2 DEF Priority, Range, List, WaySchedInv, Places
<1>5. w \in M[list] /\ w \in Way /\ Stage(w)
  <2>1. M[list] # {}
    BY <1>3, <1>4 DEF WalkAt
  <2>2. w \in M[list]
    BY <1>2, <1>4, <2>1, NextListed
  <2> QED BY <1>4, <2>2 DEF WayInv
<1>6. dieState[w] = "IDLE" /\ nandReqQ[w] # <<>> /\ list = ListOfCode(c)
  BY <1>1, <1>2, <1>3, <1>4, <1>5 DEF Places, Fits
<1>7. c \in Code \cup {"READ", "READ_TRANSFER"} /\ (list = "readTransfer" <=> c = "READ_TRANSFER")
  BY <1>2, <1>4, <1>5, <1>6, HeadTypes, ListOfCodeIs
<1>8. \A v : ~Answering(v) /\ ~Answering(v)'
  BY <1>3, <1>4, NotAnswering DEF Answering
<1>9. /\ Behind(w) /\ commands[w] = <<>> /\ busy[w] = "none" /\ Balance(w, 0)
      /\ c = "READ_TRANSFER" => register[w]
  BY <1>2, <1>5, <1>6, <1>8 DEF Stage, Resting
<1>10. /\ commands' = [commands EXCEPT ![w] = Append(@, c)]
       /\ IF c = "READ_TRANSFER"
          THEN /\ reqStatusCheckOpt' = [reqStatusCheckOpt EXCEPT ![w] = "COMPLETION_FLAG"]
               /\ completeFlag' = [completeFlag EXCEPT ![w] = "none"]
          ELSE /\ reqStatusCheckOpt' = [reqStatusCheckOpt EXCEPT ![w] = "CHECK"]
               /\ completeFlag' = completeFlag
  BY <1>2, <1>3, <1>6 DEF IssueNandReq, Issue, V2FReadPageTransferAsync
<1>11. commands' = [commands EXCEPT ![w] = <<c>>] /\ <<c>> \in Seq({"READ", "READ_TRANSFER", "WRITE", "ERASE", "STATUS"})
  <2>1. Append(<<>>, c) = <<c>>
    BY CommandFacts
  <2>2. c \in {"READ", "READ_TRANSFER", "WRITE", "ERASE", "STATUS"}
    BY <1>7, Codes
  <2> QED BY <1>9, <1>10, <2>1, <2>2
<1>12. /\ reqStatusCheckOpt \in [Way -> {"NONE", "CHECK", "REPORT", "COMPLETION_FLAG"}]
       /\ completeFlag \in [Way -> {"none", "pass", "warning", "fail"}]
       /\ DOMAIN commands = Way /\ DOMAIN dieState = Way
  BY <1>4 DEF TypesInv
<1>13. TypesInv' /\ commands'[w] = <<c>> /\ dieState'[w] = "EXE"
  <2>1. commands' \in [Way -> Seq({"READ", "READ_TRANSFER", "WRITE", "ERASE", "STATUS"})] /\ commands'[w] = <<c>>
    BY <1>4, <1>5, <1>11 DEF TypesInv
  <2>2. dieState' \in [Way -> {"IDLE", "EXE"}] /\ dieState'[w] = "EXE"
    BY <1>3, <1>4, <1>5 DEF TypesInv
  <2>3. /\ reqStatusCheckOpt' \in [Way -> {"NONE", "CHECK", "REPORT", "COMPLETION_FLAG"}]
        /\ completeFlag' \in [Way -> {"none", "pass", "warning", "fail"}]
    <3>1. CASE c = "READ_TRANSFER"
      <4>1. reqStatusCheckOpt' = [reqStatusCheckOpt EXCEPT ![w] = "COMPLETION_FLAG"]
        BY <1>10, <3>1
      <4>2. completeFlag' = [completeFlag EXCEPT ![w] = "none"]
        BY <1>10, <3>1
      <4>3. reqStatusCheckOpt' \in [Way -> {"NONE", "CHECK", "REPORT", "COMPLETION_FLAG"}]
        BY <1>12, <4>1
      <4>4. completeFlag' \in [Way -> {"none", "pass", "warning", "fail"}]
        BY <1>12, <4>2
      <4> QED BY <4>3, <4>4
    <3>2. CASE c # "READ_TRANSFER"
      <4>1. reqStatusCheckOpt' = [reqStatusCheckOpt EXCEPT ![w] = "CHECK"]
        BY <1>10, <3>2
      <4>2. completeFlag' = completeFlag
        BY <1>10, <3>2
      <4>3. reqStatusCheckOpt' \in [Way -> {"NONE", "CHECK", "REPORT", "COMPLETION_FLAG"}]
        BY <1>12, <4>1
      <4> QED BY <1>12, <4>2, <4>3
    <3> QED BY <3>1, <3>2
  <2> QED BY <1>3, <1>4, <2>1, <2>2, <2>3 DEF TypesInv
<1>14. IF c = "READ_TRANSFER" THEN reqStatusCheckOpt'[w] = "COMPLETION_FLAG" /\ completeFlag'[w] = "none"
       ELSE reqStatusCheckOpt'[w] = "CHECK"
  <2>1. CASE c = "READ_TRANSFER"
    BY <1>5, <1>10, <1>12, <2>1
  <2>2. CASE c # "READ_TRANSFER"
    BY <1>5, <1>10, <1>12, <2>2
  <2> QED BY <2>1, <2>2
<1>15. \A v \in Way \ {w} : SameWay(v) /\ (Answering(v)' <=> Answering(v))
  <2>1. ASSUME NEW v \in Way, v # w
        PROVE  /\ commands'[v] = commands[v] /\ dieState'[v] = dieState[v]
               /\ reqStatusCheckOpt'[v] = reqStatusCheckOpt[v] /\ completeFlag'[v] = completeFlag[v]
    <3>1. commands'[v] = commands[v] /\ dieState'[v] = dieState[v]
      BY <1>3, <1>11, <1>12, <2>1
    <3>2. CASE c = "READ_TRANSFER"
      BY <1>10, <1>12, <2>1, <3>1, <3>2
    <3>3. CASE c # "READ_TRANSFER"
      BY <1>10, <1>12, <2>1, <3>1, <3>3
    <3> QED BY <3>2, <3>3
  <2> QED BY <1>3, <1>8, <2>1 DEF SameWay
<1>16. ListsInv' /\ PassTypes' /\ AnsweredAsHappened'
  <2>1. Fits(w, to)'
    BY <1>2, <1>7, <1>13, <1>14 DEF Fits
  <2>2. \A v \in Way \ {w} : /\ nandReqQ'[v] = nandReqQ[v] /\ dieState'[v] = dieState[v]
                             /\ reqStatusCheckOpt'[v] = reqStatusCheckOpt[v]
    BY <1>15 DEF SameWay
  <2> QED BY <1>1, <1>3, <1>4, <1>5, <2>1, <2>2, ServeStep
<1>17. Stage(w)'
  <2>1. Fresh(w)'
    BY <1>3, <1>9 DEF Fresh, Balance
  <2>2. CASE c = "READ_TRANSFER"
    BY <1>2, <1>3, <1>6, <1>9, <1>13, <1>14, <2>1, <2>2 DEF Stage, Working, Transferred, Behind
  <2>3. CASE c # "READ_TRANSFER"
    BY <1>2, <1>3, <1>6, <1>7, <1>9, <1>13, <1>14, <2>1, <2>3 DEF Stage, Working, Checked, Behind
  <2> QED BY <2>2, <2>3
<1>18. WayInv'
  BY <1>4, <1>15, <1>17, OthersStay
<1> QED BY <1>13, <1>16, <1>18 DEF WaySchedInv

-----------------------------------------------------------------------------
(* The beginning, and the invariant.                                       *)

\* At first every way is idle.
LEMMA InitPlaces ==
  ASSUME Init
  PROVE  ListsInv
<1>1. USER_WAYS \in Nat /\ USER_WAYS > 0
  BY WaysAssumption
<1>2. PICK s : s = [i \in 1..USER_WAYS |-> i - 1]
  OBVIOUS
<1>3. PICK M : M = [list \in List |-> IF list = "idle" THEN Way ELSE {}]
  OBVIOUS
<1>4. /\ s \in Seq(Way) /\ Len(s) = USER_WAYS /\ s # <<>> /\ DOMAIN s = 1..USER_WAYS
      /\ \A i \in 1..USER_WAYS : s[i] = i - 1 /\ s[i] \in Way
  BY <1>1, <1>2 DEF Way
<1>5. NoDup(s)
  BY <1>1, <1>4 DEF NoDup
<1>6. ToSet(s) = Way
  <2>1. ASSUME NEW b \in Way PROVE b + 1 \in 1..USER_WAYS /\ s[b + 1] = b
    BY <1>1, <1>4 DEF Way
  <2> QED BY <1>4, <2>1 DEF ToSet
<1>7. PICK l : l = links
  OBVIOUS
<1>8. /\ l = [head    |-> [m \in List |-> IF m = "idle" THEN 0 ELSE WAY_NONE],
              tail    |-> [m \in List |-> IF m = "idle" THEN USER_WAYS - 1 ELSE WAY_NONE],
              prevWay |-> [w \in Way |-> IF w = 0 THEN WAY_NONE ELSE w - 1],
              nextWay |-> [w \in Way |-> IF w = USER_WAYS - 1 THEN WAY_NONE ELSE w + 1]]
  BY <1>7 DEF Init
<1>9. l \in LinksType
  <2>1. 0 \in Way /\ USER_WAYS - 1 \in Way
    BY <1>1 DEF Way
  <2>2. \A w \in Way : (w # 0 => w - 1 \in Way) /\ (w # USER_WAYS - 1 => w + 1 \in Way)
    BY <1>1 DEF Way
  <2> QED BY <1>8, <2>1, <2>2 DEF LinksType
<1>10. ASSUME NEW i \in 1..USER_WAYS
       PROVE  /\ l.prevWay[s[i]] = IF i = 1 THEN WAY_NONE ELSE s[i - 1]
              /\ l.nextWay[s[i]] = IF i = USER_WAYS THEN WAY_NONE ELSE s[i + 1]
  <2>1. s[i] = i - 1 /\ s[i] \in Way /\ i \in Nat
    BY <1>1, <1>4
  <2>2. /\ l.prevWay[s[i]] = IF s[i] = 0 THEN WAY_NONE ELSE s[i] - 1
        /\ l.nextWay[s[i]] = IF s[i] = USER_WAYS - 1 THEN WAY_NONE ELSE s[i] + 1
    BY <1>8, <2>1
  <2>3. (s[i] = 0 <=> i = 1) /\ (s[i] = USER_WAYS - 1 <=> i = USER_WAYS)
    BY <1>1, <2>1
  <2>4. i # 1 => s[i - 1] = s[i] - 1
    BY <1>1, <1>4, <2>1
  <2>5. i # USER_WAYS => s[i + 1] = s[i] + 1
    BY <1>1, <1>4, <2>1
  <2> QED BY <2>2, <2>3, <2>4, <2>5
<1>11. "idle" \in List /\ l.head["idle"] = s[1] /\ l.tail["idle"] = s[USER_WAYS]
  BY <1>1, <1>4, <1>8 DEF List
<1>12. ASSUME NEW list \in List PROVE \E t : LinkedIn(ChainOf(AsTable(l), list), t, Way, WAY_NONE) /\ ToSet(t) = M[list]
  <2>1. PICK c : c = ChainOf(AsTable(l), list)
    OBVIOUS
  <2>2. c.head = l.head[list] /\ c.tail = l.tail[list] /\ c.prev = l.prevWay /\ c.next = l.nextWay
    BY <2>1 DEF ChainOf, AsTable
  <2>3. CASE list = "idle"
    <3>1. LinkedIn(c, s, Way, WAY_NONE)
      BY <1>4, <1>5, <1>10, <1>11, <2>2, <2>3 DEF LinkedIn
    <3> QED BY <1>3, <1>6, <1>11, <2>1, <2>3, <3>1
  <2>4. CASE list # "idle"
    <3>1. c.head = WAY_NONE /\ c.tail = WAY_NONE /\ M[list] = {}
      BY <1>3, <1>8, <2>2, <2>4
    <3>2. <<>> \in Seq(Way) /\ Len(<<>>) = 0 /\ NoDup(<<>>) /\ ToSet(<<>>) = {}
      BY DEF NoDup, ToSet
    <3>3. LinkedIn(c, <<>>, Way, WAY_NONE)
      BY <3>1, <3>2 DEF LinkedIn
    <3> QED BY <2>1, <3>1, <3>2, <3>3
  <2> QED BY <2>3, <2>4
<1>13. Listed(links, M)
  <2>1. AsTable(l) \in TableType(List, Way, WAY_NONE)
    BY <1>9 DEF AsTable, LinksType, TableType, EntryOf
  <2> QED BY <1>7, <1>9, <1>12, <2>1 DEF Listed, TableIn
<1>14. M \in [List -> SUBSET Way] /\ ApartIn(M, List)
  BY <1>3 DEF ApartIn
<1>15. \A w \in Way : w \in M["idle"]
  BY <1>3, <1>11
<1>16. ASSUME NEW list \in List, NEW w \in M[list] PROVE Fits(w, list)
  <2>1. list = "idle" /\ w \in Way
    BY <1>3, <1>16
  <2> QED BY <2>1 DEF Fits, Init
<1>17. WalkAt(M)
  BY DEF Init, WalkAt, Priority, Range
<1>18. Counted(M)
  <2>1. CountedAs(M, {}, {})
    BY FS_EmptySet DEF Init, CountedAs
  <2> QED BY <2>1 DEF Counted
<1>19. Places(M)
  BY <1>11, <1>13, <1>14, <1>15, <1>16, <1>17, <1>18 DEF Places
<1> QED BY <1>14, <1>19 DEF ListsInv

\* And has nothing to do.
LEMMA InitInv ==
  ASSUME Init
  PROVE  WaySchedInv
<1>1. RETRY_LIMIT \in Nat /\ RETRY_LIMIT \in 0..RETRY_LIMIT /\ 0 + RETRY_LIMIT = RETRY_LIMIT + 0
  BY RetryAssumption
<1>2. /\ <<>> \in Seq(Code \cup {"READ", "READ_TRANSFER"}) /\ Len(<<>>) = 0
      /\ <<>> \in Seq({"READ", "READ_TRANSFER", "WRITE", "ERASE", "STATUS"})
  OBVIOUS
<1>3. TypesInv
  BY <1>1, <1>2 DEF Init, TypesInv
<1>4. PassTypes /\ AnsweredAsHappened
  BY DEF Init, PassTypes, AnsweredAsHappened
<1>5. ASSUME NEW w \in Way PROVE Stage(w)
  <2>1. /\ nandReqQ[w] = <<>> /\ dieState[w] = "IDLE" /\ commands[w] = <<>> /\ busy[w] = "none"
        /\ failures[w] = 0 /\ retryLimit[w] = RETRY_LIMIT /\ pc = "poll"
    BY DEF Init
  <2>2. Behind(w)
    BY <1>2, <2>1 DEF Behind
  <2>3. Resting(w)
    BY <1>1, <2>1 DEF Resting, Answering, Balance
  <2> QED BY <2>1, <2>2, <2>3 DEF Stage
<1>6. ListsInv
  BY InitPlaces
<1> QED BY <1>3, <1>4, <1>5, <1>6 DEF WaySchedInv, WayInv

\* Every step keeps the invariant.
LEMMA NextKeepsInv ==
  ASSUME WaySchedInv, [Next]_vars
  PROVE  WaySchedInv'
<1>1. CASE SchedulingNandReqPerCh
  BY <1>1, StartsKeepInv, EndsKeepInv, IdleWayKeepsInv, ReportRunningKeepsInv, ReportResultKeepsInv, RearmKeepsInv,
     ServeStatusCheckKeepsInv, ServeListKeepsInv DEF SchedulingNandReqPerCh
<1>2. ASSUME NEW w \in Way, NEW c \in Code, PutToNandReqQ(w, c) PROVE WaySchedInv'
  BY <1>2, PutToNandReqQKeepsInv
<1>3. ASSUME NEW w \in Way, Begin(w) \/ Finish(w) PROVE WaySchedInv'
  BY <1>3, BeginKeepsInv, FinishKeepsInv
<1>4. CASE UNCHANGED vars
  <2>1. /\ UNCHANGED <<nandReqQ, dieState, reqStatusCheckOpt, retryLimit, links, statusReport, completeFlag, commands>>
        /\ UNCHANGED <<pc, wayNo, readyBusy, waitWayCnt, busy, dieStatus, register, failures, last, answer>>
        /\ UNCHANGED <<fw, pass>>
    BY <1>4 DEF vars, fw, pass, hw
  <2>2. TypesInv /\ PassTypes /\ WayInv /\ AnsweredAsHappened /\ ListsInv
    BY DEF WaySchedInv
  <2>3. TypesInv' /\ PassTypes' /\ AnsweredAsHappened'
    BY <2>1, <2>2 DEF TypesInv, PassTypes, AnsweredAsHappened
  <2>4. WayInv'
    BY <2>1, <2>2, StageStays DEF WayInv, SameWay, Answering
  <2> QED BY <2>1, <2>2, <2>3, <2>4, ListsStay DEF WaySchedInv
<1> QED BY <1>1, <1>2, <1>3, <1>4 DEF Next

\* Lists and ways are always as WaySchedInv says
\* (request_schedule.c:211-931, 1257-1480).
THEOREM WaySchedInvHolds == Spec => []WaySchedInv
<1>1. Init => WaySchedInv
  BY InitInv
<1>2. WaySchedInv /\ [Next]_vars => WaySchedInv'
  BY NextKeepsInv
<1> QED BY <1>1, <1>2, PTL DEF Spec

-----------------------------------------------------------------------------
(* What follows from it.                                                   *)

\* What walking along a list meets is what WaysListed asks for.
LEMMA ListIsWhole ==
  ASSUME NEW M \in [List -> SUBSET Way], Places(M), NEW list \in List, NEW s, s = Walk(list)
  PROVE  /\ s = <<>> <=> links.tail[list] = WAY_NONE
         /\ s # <<>> => /\ links.prevWay[s[1]] = WAY_NONE
                        /\ s[Len(s)] = links.tail[list] /\ links.nextWay[s[Len(s)]] = WAY_NONE
         /\ \A i \in 2..Len(s) : links.prevWay[s[i]] = s[i - 1]
         /\ \A i \in DOMAIN s : Fits(s[i], list) /\ s[i] \in M[list]
         /\ DOMAIN s \subseteq 1..USER_WAYS /\ NoDup(s)
         /\ \A w \in M[list] : \E i \in DOMAIN s : s[i] = w
<1>1. PICK l : l = ChainOf(AsTable(links), list)
  OBVIOUS
<1>2. LinkedIn(l, s, Way, WAY_NONE) /\ ToSet(s) = M[list] /\ Len(s) \in 0..USER_WAYS
  BY <1>1, WalkIs DEF Places
<1>3. l.tail = links.tail[list] /\ l.prev = links.prevWay /\ l.next = links.nextWay
  BY <1>1 DEF ChainOf, AsTable
<1>4. /\ Len(s) \in Nat /\ (s = <<>> <=> Len(s) = 0)
      /\ \A i \in 1..Len(s) : s[i] \in Way /\ s[i] # WAY_NONE /\ s[i] \in M[list]
  BY <1>2, NoneIsNoWay, EntriesIn
<1>5. s \in Seq(Way) /\ NoDup(s) /\ DOMAIN s = 1..Len(s) /\ DOMAIN s \subseteq 1..USER_WAYS
  BY <1>2, WaysAssumption DEF LinkedIn
<1>6. s = <<>> => links.tail[list] = WAY_NONE
  BY <1>2, <1>3 DEF LinkedIn
<1>7. s # <<>> => 1 \in 1..Len(s) /\ Len(s) \in 1..Len(s)
  BY <1>4
<1>8. s # <<>> => /\ links.prevWay[s[1]] = WAY_NONE /\ links.tail[list] # WAY_NONE
                  /\ s[Len(s)] = links.tail[list] /\ links.nextWay[s[Len(s)]] = WAY_NONE
  BY <1>2, <1>3, <1>4, <1>7 DEF LinkedIn
<1>9. \A i \in 2..Len(s) : links.prevWay[s[i]] = s[i - 1]
  <2>1. \A i \in 2..Len(s) : i \in 1..Len(s) /\ i # 1
    BY <1>4
  <2> QED BY <1>2, <1>3, <2>1 DEF LinkedIn
<1>10. \A i \in DOMAIN s : Fits(s[i], list) /\ s[i] \in M[list]
  BY <1>4, <1>5 DEF Places
<1>11. \A w \in M[list] : \E i \in DOMAIN s : s[i] = w
  BY <1>2, <1>5 DEF ToSet
<1> QED BY <1>5, <1>6, <1>8, <1>9, <1>10, <1>11

\* No way is lost (request_schedule.c:511-975).
THEOREM WaysListedHolds == Spec => []WaysListed
<1>1. ASSUME WaySchedInv PROVE WaysListed
  <2>1. PICK M \in [List -> SUBSET Way] : Places(M)
    BY <1>1 DEF WaySchedInv, ListsInv
  <2>2. ASSUME NEW list \in List
        PROVE  LET s == Walk(list) IN
               /\ s = <<>> <=> links.tail[list] = WAY_NONE
               /\ s # <<>> => /\ links.prevWay[s[1]] = WAY_NONE
                              /\ s[Len(s)] = links.tail[list] /\ links.nextWay[s[Len(s)]] = WAY_NONE
               /\ \A i \in 2..Len(s) : links.prevWay[s[i]] = s[i - 1]
               /\ \A i \in DOMAIN s : Fits(s[i], list)
    BY <2>1, ListIsWhole
  <2>3. ASSUME NEW w \in Way
        PROVE  \E list \in List, i \in 1..USER_WAYS :
                 /\ i \in DOMAIN Walk(list) /\ Walk(list)[i] = w
                 /\ \A m \in List, j \in 1..USER_WAYS :
                      j \in DOMAIN Walk(m) /\ Walk(m)[j] = w => m = list /\ j = i
    <3>1. PICK list \in List : w \in M[list]
      BY <2>1 DEF Places
    <3>2. PICK i \in DOMAIN Walk(list) : Walk(list)[i] = w
      BY <2>1, <3>1, ListIsWhole
    <3>3. i \in 1..USER_WAYS /\ NoDup(Walk(list))
      BY <2>1, <3>2, ListIsWhole
    <3>4. ASSUME NEW m \in List, NEW j \in 1..USER_WAYS, j \in DOMAIN Walk(m), Walk(m)[j] = w
          PROVE  m = list /\ j = i
      <4>1. w \in M[m]
        BY <2>1, <3>4, ListIsWhole
      <4>2. m = list
        BY <2>1, <3>1, <4>1 DEF Places, ApartIn
      <4>3. j = i
        BY <3>2, <3>3, <3>4, <4>2 DEF NoDup
      <4> QED BY <4>2, <4>3
    <3> QED BY <3>2, <3>3, <3>4
  <2> QED BY <2>2, <2>3 DEF WaysListed
<1> QED BY <1>1, WaySchedInvHolds, PTL

\* What reaches a die suits it (request_schedule.c:1362-1366).
THEOREM CommandsFitHolds == Spec => []CommandsFit
<1>1. ASSUME WaySchedInv PROVE CommandsFit
  <2>1. ASSUME NEW w \in Way, commands[w] # <<>>
        PROVE  /\ Head(commands[w]) # "STATUS" => busy[w] = "none"
               /\ Head(commands[w]) = "READ_TRANSFER" => register[w]
    <3>1. PICK c : c = Head(nandReqQ[w])
      OBVIOUS
    <3>2. \/ commands[w] = <<"STATUS">>
          \/ commands[w] = <<"READ_TRANSFER">> /\ register[w] /\ busy[w] = "none"
          \/ c # "READ_TRANSFER" /\ busy[w] = "none" /\ (commands[w] = <<c>> \/ commands[w] = <<c, "STATUS">>)
      BY <1>1, <2>1, <3>1, FirstCommand DEF WaySchedInv, WayInv, Fresh
    <3>3. /\ Head(<<"STATUS">>) = "STATUS" /\ Head(<<"READ_TRANSFER">>) = "READ_TRANSFER"
          /\ Head(<<c>>) = c /\ Head(<<c, "STATUS">>) = c
      BY CommandFacts
    <3> QED BY <3>2, <3>3
  <2> QED BY <2>1 DEF CommandsFit
<1> QED BY <1>1, WaySchedInvHolds, PTL

\* A request is answered as what happened to it (request_schedule.c:1386-1480).
THEOREM AnsweredAsHappenedHolds == Spec => []AnsweredAsHappened
<1>1. WaySchedInv => AnsweredAsHappened
  BY DEF WaySchedInv
<1> QED BY <1>1, WaySchedInvHolds, PTL

\* The variables keep their types; a pass never counts more ways than there
\* are (request_schedule.c:257, 312, 340, 346).
THEOREM TypesHold == Spec => []TypeOK
<1>1. ASSUME WaySchedInv PROVE TypeOK
  <2>1. PICK M \in [List -> SUBSET Way] : Places(M)
    BY <1>1 DEF WaySchedInv, ListsInv
  <2>2. PICK W, R \in SUBSET Way : CountedAs(M, W, R)
    BY <2>1 DEF Places, Counted
  <2>3. waitWayCnt \in 0..USER_WAYS
    <3>1. IsFiniteSet(W) /\ Cardinality(W) <= USER_WAYS
      BY WaysFinite, FS_Subset
    <3>2. Cardinality(W) \in Nat
      BY <3>1, FS_CardinalityType
    <3> QED BY <2>2, <3>1, <3>2, WaysFinite DEF CountedAs
  <2>4. links \in LinksType
    BY <2>1 DEF Places, Listed
  <2> QED BY <1>1, <2>3, <2>4 DEF WaySchedInv, TypesInv, PassTypes, TypeOK, LinksType
<1> QED BY <1>1, WaySchedInvHolds, PTL

\* No list that the last part of a pass serves has a way when that part is
\* skipped (request_schedule.c:402).
SkipsNothing ==
  pc = "report" /\ wayNo = WAY_NONE /\ waitWayCnt = USER_WAYS =>
    \A list \in Range(Priority) : links.head[list] = WAY_NONE

\* Skipping the last part of a pass passes nobody by: the ways that wait are
\* counted once each, although the walks move ways while they count
\* (request_schedule.c:226-402).
THEOREM SkipsNothingHolds == Spec => []SkipsNothing
<1>1. ASSUME WaySchedInv PROVE SkipsNothing
  <2>1. PICK M \in [List -> SUBSET Way] : Places(M)
    BY <1>1 DEF WaySchedInv, ListsInv
  <2>2. PICK W, R \in SUBSET Way : CountedAs(M, W, R)
    BY <2>1 DEF Places, Counted
  <2>3. ASSUME waitWayCnt = USER_WAYS, NEW list \in Range(Priority) PROVE links.head[list] = WAY_NONE
    <3>1. Cardinality(W) = Cardinality(Way)
      BY <2>2, <2>3, WaysFinite DEF CountedAs
    <3>2. W = Way
      BY <3>1, WaysFinite, FS_Subset
    <3>3. /\ list \in List /\ list \notin {"idle", "statusReport"} /\ {"idle", "statusReport"} \subseteq List
      BY DEF Priority, Range, List
    <3>4. M[list] = {}
      BY <2>1, <2>2, <3>2, <3>3 DEF CountedAs, Places, ApartIn
    <3> QED BY <2>1, <3>3, <3>4, NextListed DEF Places
  <2> QED BY <2>3 DEF SkipsNothing
<1> QED BY <1>1, WaySchedInvHolds, PTL
=============================================================================
