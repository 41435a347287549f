----------------------------- MODULE MCWaySched -----------------------------
(***************************************************************************)
(* The values of a way that nothing reads before they are set again are    *)
(* hidden: the status option and the reports of a die at rest, a report or *)
(* flag its option does not look at, and the result of what is over.       *)
(***************************************************************************)
EXTENDS WaySched

Seen(f, Live(_), none) == [w \in Way |-> IF Live(w) THEN f[w] ELSE none]

\* The die has begun the operation of the request.
Begun(w) == dieState[w] = "EXE" /\ (commands[w] = <<>> \/ Head(commands[w]) = "STATUS")

View ==
  <<nandReqQ, dieState, retryLimit, links, pass, commands, busy, register, failures, answer,
    Seen(reqStatusCheckOpt, LAMBDA w : dieState[w] = "EXE", "NONE"),
    Seen(statusReport, LAMBDA w : dieState[w] = "EXE" /\ reqStatusCheckOpt[w] = "REPORT", "none"),
    Seen(completeFlag, LAMBDA w : dieState[w] = "EXE" /\ reqStatusCheckOpt[w] = "COMPLETION_FLAG", "none"),
    Seen(dieStatus, LAMBDA w : Begun(w) /\ reqStatusCheckOpt[w] # "COMPLETION_FLAG", "pass"),
    Seen(last, LAMBDA w : Begun(w) \/ (answer # "none" /\ w = wayNo), "none")>>
=============================================================================
