------------------------------- MODULE NvmeCtrl -------------------------------
(***************************************************************************)
(* The status machine of the controller: g_nvmeTask.status is read by the  *)
(* main loop (nvme_main.c) at the head of a round and stored at the end of *)
(* the branch it chose, and the interrupt handler (dev_irq_handler) stores *)
(* it in between. The host sees the registers CC and CSTS, the queues it   *)
(* created with admin commands, and their answers.                         *)
(*                                                                         *)
(* The main loop is a sequence of steps (pc): one for each access to a     *)
(* register or to the status that the host or the handler can tell apart.  *)
(* A comparison of the status that a later one of the same round           *)
(* contradicts only skips the round.                                       *)
(***************************************************************************)
EXTENDS Integers

CONSTANTS
  MaxNumOfIoQueues,  \* MAX_NUM_OF_IO_SQ and MAX_NUM_OF_IO_CQ: 8
  MaxIdleResets,     \* resets without a command before the link is reset: 5
  MaxLinkLosses,     \* bound: how often the link is lost by itself
  NoCmd              \* no command

ASSUME QueueAssumption == MaxNumOfIoQueues \in Nat \ {0}
ASSUME ResetAssumption == MaxIdleResets \in Nat /\ MaxLinkLosses \in Nat

Status == {"IDLE", "WAIT_CC_EN", "RUNNING", "SHUTDOWN", "WAIT_RESET", "RESET"}
Irq == {"pcieLink", "nvmeCcEn", "nvmeCcShn"}
Queue == 1 .. MaxNumOfIoQueues
NoSettings == [sq |-> [q \in Queue |-> 0], cq |-> [q \in Queue |-> FALSE], cacheEn |-> 0]

(***************************************************************************)
(* The commands a host sends. NSQR and NCQR count from zero. fits: the     *)
(* size, the interrupt vector and the address of a queue are what the      *)
(* registers hold (QSIZE < 0x100, IV < 8, PRP1 aligned and 48 bits).       *)
(* "Other" only gets an answer (identify, get features, log page, the      *)
(* features that change nothing); an asynchronous event request only has   *)
(* its slot released.                                                      *)
(***************************************************************************)
Command ==
  [opc : {"NUMBER_OF_QUEUES"}, nsqr : 0 .. MaxNumOfIoQueues, ncqr : 0 .. MaxNumOfIoQueues]
    \cup [opc : {"VOLATILE_WRITE_CACHE"}, cacheEn : {0, 1}]
    \cup [opc : {"CREATE_IO_SQ"}, qid : 1 .. MaxNumOfIoQueues + 1, cqid : 1 .. MaxNumOfIoQueues + 1,
           fits : BOOLEAN]
    \cup [opc : {"CREATE_IO_CQ"}, qid : 1 .. MaxNumOfIoQueues + 1, fits : BOOLEAN]
    \cup [opc : {"DELETE_IO_SQ", "DELETE_IO_CQ", "IO"}, qid : Queue]
    \cup [opc : {"OTHER", "ASYNCHRONOUS_EVENT_REQUEST"}]

VARIABLES
  status,    \* g_nvmeTask.status
  pc,        \* the next step of the main loop
  rstCnt,    \* local to nvme_main
  nvmeCmd,   \* the command in hand
  irqPc,     \* the next step of dev_irq_handler, "off" outside of it
  devReg,    \* the interrupts the handler has read
  ccEn, ccShn, cstsRdy, cstsShst,  \* NVME_STATUS_REG
  adminQueue,                      \* NVME_ADMIN_QUEUE_SET_REG: valid or not
  settings,  \* the queue registers (sq: the completion queue, 0 when invalid) and g_nvmeTask.cacheEn
  link,      \* the PCIe link is up
  irq,       \* DEV_IRQ_STATUS_REG
  driver,    \* what the host is doing
  cmd,       \* the command the host has sent and nobody has fetched
  agreed,    \* the settings answered to the host since it enabled the controller
  granted,   \* the number of queues of each kind it was granted
  losses,    \* counts link losses
  lost       \* history: a store of the main loop overwrote a request of the host

mainVars == <<pc, rstCnt, nvmeCmd>>
irqVars == <<irqPc, devReg>>
regVars == <<ccEn, ccShn, cstsRdy, cstsShst>>
hostVars == <<driver, cmd, agreed, granted>>
vars == <<status, mainVars, irqVars, regVars, adminQueue, settings, link, irq,
          hostVars, losses, lost>>

Settings == [sq : [Queue -> 0 .. MaxNumOfIoQueues], cq : [Queue -> BOOLEAN], cacheEn : {0, 1}]
Pc == {"top", "setRdy", "setRunning", "command", "setShst", "setWaitReset", "flush",
       "clearRdy", "setIdle"}
Driver == {"disabled", "enabling", "up", "shutting", "halted", "disabling", "lost"}

TypeOK ==
  /\ status \in Status /\ pc \in Pc /\ rstCnt \in 0 .. MaxIdleResets
  /\ nvmeCmd \in Command \cup {NoCmd} /\ cmd \in Command \cup {NoCmd}
  /\ irqPc \in {"off", "link", "ccEn", "ccShn"} /\ devReg \subseteq Irq /\ irq \subseteq Irq
  /\ ccEn \in {0, 1} /\ cstsRdy \in {0, 1} /\ ccShn \in {0, 1} /\ cstsShst \in {0, 1, 2}
  /\ adminQueue \in BOOLEAN /\ link \in BOOLEAN /\ lost \in BOOLEAN
  /\ settings \in Settings /\ agreed \in Settings
  /\ driver \in Driver /\ granted \in 0 .. MaxNumOfIoQueues /\ losses \in 0 .. MaxLinkLosses

-----------------------------------------------------------------------------
(* The host and the link (external). A write to CC raises the interrupt of *)
(* each field it changes. CSTS is written by the firmware only, and what   *)
(* the firmware writes to CC has no effect. The controller drops what it   *)
(* has not handed out when the host stops using it.                        *)

WriteCc(en, shn) ==
  /\ ccEn' = en /\ ccShn' = shn
  /\ irq' = irq \cup {i \in {"nvmeCcEn"} : ccEn # en} \cup {i \in {"nvmeCcShn"} : ccShn # shn}
  /\ UNCHANGED <<cstsRdy, cstsShst>>

HostGoes(from, to) ==
  /\ driver \in from /\ link /\ driver' = to /\ cmd' = NoCmd
  /\ UNCHANGED <<status, mainVars, irqVars, adminQueue, settings, link, granted, losses, lost>>

HostEnables == HostGoes({"disabled"}, "enabling") /\ WriteCc(1, 0) /\ UNCHANGED agreed
HostShutsDown == HostGoes({"up"}, "shutting") /\ WriteCc(1, 1) /\ UNCHANGED agreed
HostDisables == HostGoes({"up", "halted"}, "disabling") /\ WriteCc(0, 0) /\ UNCHANGED agreed

(* After a link loss the host starts again with a disabled controller.     *)
(* Links train, and drivers wait, for milliseconds: a handler or a branch  *)
(* that was on when the link was lost has come to its store by then, but   *)
(* not a command or the flush of a shutdown.                               *)
HostRecovers ==
  /\ irqPc = "off" /\ pc \in {"top", "command", "flush"}
  /\ HostGoes({"lost"}, "disabling") /\ WriteCc(0, 0) /\ UNCHANGED agreed

(* What the host waits for, and sees in CSTS. *)
HostSees ==
  /\ \/ cstsRdy = 1 /\ HostGoes({"enabling"}, "up") /\ agreed' = NoSettings
     \/ cstsShst = 2 /\ HostGoes({"shutting"}, "halted") /\ UNCHANGED agreed
     \/ cstsRdy = 0 /\ HostGoes({"disabling"}, "disabled") /\ UNCHANGED agreed
  /\ UNCHANGED <<regVars, irq>>

(* A host knows the rules: a submission queue names a completion queue     *)
(* that exists, outlives it, and none is beyond the number it was granted. *)
(* The limits of size, vector and address come from the capabilities of    *)
(* the controller, which the firmware does not set: that a host keeps to   *)
(* them is assumed.                                                        *)
Legal(c) ==
  LET sqs == {s \in Queue : agreed.sq[s] # 0}
      cqs == {q \in Queue : agreed.cq[q]}
  IN CASE c.opc = "CREATE_IO_CQ" -> c.qid \in (1 .. granted) \ cqs /\ c.fits
       [] c.opc = "CREATE_IO_SQ" -> c.qid \in (1 .. granted) \ sqs /\ c.cqid \in cqs /\ c.fits
       [] c.opc = "DELETE_IO_CQ" -> c.qid \in cqs /\ \A s \in sqs : agreed.sq[s] # c.qid
       [] c.opc \in {"DELETE_IO_SQ", "IO"} -> c.qid \in sqs
       [] c.opc = "NUMBER_OF_QUEUES" -> sqs \cup cqs = {}
       [] OTHER -> TRUE

HostSends ==
  /\ driver = "up" /\ link /\ cmd = NoCmd /\ nvmeCmd = NoCmd
  /\ \E c \in Command : Legal(c) /\ cmd' = c
  /\ UNCHANGED <<status, mainVars, irqVars, regVars, adminQueue, settings, link, irq,
                 driver, agreed, granted, losses, lost>>

LinkLost ==
  /\ link /\ link' = FALSE /\ irq' = irq \cup {"pcieLink"}
  /\ driver' = "lost" /\ cmd' = NoCmd

LinkGoesDown ==
  /\ losses < MaxLinkLosses /\ losses' = losses + 1
  /\ LinkLost
  /\ UNCHANGED <<status, mainVars, irqVars, regVars, adminQueue, settings, agreed, granted, lost>>

LinkComesUp ==
  /\ ~link /\ link' = TRUE /\ irq' = irq \cup {"pcieLink"}
  /\ UNCHANGED <<status, mainVars, irqVars, regVars, adminQueue, settings, hostVars, losses, lost>>

Host == HostEnables \/ HostShutsDown \/ HostDisables \/ HostRecovers \/ HostSees \/ HostSends \/ LinkGoesDown \/ LinkComesUp

-----------------------------------------------------------------------------
(* dev_irq_handler. The other interrupts are only logged. *)

IrqEnter ==
  /\ irqPc = "off" /\ irq # {}
  /\ devReg' = irq /\ irq' = {} /\ irqPc' = "link"
  /\ UNCHANGED <<status, mainVars, regVars, adminQueue, settings, link, hostVars, losses, lost>>

IrqStep(at, next) ==
  /\ irqPc = at /\ irqPc' = next
  /\ UNCHANGED <<mainVars, devReg, regVars, adminQueue, settings, link, irq, hostVars, losses>>

IrqLink ==
  /\ IrqStep("link", "ccEn")
  /\ status' = IF "pcieLink" \in devReg /\ ~link THEN "RESET" ELSE status
  /\ UNCHANGED lost

IrqCcEn ==
  /\ IrqStep("ccEn", "ccShn")
  /\ IF "nvmeCcEn" \in devReg
     THEN status' = (IF ccEn = 1 THEN "WAIT_CC_EN" ELSE "RESET") /\ lost' = FALSE
     ELSE UNCHANGED <<status, lost>>

IrqCcShn ==
  /\ IrqStep("ccShn", "off")
  /\ status' = IF "nvmeCcShn" \in devReg /\ ccShn = 1 THEN "SHUTDOWN" ELSE status
  /\ UNCHANGED lost

DevIrqHandler == IrqEnter \/ IrqLink \/ IrqCcEn \/ IrqCcShn

-----------------------------------------------------------------------------
(* nvme_main: a step of the main loop, which the handler interrupts. *)

Step(from, to) ==
  /\ irqPc = "off" /\ pc = from /\ pc' = to
  /\ UNCHANGED <<irqVars, ccEn, ccShn, losses>>

(* The head of a round: the branch of the status. *)
Branch(s, to) == status = s /\ Step("top", to) /\ UNCHANGED status

(* The last store of a branch that was entered in one of the states from.  *)
Store(at, from, s, to) ==
  /\ Step(at, to)
  /\ status' = s
  /\ lost' = (lost \/ status \notin from)
  /\ UNCHANGED <<rstCnt, nvmeCmd, cstsRdy, cstsShst, adminQueue, settings, link, irq, hostVars>>

SetCstsRdy(at, rdy, to) ==
  /\ Step(at, to) /\ cstsRdy' = rdy
  /\ UNCHANGED <<status, rstCnt, nvmeCmd, cstsShst, adminQueue, settings, link, irq, hostVars, lost>>

WaitCcEn ==
  /\ Branch("WAIT_CC_EN", "setRdy") /\ ccEn = 1
  /\ adminQueue' = TRUE
  /\ UNCHANGED <<rstCnt, nvmeCmd, cstsRdy, cstsShst, settings, link, irq, hostVars, lost>>
SetReady == SetCstsRdy("setRdy", 1, "setRunning")
SetRunning == Store("setRunning", {"WAIT_CC_EN"}, "RUNNING", "top")

(* The controller takes commands from valid queues only (external). *)
Fetchable(c) ==
  IF c.opc = "IO" THEN settings.sq[c.qid] # 0 /\ settings.cq[settings.sq[c.qid]] ELSE adminQueue

GetNvmeCmd ==
  /\ Branch("RUNNING", "command")
  /\ cmd # NoCmd /\ Fetchable(cmd)
  /\ nvmeCmd' = cmd /\ cmd' = NoCmd /\ rstCnt' = 0
  /\ UNCHANGED <<cstsRdy, cstsShst, adminQueue, settings, link, irq, driver, agreed, granted, lost>>

(* get_num_of_queue: the numbers of both kinds, counted from zero. *)

\* Mutant: the number from zero is one too large at the limit.
GetNumOfQueueNotZeroBased(requested) ==
  IF requested >= MaxNumOfIoQueues THEN MaxNumOfIoQueues ELSE requested

GetNumOfQueue(requested) ==
  (IF requested >= MaxNumOfIoQueues THEN MaxNumOfIoQueues ELSE requested + 1) - 1

(* The host uses the queues it has of both kinds. *)
Least(a, b) == IF a < b THEN a ELSE b

(* The settings after command c, of a controller or as its host sees them. *)
Apply(c, s) ==
  CASE c.opc = "VOLATILE_WRITE_CACHE" -> [s EXCEPT !.cacheEn = c.cacheEn]
    [] c.opc = "CREATE_IO_SQ" -> [s EXCEPT !.sq[c.qid] = c.cqid]
    [] c.opc = "DELETE_IO_SQ" -> [s EXCEPT !.sq[c.qid] = 0]
    [] c.opc = "CREATE_IO_CQ" -> [s EXCEPT !.cq[c.qid] = TRUE]
    [] c.opc = "DELETE_IO_CQ" -> [s EXCEPT !.cq[c.qid] = FALSE]
    [] OTHER -> s

(* The assertions of handle_create_io_sq and handle_create_io_cq. *)
AssertFails ==
  /\ nvmeCmd # NoCmd
  /\ \/ nvmeCmd.opc \in {"CREATE_IO_SQ", "CREATE_IO_CQ"} /\ (nvmeCmd.qid \notin Queue \/ ~nvmeCmd.fits)
     \/ nvmeCmd.opc = "CREATE_IO_SQ" /\ nvmeCmd.cqid \notin Queue

(* The branch of a fetched command, answered or not; the host takes note   *)
(* of the answer unless it has given up the controller.                    *)
HandleNvmeCmd ==
  /\ Step("command", "top") /\ ~AssertFails
  /\ nvmeCmd' = NoCmd
  /\ settings' = Apply(nvmeCmd, settings)
  /\ agreed' = IF driver = "up" THEN Apply(nvmeCmd, agreed) ELSE agreed
  /\ granted' = IF nvmeCmd.opc = "NUMBER_OF_QUEUES"
                THEN Least(GetNumOfQueue(nvmeCmd.nsqr), GetNumOfQueue(nvmeCmd.ncqr)) + 1
                ELSE granted
  /\ UNCHANGED <<status, rstCnt, cstsRdy, cstsShst, adminQueue, link, irq, driver, cmd, lost>>

(* The queues are cleared while the host waits for SHST; the grown bad     *)
(* blocks are saved (BadBlocks) after the last store.                      *)

\* Mutant: the shutdown leaves the queues to the reset that follows.
ShutdownKeepsQueues ==
  /\ Branch("SHUTDOWN", "setShst") /\ ccShn # 0
  /\ cstsShst' = 1
  /\ adminQueue' = FALSE
  /\ UNCHANGED <<settings, rstCnt, nvmeCmd, cstsRdy, link, irq, hostVars, lost>>

Shutdown ==
  /\ Branch("SHUTDOWN", "setShst") /\ ccShn # 0
  /\ cstsShst' = 1
  /\ settings' = NoSettings /\ adminQueue' = FALSE
  /\ UNCHANGED <<rstCnt, nvmeCmd, cstsRdy, link, irq, hostVars, lost>>
SetShst ==
  /\ Step("setShst", "setWaitReset") /\ cstsShst' = 2
  /\ UNCHANGED <<status, rstCnt, nvmeCmd, cstsRdy, adminQueue, settings, link, irq, hostVars, lost>>

\* Mutant: a shutdown ends in the idle state, where nobody looks at CC.EN.
SetWaitResetIdle == Store("setWaitReset", Status, "IDLE", "flush")

SetWaitReset == Store("setWaitReset", Status, "WAIT_RESET", "flush")
Flush ==
  /\ Step("flush", "top")
  /\ UNCHANGED <<status, rstCnt, nvmeCmd, cstsRdy, cstsShst, adminQueue, settings, link, irq, hostVars, lost>>

WaitReset ==
  /\ Branch("WAIT_RESET", "clearRdy") /\ ccEn = 0
  /\ settings' = [settings EXCEPT !.cacheEn = 0] /\ cstsShst' = 0
  /\ UNCHANGED <<rstCnt, nvmeCmd, cstsRdy, adminQueue, link, irq, hostVars, lost>>

(* RESET, and the link reset it makes when nobody sends commands: that     *)
(* writes the status register from a variable that has no value (any RDY;  *)
(* SHST is set again at once), and takes the link down.                    *)
Reset ==
  /\ Branch("RESET", "clearRdy")
  /\ settings' = NoSettings /\ adminQueue' = FALSE /\ cstsShst' = 0
  /\ IF rstCnt >= MaxIdleResets
     THEN /\ rstCnt' = 0
          /\ cstsRdy' \in {0, 1}
          /\ IF link THEN LinkLost ELSE UNCHANGED <<link, irq, driver, cmd>>
     ELSE rstCnt' = rstCnt + 1 /\ UNCHANGED <<cstsRdy, link, irq, driver, cmd>>
  /\ UNCHANGED <<nvmeCmd, agreed, granted, lost>>

ClearRdy == SetCstsRdy("clearRdy", 0, "setIdle")
SetIdle == Store("setIdle", {"RESET", "WAIT_RESET"}, "IDLE", "top")

NvmeMain ==
  \/ WaitCcEn \/ SetReady \/ SetRunning
  \/ GetNvmeCmd \/ HandleNvmeCmd
  \/ Shutdown \/ SetShst \/ SetWaitReset \/ Flush
  \/ WaitReset \/ Reset \/ ClearRdy \/ SetIdle

Init ==
  /\ status = "IDLE" /\ pc = "top" /\ rstCnt = 0 /\ nvmeCmd = NoCmd
  /\ irqPc = "off" /\ devReg = {} /\ irq = {}
  /\ ccEn = 0 /\ ccShn = 0 /\ cstsRdy = 0 /\ cstsShst = 0
  /\ adminQueue = FALSE /\ settings = NoSettings /\ link = TRUE
  /\ driver = "disabled" /\ cmd = NoCmd /\ agreed = NoSettings /\ granted = 0
  /\ losses = 0 /\ lost = FALSE

Next == Host \/ DevIrqHandler \/ NvmeMain
Spec == Init /\ [][Next]_vars

(* The loop runs on, a pending interrupt is taken and its handler returns, *)
(* and a host that waits looks.                                            *)
FairSpec == Spec /\ WF_vars(NvmeMain) /\ WF_vars(DevIrqHandler) /\ WF_vars(HostSees)

-----------------------------------------------------------------------------
(* The controller has the queues and the cache setting its host was        *)
(* answered since it enabled the controller, and none of a former session: *)
(* nothing survives a reset, a shutdown or a link loss, whatever the       *)
(* handler and the loop overwrite of each other.                           *)
SettingsOfSession ==
  driver = "up" => settings = agreed

(* No host that follows the rules makes an assertion of the queue commands *)
(* fail. What the firmware has to do for it is in get_num_of_queue, which  *)
(* grants no queue that does not exist; the size, vector and address of a  *)
(* queue are as the rules of the host have them (Legal).                   *)
NeverAborts == ~AssertFails

(* What a host waits for comes: RDY after it set or cleared EN, SHST after *)
(* it asked for a shutdown, the fetch of its command. The only exception   *)
(* is a request that came between a write of the loop to RDY (or its test  *)
(* of the status) and the store that ends the branch: that store           *)
(* overwrites the status of the handler, and the loop does not look again. *)
Waiting == {"enabling", "shutting", "disabling"}
HostWaitEnds ==
  /\ \A w \in Waiting : driver = w ~> (driver # w \/ lost)
  /\ cmd # NoCmd ~> (cmd = NoCmd \/ lost)
=============================================================================
