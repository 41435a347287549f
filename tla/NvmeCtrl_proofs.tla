---------------------------- MODULE NvmeCtrl_proofs ----------------------------
(***************************************************************************)
(* Theorems about the status machine of the controller, for any number of  *)
(* queues, resets and link losses.                                         *)
(***************************************************************************)
EXTENDS NvmeCtrl, TLAPS

(* A command the controller holds or is offered has the arguments the      *)
(* assertions of its handler ask for.                                      *)
WellFormed(c) ==
  /\ c.opc \in {"CREATE_IO_SQ", "CREATE_IO_CQ"} => c.qid \in Queue /\ c.fits
  /\ c.opc = "CREATE_IO_SQ" => c.cqid \in Queue

\* The conjuncts about commands.
CmdInv ==
  /\ TypeOK
  /\ cmd # NoCmd => WellFormed(cmd)
  /\ nvmeCmd # NoCmd => WellFormed(nvmeCmd)
  /\ pc = "command" => nvmeCmd # NoCmd

(* What the host believes of CC, and when it may send commands. *)
HostInv ==
  /\ driver \in {"disabled", "disabling"} => ccEn = 0
  /\ driver \in {"enabling", "up", "shutting", "halted"} => ccEn = 1
  /\ driver \in {"enabling", "up"} => ccShn = 0
  /\ driver # "lost" => link
  /\ cmd # NoCmd => driver = "up"

(* A controller without settings: not ready, or in the branches that have  *)
(* cleared them. Commands are executed while RDY is set only.              *)
ClearedInv ==
  /\ status = "RUNNING" => cstsRdy = 1 /\ pc \in {"top", "command"}
  /\ pc \in {"setRunning", "command"} => cstsRdy = 1
  /\ pc = "setIdle" => cstsRdy = 0
  /\ cstsRdy = 0 => settings = NoSettings
  /\ status = "WAIT_RESET" => settings = NoSettings /\ pc # "command"
  /\ pc \in {"setShst", "setWaitReset", "flush", "clearRdy", "setIdle"} => settings = NoSettings

(* Between the moment the host sees RDY cleared and the moment it sees it  *)
(* set, no branch is on that began before; while it uses the controller,   *)
(* no reset is pending.                                                    *)
SessionInv ==
  /\ driver \in {"disabled", "enabling"} => settings = NoSettings /\ pc # "command"
  /\ driver = "disabled" => cstsRdy = 0
  /\ driver \in {"disabling", "disabled"} /\ pc = "setRdy" => cstsRdy = 1
  /\ driver = "enabling" /\ (cstsRdy = 1 \/ pc \in {"setRdy", "setRunning"}) => status # "RESET" /\ pc # "clearRdy"
  /\ driver \in {"up", "shutting", "halted"} =>
       cstsRdy = 1 /\ status # "RESET" /\ pc \notin {"clearRdy", "setIdle"}
  /\ driver = "up" => settings = agreed

\* The inductive invariant.
IInv == CmdInv /\ HostInv /\ ClearedInv /\ SessionInv

\* No queue is set up before the host asks for one.
LEMMA EmptySettings == NoSettings \in Settings
  BY QueueAssumption DEF NoSettings, Settings

(* What get_num_of_queue grants exists. *)
LEMMA GrantExists ==
  ASSUME NEW a \in 0 .. MaxNumOfIoQueues, NEW b \in 0 .. MaxNumOfIoQueues
  PROVE  Least(GetNumOfQueue(a), GetNumOfQueue(b)) + 1 \in 0 .. MaxNumOfIoQueues
  BY QueueAssumption DEF Least, GetNumOfQueue

(* A command that passes the assertions leaves settings of the right type. *)
LEMMA ApplyType ==
  ASSUME NEW c \in Command, WellFormed(c), NEW s \in Settings
  PROVE  Apply(c, s) \in Settings
  <1>1. CASE c.opc = "VOLATILE_WRITE_CACHE"
    <2>1. c.cacheEn \in {0, 1}  BY <1>1 DEF Command
    <2>2. Apply(c, s) = [s EXCEPT !.cacheEn = c.cacheEn]  BY <1>1 DEF Apply
    <2> QED  BY <2>1, <2>2 DEF Settings
  <1>2. CASE c.opc = "CREATE_IO_SQ"
    <2>1. Apply(c, s) = [s EXCEPT !.sq[c.qid] = c.cqid]  BY <1>2 DEF Apply
    <2>2. c.qid \in Queue /\ c.cqid \in 0 .. MaxNumOfIoQueues  BY <1>2, QueueAssumption DEF WellFormed, Queue
    <2> QED  BY <2>1, <2>2 DEF Settings
  <1>3. CASE c.opc = "DELETE_IO_SQ"
    <2>1. Apply(c, s) = [s EXCEPT !.sq[c.qid] = 0]  BY <1>3 DEF Apply
    <2> QED  BY <2>1, QueueAssumption DEF Settings
  <1>4. CASE c.opc = "CREATE_IO_CQ"
    <2>1. Apply(c, s) = [s EXCEPT !.cq = [s.cq EXCEPT ![c.qid] = TRUE]]
      BY <1>4 DEF Apply
    <2>2. [s.cq EXCEPT ![c.qid] = TRUE] \in [Queue -> BOOLEAN]
      BY Zenon DEF Settings
    <2> QED  BY <2>1, <2>2 DEF Settings
  <1>5. CASE c.opc = "DELETE_IO_CQ"
    <2>1. Apply(c, s) = [s EXCEPT !.cq = [s.cq EXCEPT ![c.qid] = FALSE]]
      BY <1>5 DEF Apply
    <2>2. [s.cq EXCEPT ![c.qid] = FALSE] \in [Queue -> BOOLEAN]
      BY Zenon DEF Settings
    <2> QED  BY <2>1, <2>2 DEF Settings
  <1>6. CASE c.opc \notin {"VOLATILE_WRITE_CACHE", "CREATE_IO_SQ", "DELETE_IO_SQ", "CREATE_IO_CQ", "DELETE_IO_CQ"}
    BY <1>6 DEF Apply
  <1> QED  BY <1>1, <1>2, <1>3, <1>4, <1>5, <1>6

(* A write to CC raises interrupts the handler knows.                      *)
LEMMA WriteCcType ==
  ASSUME NEW en \in {0, 1}, NEW shn \in {0, 1}, WriteCc(en, shn), irq \subseteq Irq
  PROVE  irq' \subseteq Irq /\ ccEn' \in {0, 1} /\ ccShn' \in {0, 1}
  <1>1. {i \in {"nvmeCcEn"} : ccEn # en} \subseteq Irq /\ {i \in {"nvmeCcShn"} : ccShn # shn} \subseteq Irq
    BY DEF Irq
  <1>2. irq' \subseteq Irq
    BY <1>1 DEF WriteCc
  <1>3. ccEn' = en /\ ccShn' = shn
    BY DEF WriteCc
  <1> QED  BY <1>2, <1>3

(* The branch of WAIT_RESET finds nothing left to clear. *)
LEMMA StillEmpty == [NoSettings EXCEPT !.cacheEn = 0] = NoSettings
  <1>1. ASSUME NEW a, NEW b
        PROVE  [[sq |-> a, cq |-> b, cacheEn |-> 0] EXCEPT !.cacheEn = 0] = [sq |-> a, cq |-> b, cacheEn |-> 0]
    OBVIOUS
  <1> QED  BY <1>1 DEF NoSettings

(* No step breaks the types, or lets a malformed command through. *)
LEMMA CmdStep ==
  ASSUME CmdInv, [Next]_vars
  PROVE  CmdInv'
  <1> USE DEF mainVars, irqVars, regVars, hostVars
  <1>1. CASE HostEnables
    <2>1. irq' \subseteq Irq /\ ccEn' \in {0, 1} /\ ccShn' \in {0, 1}
      BY <1>1, WriteCcType DEF CmdInv, TypeOK, HostEnables
    <2>2. driver' \in Driver /\ cmd' = NoCmd
      BY <1>1 DEF HostEnables, HostGoes, Driver
    <2>3. UNCHANGED <<status, mainVars, irqVars, adminQueue, settings, link, granted, losses, lost,
                      agreed, cstsRdy, cstsShst>>
      BY <1>1 DEF HostEnables, HostGoes, WriteCc
    <2> QED  BY <2>1, <2>2, <2>3 DEF CmdInv, TypeOK
  <1>2. CASE HostShutsDown
    <2>1. irq' \subseteq Irq /\ ccEn' \in {0, 1} /\ ccShn' \in {0, 1}
      BY <1>2, WriteCcType DEF CmdInv, TypeOK, HostShutsDown
    <2>2. driver' \in Driver /\ cmd' = NoCmd
      BY <1>2 DEF HostShutsDown, HostGoes, Driver
    <2>3. UNCHANGED <<status, mainVars, irqVars, adminQueue, settings, link, granted, losses, lost,
                      agreed, cstsRdy, cstsShst>>
      BY <1>2 DEF HostShutsDown, HostGoes, WriteCc
    <2> QED  BY <2>1, <2>2, <2>3 DEF CmdInv, TypeOK
  <1>3. CASE HostDisables
    <2>1. irq' \subseteq Irq /\ ccEn' \in {0, 1} /\ ccShn' \in {0, 1}
      BY <1>3, WriteCcType DEF CmdInv, TypeOK, HostDisables
    <2>2. driver' \in Driver /\ cmd' = NoCmd
      BY <1>3 DEF HostDisables, HostGoes, Driver
    <2>3. UNCHANGED <<status, mainVars, irqVars, adminQueue, settings, link, granted, losses, lost,
                      agreed, cstsRdy, cstsShst>>
      BY <1>3 DEF HostDisables, HostGoes, WriteCc
    <2> QED  BY <2>1, <2>2, <2>3 DEF CmdInv, TypeOK
  <1>4. CASE HostRecovers
    <2>1. irq' \subseteq Irq /\ ccEn' \in {0, 1} /\ ccShn' \in {0, 1}
      BY <1>4, WriteCcType DEF CmdInv, TypeOK, HostRecovers
    <2>2. driver' \in Driver /\ cmd' = NoCmd
      BY <1>4 DEF HostRecovers, HostGoes, Driver
    <2>3. UNCHANGED <<status, mainVars, irqVars, adminQueue, settings, link, granted, losses, lost,
                      agreed, cstsRdy, cstsShst>>
      BY <1>4 DEF HostRecovers, HostGoes, WriteCc
    <2> QED  BY <2>1, <2>2, <2>3 DEF CmdInv, TypeOK
  <1>5. CASE HostSees
    BY <1>5, EmptySettings DEF CmdInv, HostSees, HostGoes, TypeOK, Driver
  <1>6. CASE HostSends
    <2>1. PICK c \in Command : Legal(c) /\ cmd' = c  BY <1>6 DEF HostSends
    <2>2. granted <= MaxNumOfIoQueues /\ granted \in Nat  BY QueueAssumption DEF CmdInv, TypeOK
    <2>3. 1 .. granted \subseteq Queue  BY <2>2, QueueAssumption DEF Queue
    <2>4. WellFormed(c)
      <3>1. CASE c.opc = "CREATE_IO_SQ"  BY <3>1, <2>1, <2>3 DEF Legal, WellFormed
      <3>2. CASE c.opc = "CREATE_IO_CQ"  BY <3>2, <2>1, <2>3 DEF Legal, WellFormed
      <3> QED  BY <3>1, <3>2 DEF WellFormed
    <2> QED  BY <1>6, <2>1, <2>4 DEF CmdInv, TypeOK, HostSends
  <1>7. CASE LinkGoesDown
    <2>1. losses' \in 0 .. MaxLinkLosses
      BY <1>7, ResetAssumption DEF CmdInv, TypeOK, LinkGoesDown
    <2>2. link' \in BOOLEAN /\ irq' \subseteq Irq /\ driver' \in Driver /\ cmd' = NoCmd
      BY <1>7 DEF CmdInv, TypeOK, LinkGoesDown, LinkLost, Irq, Driver
    <2>3. UNCHANGED <<status, mainVars, irqVars, regVars, adminQueue, settings, agreed, granted, lost>>
      BY <1>7 DEF LinkGoesDown
    <2> QED  BY <2>1, <2>2, <2>3 DEF CmdInv, TypeOK
  <1>8. CASE LinkComesUp
    BY <1>8 DEF CmdInv, LinkComesUp, TypeOK, Irq, Pc, Driver
  <1>9. CASE IrqEnter
    BY <1>9 DEF CmdInv, IrqEnter, TypeOK, Status, Pc, Driver
  <1>10. CASE IrqLink
    BY <1>10 DEF CmdInv, IrqLink, IrqStep, TypeOK, Status, Pc, Driver
  <1>11. CASE IrqCcEn
    <2>1. status' \in Status /\ lost' \in BOOLEAN
      BY <1>11 DEF CmdInv, TypeOK, IrqCcEn, Status
    <2>2. irqPc' = "ccShn" /\ UNCHANGED <<mainVars, devReg, regVars, adminQueue, settings, link, irq, hostVars, losses>>
      BY <1>11 DEF IrqCcEn, IrqStep
    <2> QED  BY <2>1, <2>2 DEF CmdInv, TypeOK
  <1>12. CASE IrqCcShn
    BY <1>12 DEF CmdInv, IrqCcShn, IrqStep, TypeOK, Status, Pc, Driver
  <1>13. CASE WaitCcEn
    BY <1>13 DEF CmdInv, WaitCcEn, Branch, Step, TypeOK, Pc, Driver
  <1>14. CASE SetReady
    BY <1>14 DEF CmdInv, SetReady, SetCstsRdy, Step, TypeOK, Status, Pc, Driver
  <1>15. CASE SetRunning
    BY <1>15 DEF CmdInv, SetRunning, Store, Step, TypeOK, Status, Pc, Driver
  <1>16. CASE GetNvmeCmd
    BY <1>16, ResetAssumption DEF CmdInv, GetNvmeCmd, Branch, Step, TypeOK, Pc
  <1>17. CASE HandleNvmeCmd
    <2>1. nvmeCmd \in Command /\ WellFormed(nvmeCmd)
      BY <1>17 DEF CmdInv, TypeOK, HandleNvmeCmd, Step
    <2>2. settings' \in Settings /\ agreed' \in Settings
      BY <1>17, <2>1, ApplyType DEF CmdInv, TypeOK, HandleNvmeCmd
    <2>3. granted' \in 0 .. MaxNumOfIoQueues
      <3>1. CASE nvmeCmd.opc = "NUMBER_OF_QUEUES"
        <4>1. nvmeCmd.nsqr \in 0 .. MaxNumOfIoQueues /\ nvmeCmd.ncqr \in 0 .. MaxNumOfIoQueues
          BY <3>1, <2>1 DEF Command
        <4> QED  BY <1>17, <3>1, <4>1, GrantExists DEF HandleNvmeCmd
      <3>2. CASE nvmeCmd.opc # "NUMBER_OF_QUEUES"
        BY <1>17, <3>2 DEF CmdInv, TypeOK, HandleNvmeCmd
      <3> QED  BY <3>1, <3>2
    <2> QED  BY <1>17, <2>2, <2>3 DEF CmdInv, TypeOK, HandleNvmeCmd, Step, Pc
  <1>18. CASE Shutdown
    <2>1. cstsShst' = 1 /\ settings' \in Settings /\ adminQueue' = FALSE
      BY <1>18, EmptySettings DEF Shutdown
    <2>2. pc' = "setShst" /\ UNCHANGED <<status, irqVars, ccEn, ccShn, losses, rstCnt, nvmeCmd, cstsRdy, link, irq,
                                         hostVars, lost>>
      BY <1>18 DEF Shutdown, Branch, Step
    <2> QED  BY <2>1, <2>2 DEF CmdInv, TypeOK, Pc
  <1>19. CASE SetShst
    BY <1>19 DEF CmdInv, SetShst, Step, TypeOK, Status, Pc, Driver
  <1>20. CASE SetWaitReset
    BY <1>20 DEF CmdInv, SetWaitReset, Store, Step, TypeOK, Status, Pc, Driver
  <1>21. CASE Flush
    BY <1>21 DEF CmdInv, Flush, Step, TypeOK, Pc, Driver
  <1>22. CASE WaitReset
    <2>1. settings' \in Settings
      BY <1>22 DEF CmdInv, TypeOK, WaitReset, Settings
    <2> QED  BY <1>22, <2>1 DEF CmdInv, WaitReset, Branch, Step, TypeOK, Pc
  <1>23. CASE Reset
    <2>1. rstCnt' \in 0 .. MaxIdleResets /\ cstsRdy' \in {0, 1}
      BY <1>23, ResetAssumption DEF CmdInv, TypeOK, Reset
    <2>2. cstsShst' = 0 /\ settings' \in Settings /\ adminQueue' = FALSE
      BY <1>23, EmptySettings DEF Reset
    <2>3. link' \in BOOLEAN /\ irq' \subseteq Irq /\ driver' \in Driver /\ cmd' \in {cmd, NoCmd}
      BY <1>23 DEF CmdInv, TypeOK, Reset, LinkLost, Irq, Driver
    <2>4. pc' = "clearRdy" /\ UNCHANGED <<status, irqVars, ccEn, ccShn, losses, nvmeCmd, agreed, granted, lost>>
      BY <1>23 DEF Reset, Branch, Step
    <2> QED  BY <2>1, <2>2, <2>3, <2>4 DEF CmdInv, TypeOK, Pc
  <1>24. CASE ClearRdy
    BY <1>24 DEF CmdInv, ClearRdy, SetCstsRdy, Step, TypeOK, Pc, Driver
  <1>25. CASE SetIdle
    BY <1>25 DEF CmdInv, SetIdle, Store, Step, TypeOK, Status, Pc, Driver
  <1>26. CASE UNCHANGED vars
    BY <1>26 DEF CmdInv, vars, TypeOK
  <1> QED
    BY <1>1, <1>2, <1>3, <1>4, <1>5, <1>6, <1>7, <1>8, <1>9, <1>10, <1>11, <1>12, <1>13,
       <1>14, <1>15, <1>16, <1>17, <1>18, <1>19, <1>20, <1>21, <1>22, <1>23, <1>24, <1>25, <1>26
    DEF Next, Host, DevIrqHandler, NvmeMain

(* The host only changes CC and its state together. *)
LEMMA HostStep ==
  ASSUME HostInv, [Next]_vars
  PROVE  HostInv'
  <1> USE DEF mainVars, irqVars, regVars, hostVars
  <1>1. CASE HostEnables
    BY <1>1 DEF HostInv, HostEnables, HostGoes, WriteCc
  <1>2. CASE HostShutsDown
    BY <1>2 DEF HostInv, HostShutsDown, HostGoes, WriteCc
  <1>3. CASE HostDisables
    BY <1>3 DEF HostInv, HostDisables, HostGoes, WriteCc
  <1>4. CASE HostRecovers
    BY <1>4 DEF HostInv, HostRecovers, HostGoes, WriteCc
  <1>5. CASE HostSees
    BY <1>5 DEF HostInv, HostSees, HostGoes
  <1>6. CASE HostSends
    BY <1>6 DEF HostInv, HostSends
  <1>7. CASE LinkGoesDown
    BY <1>7 DEF HostInv, LinkGoesDown, LinkLost
  <1>8. CASE LinkComesUp
    BY <1>8 DEF HostInv, LinkComesUp
  <1>9. CASE IrqEnter
    BY <1>9 DEF HostInv, IrqEnter
  <1>10. CASE IrqLink
    BY <1>10 DEF HostInv, IrqLink, IrqStep
  <1>11. CASE IrqCcEn
    BY <1>11 DEF HostInv, IrqCcEn, IrqStep
  <1>12. CASE IrqCcShn
    BY <1>12 DEF HostInv, IrqCcShn, IrqStep
  <1>13. CASE WaitCcEn
    BY <1>13 DEF HostInv, WaitCcEn, Branch, Step
  <1>14. CASE SetReady
    BY <1>14 DEF HostInv, SetReady, SetCstsRdy, Step
  <1>15. CASE SetRunning
    BY <1>15 DEF HostInv, SetRunning, Store, Step
  <1>16. CASE GetNvmeCmd
    BY <1>16 DEF HostInv, GetNvmeCmd, Branch, Step
  <1>17. CASE HandleNvmeCmd
    BY <1>17 DEF HostInv, HandleNvmeCmd, Step
  <1>18. CASE Shutdown
    BY <1>18 DEF HostInv, Shutdown, Branch, Step
  <1>19. CASE SetShst
    BY <1>19 DEF HostInv, SetShst, Step
  <1>20. CASE SetWaitReset
    BY <1>20 DEF HostInv, SetWaitReset, Store, Step
  <1>21. CASE Flush
    BY <1>21 DEF HostInv, Flush, Step
  <1>22. CASE WaitReset
    BY <1>22 DEF HostInv, WaitReset, Branch, Step
  <1>23. CASE Reset
    BY <1>23 DEF HostInv, Reset, Branch, Step, LinkLost
  <1>24. CASE ClearRdy
    BY <1>24 DEF HostInv, ClearRdy, SetCstsRdy, Step
  <1>25. CASE SetIdle
    BY <1>25 DEF HostInv, SetIdle, Store, Step
  <1>26. CASE UNCHANGED vars
    BY <1>26 DEF HostInv, vars
  <1> QED
    BY <1>1, <1>2, <1>3, <1>4, <1>5, <1>6, <1>7, <1>8, <1>9, <1>10, <1>11, <1>12, <1>13,
       <1>14, <1>15, <1>16, <1>17, <1>18, <1>19, <1>20, <1>21, <1>22, <1>23, <1>24, <1>25, <1>26
    DEF Next, Host, DevIrqHandler, NvmeMain

(* RDY is cleared after the settings, and set before the first command.   *)
LEMMA ClearedStep ==
  ASSUME CmdInv, HostInv, ClearedInv, [Next]_vars
  PROVE  ClearedInv'
  <1> USE DEF mainVars, irqVars, regVars, hostVars
  <1>1. CASE HostEnables
    BY <1>1 DEF ClearedInv, HostEnables, HostGoes, WriteCc
  <1>2. CASE HostShutsDown
    BY <1>2 DEF ClearedInv, HostShutsDown, HostGoes, WriteCc
  <1>3. CASE HostDisables
    BY <1>3 DEF ClearedInv, HostDisables, HostGoes, WriteCc
  <1>4. CASE HostRecovers
    BY <1>4 DEF ClearedInv, HostRecovers, HostGoes, WriteCc
  <1>5. CASE HostSees
    BY <1>5 DEF ClearedInv, HostSees, HostGoes
  <1>6. CASE HostSends
    BY <1>6 DEF ClearedInv, HostSends
  <1>7. CASE LinkGoesDown
    BY <1>7 DEF ClearedInv, LinkGoesDown, LinkLost
  <1>8. CASE LinkComesUp
    BY <1>8 DEF ClearedInv, LinkComesUp
  <1>9. CASE IrqEnter
    BY <1>9 DEF ClearedInv, IrqEnter
  <1>10. CASE IrqLink
    BY <1>10 DEF ClearedInv, IrqLink, IrqStep
  <1>11. CASE IrqCcEn
    BY <1>11 DEF ClearedInv, IrqCcEn, IrqStep
  <1>12. CASE IrqCcShn
    BY <1>12 DEF ClearedInv, IrqCcShn, IrqStep
  <1>13. CASE WaitCcEn
    BY <1>13 DEF ClearedInv, WaitCcEn, Branch, Step
  <1>14. CASE SetReady
    BY <1>14 DEF ClearedInv, SetReady, SetCstsRdy, Step
  <1>15. CASE SetRunning
    BY <1>15 DEF ClearedInv, SetRunning, Store, Step
  <1>16. CASE GetNvmeCmd
    BY <1>16 DEF ClearedInv, GetNvmeCmd, Branch, Step
  <1>17. CASE HandleNvmeCmd
    BY <1>17 DEF ClearedInv, HandleNvmeCmd, Step
  <1>18. CASE Shutdown
    BY <1>18 DEF ClearedInv, Shutdown, Branch, Step
  <1>19. CASE SetShst
    BY <1>19 DEF ClearedInv, SetShst, Step
  <1>20. CASE SetWaitReset
    BY <1>20 DEF ClearedInv, SetWaitReset, Store, Step
  <1>21. CASE Flush
    BY <1>21 DEF ClearedInv, Flush, Step
  <1>22. CASE WaitReset
    <2>1. settings' = NoSettings
      BY <1>22, StillEmpty DEF ClearedInv, WaitReset, Branch
    <2> QED  BY <1>22, <2>1 DEF ClearedInv, WaitReset, Branch, Step
  <1>23. CASE Reset
    BY <1>23 DEF ClearedInv, Reset, Branch, Step, LinkLost
  <1>24. CASE ClearRdy
    BY <1>24 DEF ClearedInv, ClearRdy, SetCstsRdy, Step
  <1>25. CASE SetIdle
    BY <1>25 DEF ClearedInv, SetIdle, Store, Step
  <1>26. CASE UNCHANGED vars
    BY <1>26 DEF ClearedInv, vars
  <1> QED
    BY <1>1, <1>2, <1>3, <1>4, <1>5, <1>6, <1>7, <1>8, <1>9, <1>10, <1>11, <1>12, <1>13,
       <1>14, <1>15, <1>16, <1>17, <1>18, <1>19, <1>20, <1>21, <1>22, <1>23, <1>24, <1>25, <1>26
    DEF Next, Host, DevIrqHandler, NvmeMain

(* No reset and no branch of a former session reaches into a session.      *)
LEMMA SessionStep ==
  ASSUME IInv, [Next]_vars
  PROVE  SessionInv'
  <1> USE DEF mainVars, irqVars, regVars, hostVars
  <1>1. CASE HostEnables
    BY <1>1 DEF IInv, CmdInv, TypeOK, HostInv, ClearedInv, SessionInv, HostEnables, HostGoes, WriteCc
  <1>2. CASE HostShutsDown
    BY <1>2 DEF IInv, CmdInv, TypeOK, HostInv, ClearedInv, SessionInv, HostShutsDown, HostGoes, WriteCc
  <1>3. CASE HostDisables
    BY <1>3 DEF IInv, CmdInv, TypeOK, HostInv, ClearedInv, SessionInv, HostDisables, HostGoes, WriteCc
  <1>4. CASE HostRecovers
    BY <1>4 DEF IInv, CmdInv, TypeOK, HostInv, ClearedInv, SessionInv, HostRecovers, HostGoes, WriteCc
  <1>5. CASE HostSees
    BY <1>5 DEF IInv, CmdInv, TypeOK, HostInv, ClearedInv, SessionInv, HostSees, HostGoes
  <1>6. CASE HostSends
    BY <1>6 DEF IInv, CmdInv, TypeOK, HostInv, ClearedInv, SessionInv, HostSends
  <1>7. CASE LinkGoesDown
    BY <1>7 DEF IInv, CmdInv, TypeOK, HostInv, ClearedInv, SessionInv, LinkGoesDown, LinkLost
  <1>8. CASE LinkComesUp
    BY <1>8 DEF IInv, CmdInv, TypeOK, HostInv, ClearedInv, SessionInv, LinkComesUp
  <1>9. CASE IrqEnter
    BY <1>9 DEF IInv, CmdInv, TypeOK, HostInv, ClearedInv, SessionInv, IrqEnter
  <1>10. CASE IrqLink
    BY <1>10 DEF IInv, CmdInv, TypeOK, HostInv, ClearedInv, SessionInv, IrqLink, IrqStep
  <1>11. CASE IrqCcEn
    BY <1>11 DEF IInv, CmdInv, TypeOK, HostInv, ClearedInv, SessionInv, IrqCcEn, IrqStep
  <1>12. CASE IrqCcShn
    BY <1>12 DEF IInv, CmdInv, TypeOK, HostInv, ClearedInv, SessionInv, IrqCcShn, IrqStep
  <1>13. CASE WaitCcEn
    BY <1>13 DEF IInv, CmdInv, TypeOK, HostInv, ClearedInv, SessionInv, WaitCcEn, Branch, Step
  <1>14. CASE SetReady
    BY <1>14 DEF IInv, CmdInv, TypeOK, HostInv, ClearedInv, SessionInv, SetReady, SetCstsRdy, Step
  <1>15. CASE SetRunning
    BY <1>15 DEF IInv, CmdInv, TypeOK, HostInv, ClearedInv, SessionInv, SetRunning, Store, Step
  <1>16. CASE GetNvmeCmd
    BY <1>16 DEF IInv, CmdInv, TypeOK, HostInv, ClearedInv, SessionInv, GetNvmeCmd, Branch, Step
  <1>17. CASE HandleNvmeCmd
    BY <1>17 DEF IInv, CmdInv, TypeOK, HostInv, ClearedInv, SessionInv, HandleNvmeCmd, Step
  <1>18. CASE Shutdown
    BY <1>18 DEF IInv, CmdInv, TypeOK, HostInv, ClearedInv, SessionInv, Shutdown, Branch, Step
  <1>19. CASE SetShst
    BY <1>19 DEF IInv, CmdInv, TypeOK, HostInv, ClearedInv, SessionInv, SetShst, Step
  <1>20. CASE SetWaitReset
    BY <1>20 DEF IInv, CmdInv, TypeOK, HostInv, ClearedInv, SessionInv, SetWaitReset, Store, Step
  <1>21. CASE Flush
    BY <1>21 DEF IInv, CmdInv, TypeOK, HostInv, ClearedInv, SessionInv, Flush, Step
  <1>22. CASE WaitReset
    <2>1. ccEn = 0 /\ settings = NoSettings /\ settings' = NoSettings
      BY <1>22, StillEmpty DEF IInv, ClearedInv, WaitReset, Branch
    <2>2. driver \notin {"enabling", "up", "shutting", "halted"}
      BY <2>1 DEF IInv, HostInv
    <2>3. pc = "top" /\ pc' = "clearRdy" /\ UNCHANGED <<status, cstsRdy, driver>>
      BY <1>22 DEF WaitReset, Branch, Step, hostVars
    <2> QED  BY <2>1, <2>2, <2>3 DEF IInv, SessionInv
  <1>23. CASE Reset
    BY <1>23 DEF IInv, CmdInv, TypeOK, HostInv, ClearedInv, SessionInv, Reset, Branch, Step, LinkLost
  <1>24. CASE ClearRdy
    BY <1>24 DEF IInv, CmdInv, TypeOK, HostInv, ClearedInv, SessionInv, ClearRdy, SetCstsRdy, Step
  <1>25. CASE SetIdle
    BY <1>25 DEF IInv, CmdInv, TypeOK, HostInv, ClearedInv, SessionInv, SetIdle, Store, Step
  <1>26. CASE UNCHANGED vars
    BY <1>26 DEF IInv, SessionInv, vars
  <1> QED
    BY <1>1, <1>2, <1>3, <1>4, <1>5, <1>6, <1>7, <1>8, <1>9, <1>10, <1>11, <1>12, <1>13,
       <1>14, <1>15, <1>16, <1>17, <1>18, <1>19, <1>20, <1>21, <1>22, <1>23, <1>24, <1>25, <1>26
    DEF Next, Host, DevIrqHandler, NvmeMain

\* A controller after power on.
LEMMA InitInv == Init => IInv
  <1> SUFFICES ASSUME Init PROVE IInv
    OBVIOUS
  <1>1. /\ 0 \in 0 .. MaxIdleResets /\ 0 \in 0 .. MaxLinkLosses
        /\ 0 \in 0 .. MaxNumOfIoQueues
    BY QueueAssumption, ResetAssumption
  <1>2. TypeOK
    <2>1. rstCnt \in 0 .. MaxIdleResets /\ losses \in 0 .. MaxLinkLosses /\ granted \in 0 .. MaxNumOfIoQueues
      BY <1>1 DEF Init
    <2>2. settings \in Settings /\ agreed \in Settings
      BY EmptySettings DEF Init
    <2>3. status \in Status /\ pc \in Pc /\ driver \in Driver
      BY DEF Init, Status, Pc, Driver
    <2> QED  BY <2>1, <2>2, <2>3 DEF Init, TypeOK
  <1>3. CmdInv
    BY <1>2 DEF Init, CmdInv
  <1>4. HostInv /\ ClearedInv /\ SessionInv
    BY DEF Init, HostInv, ClearedInv, SessionInv
  <1> QED  BY <1>3, <1>4 DEF IInv

\* Every step keeps the invariant.
LEMMA Invariance == Spec => []IInv
  <1>1. IInv /\ [Next]_vars => IInv'
    BY CmdStep, HostStep, ClearedStep, SessionStep DEF IInv
  <1> QED  BY InitInv, <1>1, PTL DEF Spec

(* The types of the status machine. *)
THEOREM TypeCorrect == Spec => []TypeOK
  BY Invariance, PTL DEF IInv, CmdInv

(* No host that keeps to the queues it was granted, and to the sizes,      *)
(* vectors and addresses the controller has, makes an assertion of the     *)
(* queue commands fail, for any number of queues.                          *)
THEOREM NeverAbortsHolds == Spec => []NeverAborts
  <1>1. IInv => NeverAborts
    BY DEF IInv, CmdInv, NeverAborts, AssertFails, WellFormed
  <1> QED  BY Invariance, <1>1, PTL

(* The controller has the settings its host was answered since it enabled  *)
(* the controller, however resets, shutdowns, link losses and interrupts   *)
(* fall between the steps of the main loop.                                *)
THEOREM SettingsOfSessionHolds == Spec => []SettingsOfSession
  <1>1. IInv => SettingsOfSession
    BY DEF IInv, SessionInv, SettingsOfSession
  <1> QED  BY Invariance, <1>1, PTL
=============================================================================
