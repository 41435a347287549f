SPECIFICATION LiveSpec
CONSTANTS
  Req = {1, 2, 3, 4, 5, 6}
  NoReq = 0
  HostBuf = {b1, b2}
  TempBuf = {t1}
  NoBuf = NoBuf
  d1 = d1
  b1 = b1
  b2 = b2
  k1 = k1
  k2 = k2
  Die = {d1}
  Block = {k1, k2}
  NoBlock = NoBlock
  DieOf <- MCDieOf1
  PagesPerBlock = 1
  ReservedFreeBlocks = 1
  MaxGcCopies = 0
  HostCode = {"RxDMA", "TxDMA"}
  FastReuse = FALSE
INVARIANT
  BufferExclusive
PROPERTIES
  SyncReleaseEraseReqReturns
  SyncAllLowLevelReqDoneReturns
  OperationCompletes
  OnlyFinishedDmaCompletes
