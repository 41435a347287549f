SPECIFICATION OrderSpec
CONSTANTS
  Req = {r1, r2, r3, r4, r5, r6}
  NoReq = NoReq
  HostBuf = {b1, b2}
  TempBuf = {t1}
  NoBuf = NoBuf
  d1 = d1
  d2 = d2
  k1 = k1
  k2 = k2
  k3 = k3
  k4 = k4
  Die = {d1}
  Block = {k1, k2}
  NoBlock = NoBlock
  DieOf <- MCDieOf1
  PagesPerBlock = 1
  ReservedFreeBlocks = 1
  MaxGcCopies = 0
  HostCode = {"RxDMA"}
  FastReuse = TRUE
SYMMETRY BufSymmetry
VIEW View
INVARIANT NoOvertaking
