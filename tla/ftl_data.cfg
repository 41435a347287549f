SPECIFICATION DataSpec
CONSTANTS
  Dies = 2
  BlocksPerDie = 3
  PagesPerBlock = 2
  Lsa = {l1, l2, l3, l4}
  NoLsa = NoLsa
  Data = {x1, x2}
  NoData = NoData
  NoVsa = NoVsa
  ReservedFreeBlocks = 1
  Skewed = FALSE
  OpenVictim = FALSE
SYMMETRY DataSymmetry
VIEW View
INVARIANTS
  TypeOK
  VictimListsExact
  VictimIsFull
  MapsAgree
  FreeBlocksUnused
  NeverAborts
PROPERTY
  ImplementsSliceStore
  PageGivenOnce
\* OpenVictim = FALSE may leave the host no write.
CHECK_DEADLOCK FALSE
