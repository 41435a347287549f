SPECIFICATION Spec
CONSTANTS
  Dies = 2
  BlocksPerDie = 3
  PagesPerBlock = 2
  Lsa = {l1, l2, l3, l4, l5, l6}
  NoLsa = NoLsa
  NoVsa = NoVsa
  ReservedFreeBlocks = 1
  Skewed = TRUE
  OpenVictim = FALSE
SYMMETRY LsaSymmetry
VIEW View
INVARIANT NeverAborts
\* OpenVictim = FALSE may leave the host no write.
CHECK_DEADLOCK FALSE
