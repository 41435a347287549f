SPECIFICATION FairSpec
CONSTANTS
  Dies = 1
  BlocksPerDie = 3
  PagesPerBlock = 2
  Lsa = {l1, l2, l3}
  NoLsa = NoLsa
  NoVsa = NoVsa
  ReservedFreeBlocks = 1
  Skewed = TRUE
  OpenVictim = FALSE
PROPERTY
  WriteCompletes
