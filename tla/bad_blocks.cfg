SPECIFICATION Spec
CONSTANTS
  UserDies = 2
  LunsPerDie = 1
  UserBlocks = 2
  TotalBlocks = 4
  PagesPerBlock = 2
  Lun1Base = 8
  FactoryBad <- MCFactoryBad
  Garbage <- MCGarbage
  MaxFailures = 1
INVARIANTS
  BlocksApart
  SavedOrBooked
  CapacityBacked
PROPERTY
  BootAvoidsBadBlocks
