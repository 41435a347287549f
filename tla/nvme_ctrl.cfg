SPECIFICATION FairSpec
CONSTANTS
  MaxNumOfIoQueues = 2
  MaxIdleResets = 1
  MaxLinkLosses = 1
  NoCmd = NoCmd
INVARIANTS
  NeverAborts
  SettingsOfSession
PROPERTY
  HostWaitEnds
CHECK_DEADLOCK FALSE
