SPECIFICATION FairSpec
CONSTANTS
  W = 3
  AutoChan = {"rx", "tx"}
  DirectTx = "direct"
  MaxBlocks = 2
  MaxTransfers <- MCMaxTransfers
INVARIANT
  PartialDoneExact
PROPERTIES
  OnlyDoneReleased
  IdentifySent
  RequestsReleased
\* The run ends where every channel has used its transfers.
CHECK_DEADLOCK FALSE
