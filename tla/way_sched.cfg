SPECIFICATION FairSpec
CONSTANTS
  USER_WAYS = 3
  RETRY_LIMIT = 1
  Code = {"READ", "WRITE"}
  QueueDepth = 2
  MaxRequests = 2
INVARIANTS
  WaysListed
  CommandsFit
  AnsweredAsHappened
PROPERTY
  Answered
VIEW View
