CONSTANTS
  IdleTimeout = 3
  CloseTimeout = 2
  SendLag = 1
  MaxPackets = 2
  Quiet = 4
  MaxTime = 10
  None = None
SPECIFICATION FairSpec
INVARIANTS OneCloseReported
PROPERTIES IdleTimedOut NotClosedEarly EventuallyClosed
CHECK_DEADLOCK FALSE
