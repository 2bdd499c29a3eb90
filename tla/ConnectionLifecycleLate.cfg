CONSTANTS
  IdleTimeout = 3
  CloseTimeout = 2
  SendLag = 0
  MaxPackets = 2
  Quiet = 4
  MaxTime = 10
  None = None
SPECIFICATION Spec
PROPERTIES FullClosingPeriod
CHECK_DEADLOCK FALSE
