CONSTANTS
  IdleTimeout = 3
  CloseTimeout = 2
  SendLag = 1
  MaxPackets = 2
  Quiet = 4
  MaxTime = 10
  None = None
SPECIFICATION Spec
PROPERTIES InboundRestartsIdle
CHECK_DEADLOCK FALSE
