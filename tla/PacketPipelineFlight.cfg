SPECIFICATION Spec
CONSTANTS
  MaxVarint = 1073741829
  Scenarios <- MCFlight
  MaxDatagramSize = 120
  NumberLimit = 16777216
  MinInitialSize = 120
  Version = 1
  LocalCid <- MCLocalCid
  RemoteCid <- MCRemoteCid
  EndOfFlight = 255
  ReceiveSizes = {90, 1000}
  TrailingZeros = {0, 3}
INVARIANTS
  SendableIsSent
CHECK_DEADLOCK FALSE
