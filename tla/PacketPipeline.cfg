SPECIFICATION Spec
CONSTANTS
  MaxVarint = 1073741829
  Scenarios <- MCAll
  MaxDatagramSize = 124
  NumberLimit = 16777216
  MinInitialSize = 120
  Version = 1
  LocalCid <- MCLocalCid
  RemoteCid <- MCRemoteCid
  EndOfFlight = 255
  ReceiveSizes = {90, 1000}
  TrailingZeros = {0, 3}
INVARIANTS
  FaithfulDelivery
  NothingLostInPacking
  ClosedForCause
  DatagramSizes
  ZeroCopyAgrees
CHECK_DEADLOCK FALSE
