CONSTANTS
  Spaces = {"application"}
  Application = "application"
  MaxPackets = 4
  LossDelays = {1}
  PtoDelays = {1}
  MaxAge = 1
  None = None
  Algorithm = "cubic"
  Sizes = {2}
  MaxDatagram = 2
  InitialWindow = 6
  MinWindow = 4
  MaxWindow = 12
  Width = 64
SPECIFICATION CongestionSpec
INVARIANTS InFlightWasSent
