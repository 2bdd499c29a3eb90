CONSTANTS
  Spaces = {"application"}
  Application = "application"
  MaxPackets = 5
  LossDelays = {1}
  PtoDelays = {1}
  MaxAge = 1
  None = None
  Algorithm = "new_reno"
  Sizes = {2}
  MaxDatagram = 2
  InitialWindow = 10
  MinWindow = 4
  MaxWindow = 12
  Width = 64
SPECIFICATION CongestionSpec
INVARIANTS NoStall
