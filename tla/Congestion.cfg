CONSTANTS
  Spaces = {"application"}
  Application = "application"
  MaxPackets = 4
  LossDelays = {1}
  PtoDelays = {1}
  MaxAge = 1
  None = None
  Algorithm = "new_reno"
  Sizes = {1}
  MaxDatagram = 2
  InitialWindow = 4
  MinWindow = 2
  MaxWindow = 12
  Width = 64
SPECIFICATION FairCongestionSpec
INVARIANTS RecordsAgree OneOutcome InFlightWasSent
PROPERTIES FateIsFinal Resolved ReducedOnlyByLoss
