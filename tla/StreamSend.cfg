CONSTANTS
  InitialMaxData = 1
  MaxSize = 3
  MaxCredit = 3
  MaxFrame = 2
  MaxLosses = 3
SPECIFICATION Spec
INVARIANTS
  NoByteForgotten
  NoFinForgotten
  OneCopyOutstanding
  WithinCredit
  OneFinalSize
  NoAckedRetransmission
PROPERTIES
  StopIsFinal
