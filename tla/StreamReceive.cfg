CONSTANTS
  Byte = {0, 1}
  MaxOffset = 4
  MaxLength = 4
  InitialMaxData = 3
  NoFinalSize = NoFinalSize
SPECIFICATION Spec
PROPERTIES ClosedForGood Reassembles
