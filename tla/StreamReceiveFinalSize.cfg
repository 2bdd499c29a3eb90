CONSTANTS
  Byte = {0, 1}
  MaxOffset = 3
  MaxLength = 3
  InitialMaxData = 3
  NoFinalSize = NoFinalSize
SPECIFICATION Spec
INVARIANT NothingBeyondFinalSize
