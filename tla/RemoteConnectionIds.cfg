CONSTANTS
  MaxSequence = 4
  Limit = 2
  MaxHeaders = 2
SPECIFICATION Spec
INVARIANTS InUseIsUsable GivenBackUnused
PROPERTIES NeverReturns
CHECK_DEADLOCK FALSE
