CONSTANTS
  MaxSequence = 4
  Limit = 2
  MaxHeaders = 0
SPECIFICATION Spec
INVARIANTS RetiredBelowPriorTo
CHECK_DEADLOCK FALSE
