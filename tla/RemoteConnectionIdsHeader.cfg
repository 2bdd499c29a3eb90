CONSTANTS
  MaxSequence = 4
  Limit = 2
  MaxHeaders = 1
SPECIFICATION Spec
INVARIANTS NotSentToAnnounced
CHECK_DEADLOCK FALSE
