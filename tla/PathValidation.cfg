CONSTANTS
  Peers = {a, b}
  FirstPeer = a
  MaxWord = 8
  ReceiveSizes = {1}
  SendSizes = {1, 3}
  MaxBytes = 3
  MaxSent = 9
  MaxTokens = 3
  None = None
SPECIFICATION Spec
INVARIANTS AmplificationLimit
PROPERTIES ValidatedByItsOwnChallenge ChallengeIsCurrent
CHECK_DEADLOCK FALSE
