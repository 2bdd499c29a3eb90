SPECIFICATION Spec
CONSTANTS
    Configs <- MCConfigs
    HelloUnits = 2
    FlightUnits = 2
    FramesPerPacket = 1
    MaxFaults = 1
INVARIANTS SentAtItsLevel ClientCryptoKept FinishedBeforeData ClosesForCause
PROPERTIES ClientCompletes
CHECK_DEADLOCK FALSE
