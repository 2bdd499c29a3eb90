SPECIFICATION Spec
CONSTANTS
    Configs <- MCServer
    HelloUnits = 2
    FlightUnits = 2
    FramesPerPacket = 1
    MaxFaults = 0
INVARIANT ServerCryptoKept
CHECK_DEADLOCK FALSE
