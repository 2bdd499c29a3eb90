SPECIFICATION Spec
CONSTANTS
    MaxVarint = 1073741829
    Configs <- MCConfigs
    Cids <- MCCids
    Handles = {1, 2}
    ResetTokens <- MCResetTokens
    TriggerSizes = {21, 22, 42, 43}
    RandomFills = {0, 255}
    Remotes <- MCRemotes
    Clocks <- MCClocks
    Second = 4
    MaxCalls = 4
INVARIANTS RoutesToLatest ResetSpeaksForTheGone AcceptedWasIssued HonouredWhileFresh NegotiationUnderstood
CHECK_DEADLOCK FALSE
