SPECIFICATION FairSpec
CONSTANTS
    GangSize = 2
    Faults = {"apiError", "lag", "delete", "allocFail"}
    MaxFaults = 1
    MaxLags = 1
    LagPhases = {"Committed"}
INVARIANT TypeOK
PROPERTIES
    KeepsOutcome
    NoFalseTeardown
    Decides
    FailureCompletes
CHECK_DEADLOCK FALSE
