SPECIFICATION FairSpec
CONSTANTS
    Gang = {"a", "b"}
    Slice = {"a1", "a2", "b1", "b2"}
    NoGang = "none"
    NoSlice = "none"
    GangOf <- ByLetter
    Size <- Pairs
    Priority <- SamePriority
    KeyRank <- Alphabetical
    Capacity = 3
    Timeout = 1
    Backoff = 1
    MaxHoldAge = 3
    SliceTTL = 2
    HoldTTL = 2
    SlowRetry = 2
    MaxUID = 1
    Faults = {"deadline"}
INVARIANT OneAssembly
PROPERTIES
    QuorumHeld
    Admitted
CHECK_DEADLOCK FALSE
