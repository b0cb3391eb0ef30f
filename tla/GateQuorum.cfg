SPECIFICATION Spec
CONSTANTS
    Gang = {"a"}
    Slice = {"a1", "a2", "a3"}
    NoGang = "none"
    NoSlice = "none"
    GangOf <- ByLetter
    Size <- Pairs
    Priority <- SamePriority
    KeyRank <- Alphabetical
    Capacity = 2
    Timeout = 1
    Backoff = 1
    MaxHoldAge = 3
    SliceTTL = 2
    HoldTTL = 3
    SlowRetry = 2
    MaxUID = 2
    Faults = {"reap", "apiError", "delete", "deadline", "recreate", "failover", "lateRetry"}
INVARIANTS
    TypeOK
    SlotOwned
PROPERTY NoSoloBind
CHECK_DEADLOCK FALSE
