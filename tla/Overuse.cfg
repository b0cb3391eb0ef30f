SPECIFICATION FairSpec
CONSTANTS
    Pods = {p1, p2}
    Modes = {"off", "softwarn", "evict"}
    StreakThreshold = 2
    SoftGrace = 1
    EvictGrace = 1
    MaxEvictions = 1
    Window = 2
    Faults = {"nvml", "miss", "write", "lookup", "pdb", "lostReply", "restart"}
    MaxFaults = 1
INVARIANTS
    TypeOK
PROPERTIES
    EvictionEarned
    Withdrawn
    ActedUpon
CHECK_DEADLOCK FALSE
