SPECIFICATION FairSpec
CONSTANTS
    Faults = {"apiError", "delete", "preempt", "rollBack", "manual", "evict", "allocFail"}
    MaxFaults = 2
INVARIANTS
    TypeOK
    TerminalIdle
PROPERTIES
    NoResurrection
    OutcomeEarned
    Reclaimed
    SelfHeals
    PreemptionCompletes
CHECK_DEADLOCK FALSE
