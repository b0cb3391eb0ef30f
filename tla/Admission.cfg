SPECIFICATION FairSpec
CONSTANTS
    Slice = {"h", "l", "m"}
    Priority <- HighLow
    Preemptible = {"l", "m"}
    Gap = 1
    Grace <- ShortLong
    Floor = 2
    Buffer = 1
    Settings <- ThreeSettings
    MaxFaults = 1
INVARIANTS
    TypeOK
    QuotaKept
PROPERTIES
    NoSecondWave
    Served
CHECK_DEADLOCK FALSE
