SPECIFICATION Spec
CONSTANTS
    Slice = {"a", "b"}
    Card = {c1, c2}
    NoCard = NoCard
    NoSlice = "none"
    Req <- TwoSizes
    Total <- UnitCards
    Bytes <- SumOfReq
    Faults = {"crash", "sickCard"}
    MaxFaults = 1
INVARIANTS
    GrantBacked
    LedgerExact
    ReleasedClean
PROPERTY KeepsPromise
SYMMETRY CardSymmetry
CHECK_DEADLOCK FALSE
