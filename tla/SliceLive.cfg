SPECIFICATION FairSpec
CONSTANTS
    Slice = {"a"}
    Card = {"c1", "c2"}
    NoCard = "none"
    NoSlice = "none"
    Req <- TwoSizes
    Total <- UnitCards
    Bytes <- SumOfReq
    Faults = {"crash", "apiError", "diskError", "sickCard", "unreadable"}
    MaxFaults = 2
INVARIANT TypeOK
PROPERTIES
    Settled
    Cleared
CHECK_DEADLOCK FALSE
