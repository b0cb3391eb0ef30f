SPECIFICATION FairSpec
CONSTANTS
    Slice = {"a"}
    Node = {"n1"}
    NoNode = "none"
    NoSlice = "none"
    Req <- TwoSizes
    Capacity <- UnitCapacity
    Bytes <- SumOfReq
    Name = {"a"}
    NameOf <- OwnName
    GangMember = {"a"}
    Faults = {"failover", "nodeLoss", "slowBind"}
INVARIANTS
    TypeOK
    ReservationsBacked
PROPERTY GoneForgotten
CHECK_DEADLOCK FALSE
