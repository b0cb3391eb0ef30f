SPECIFICATION Spec
CONSTANTS
    Slice = {"a", "b"}
    Node = {"n1"}
    NoNode = "none"
    NoSlice = "none"
    Req <- TwoSizes
    Capacity <- UnitCapacity
    Bytes <- SumOfReq
    Name = {"a", "b"}
    NameOf <- OwnName
    GangMember = {}
    Faults = {"failover"}
INVARIANT NoOverAdmission
CHECK_DEADLOCK FALSE
