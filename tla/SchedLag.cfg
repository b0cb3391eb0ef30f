SPECIFICATION Spec
CONSTANTS
    Slice = {"a1", "a2"}
    Node = {"n1"}
    NoNode = "none"
    NoSlice = "none"
    Req <- FullNode
    Capacity <- UnitCapacity
    Bytes <- SumOfReq
    Name = {"a"}
    NameOf <- SameName
    GangMember = {"a1"}
    Faults = {"staleRead", "apiError"}
CONSTRAINT ChargeBound
INVARIANT ReservationsExact
CHECK_DEADLOCK FALSE
