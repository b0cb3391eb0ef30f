----------------------------- MODULE MCScheduler -----------------------------
(* Instances of Scheduler for TLC: one or two slices, one or two nodes.    *)
EXTENDS Scheduler

LOCAL INSTANCE FiniteSetsExt

(* Two slices of different size that do not fit together on one node. *)
TwoSizes == [s \in Slice |-> IF s = "a" THEN 2 ELSE 1]
UnitCapacity == [n \in Node |-> 2]
SumOfReq == [S \in SUBSET Slice |-> MapThenSumSet(LAMBDA s : Req[s], S)]

(* Every slice has its own name. *)
OwnName == [s \in Slice |-> s]

(* UIDs "a1" and "a2" are two lives of the slice named "a". *)
SameName == [s \in Slice |-> IF s \in {"a1", "a2"} THEN "a" ELSE s]
FullNode == [s \in Slice |-> 2]

(* A lagging informer can have a forgotten slice promoted, and charged,     *)
(* again and again; two excess charges are enough to explore.               *)
ChargeBound == \A n \in Node : allocatedVRAM[n] <= 4

==============================================================================
