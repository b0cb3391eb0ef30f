---------------------------- MODULE MCAdmission ----------------------------
(* Instances of Admission for TLC: "h" has priority over "l" and "m", which *)
(* are preemptible.                                                        *)
EXTENDS Admission

HighLow == [s \in Slice |-> IF s = "h" THEN 1 ELSE 0]
ShortLong == [s \in Slice |-> IF s = "m" THEN 2 ELSE 1]
Needs(n) == [s \in Slice |-> IF s = "h" THEN n ELSE 1]

(* A full node; a request that takes two victims, on a node that is not full; *)
(* a quota that binds a gang and another slice.                              *)
ThreeSettings ==
    {[quota |-> 3, capacity |-> 2, req |-> Needs(1), gang |-> {},
      running |-> {"l", "m"}, faults |-> {}],
     [quota |-> 4, capacity |-> 3, req |-> Needs(2), gang |-> {},
      running |-> {"l", "m"}, faults |-> {"apiError"}],
     [quota |-> 2, capacity |-> 3, req |-> Needs(1), gang |-> {"l", "m"},
      running |-> {}, faults |-> {"apiError", "delete", "release", "reap"}]}

=============================================================================
