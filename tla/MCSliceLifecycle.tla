-------------------------- MODULE MCSliceLifecycle --------------------------
(* Instances of SliceLifecycle for TLC: two slices, two cards.             *)
EXTENDS SliceLifecycle

LOCAL INSTANCE FiniteSetsExt
LOCAL INSTANCE TLC

(* The first slice fills a card, the second fits beside nothing but itself. *)
TwoSizes == [s \in Slice |-> IF s = "a" THEN 2 ELSE 1]
UnitCards == [c \in Card |-> 2]
SumOfReq == [S \in SUBSET Slice |-> MapThenSumSet(LAMBDA s : Req[s], S)]

(* The cards are alike. *)
CardSymmetry == Permutations(Card)

=============================================================================
