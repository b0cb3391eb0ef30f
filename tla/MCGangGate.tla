----------------------------- MODULE MCGangGate -----------------------------
(* Instances of GangGate for TLC: one or two gangs, most of two slices.     *)
EXTENDS GangGate

(* The first letter of a slice is its gang: "a1" and "a2" belong to "a". *)
ByLetter == [s \in Slice |-> CASE s \in {"a1", "a2", "a3"} -> "a"
                               [] s \in {"b1", "b2"} -> "b"
                               [] OTHER -> "c"]
Pairs == [g \in Gang |-> 2]
SamePriority == [g \in Gang |-> 1]
Alphabetical == [g \in Gang |-> CASE g = "a" -> 1 [] g = "b" -> 2 [] OTHER -> 3]

=============================================================================
