----------------------------- MODULE CardGrants -----------------------------
(***************************************************************************)
(* What a node promises the slices bound to it: each gets at most one GPU, *)
(* keeps that one until it is given up, and gets none again; and a GPU is   *)
(* never promised beyond what it has.                                      *)
(***************************************************************************)
EXTENDS Naturals

CONSTANTS Slice, Card, Total,
          Bytes   \* Bytes[S]: the VRAM the slices in S ask for

VARIABLE grant   \* grant[s]: "waiting", a card, or "ended"

Init == grant = [s \in Slice |-> "waiting"]

GrantedOn(c) == {s \in Slice : grant[s] = c}

Grant(s, c) ==
    /\ grant[s] = "waiting"
    /\ Bytes[GrantedOn(c) \cup {s}] <= Total[c]
    /\ grant' = [grant EXCEPT ![s] = c]

End(s) ==
    /\ grant[s] # "ended"
    /\ grant' = [grant EXCEPT ![s] = "ended"]

Next == \E s \in Slice : End(s) \/ \E c \in Card : Grant(s, c)

Spec == Init /\ [][Next]_grant

=============================================================================
