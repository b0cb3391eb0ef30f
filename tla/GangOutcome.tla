---------------------------- MODULE GangOutcome ----------------------------
(***************************************************************************)
(* What a gang reservation promises: an all-or-nothing outcome. A gang     *)
(* assembles, may commit, may fail; a committed gang is never taken back to*)
(* assembling, and it is released only when none of its slots holds        *)
(* capacity, after which none ever does again.                             *)
(***************************************************************************)
CONSTANT Slot

VARIABLES
    outcome,   \* "assembling", "committed", "failed" or "released"
    held       \* the slots that hold capacity

Init == outcome = "assembling" /\ held = {}

Take(i) ==
    /\ outcome # "released"
    /\ i \notin held
    /\ held' = held \cup {i}
    /\ UNCHANGED outcome

GiveBack(i) ==
    /\ i \in held
    /\ held' = held \ {i}
    /\ UNCHANGED outcome

Commit == outcome = "assembling" /\ outcome' = "committed" /\ UNCHANGED held

Fail == outcome \in {"assembling", "committed"} /\ outcome' = "failed" /\ UNCHANGED held

Release == outcome = "failed" /\ held = {} /\ outcome' = "released" /\ UNCHANGED held

Next == \/ \E i \in Slot : Take(i) \/ GiveBack(i)
        \/ Commit \/ Fail \/ Release

Spec == Init /\ [][Next]_<<outcome, held>>

=============================================================================
