----------------------------- MODULE MCOveruse -----------------------------
(* Instances of Overuse for TLC: one slice.                                *)
EXTENDS Overuse

=============================================================================
