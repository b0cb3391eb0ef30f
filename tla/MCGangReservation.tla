------------------------- MODULE MCGangReservation -------------------------
(* Instances of GangReservation for TLC: a gang of two.                    *)
EXTENDS GangReservation

=============================================================================
