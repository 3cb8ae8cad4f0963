------------------------- MODULE MCSendReservation -------------------------
(* Instances of SendReservation for TLC. *)
EXTENDS SendReservation

CONSTANTS s1, s2, k1, b1, b2, o1
=============================================================================
