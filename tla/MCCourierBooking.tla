------------------------- MODULE MCCourierBooking -------------------------
(* An instance of CourierBooking for TLC.                                  *)
EXTENDS CourierBooking, TLC
=============================================================================
