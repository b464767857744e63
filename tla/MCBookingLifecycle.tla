------------------------- MODULE MCBookingLifecycle -------------------------
(***************************************************************************)
(* BookingLifecycle for the runs without liveness: its bookings are        *)
(* interchangeable, so TLC looks at one of the states that differ only in  *)
(* their names.                                                            *)
(***************************************************************************)
EXTENDS BookingLifecycle, TLC

Symmetry == Permutations(Bookings)
=============================================================================
