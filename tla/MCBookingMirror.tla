-------------------------- MODULE MCBookingMirror --------------------------
(***************************************************************************)
(* BookingMirror with interchangeable webhooks, for its run.               *)
(***************************************************************************)
EXTENDS BookingMirror, TLC

Symmetry == Permutations(Hooks)
=============================================================================
