----------------------------- MODULE MCBooking -----------------------------
(* Model values and symmetry for the instances of Booking.                 *)
EXTENDS Booking, TLC

CONSTANTS c1, c2, cron

RequestSymmetry == Permutations(Requests)

=============================================================================
