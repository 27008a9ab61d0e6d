----------------------------- MODULE MCBooking -----------------------------
(***************************************************************************)
(* Small instances of Booking.  Calls, and customers, are interchangeable.  *)
(***************************************************************************)
EXTENDS Booking, TLC

Symmetry == Permutations(Call) \cup Permutations(Customer)
=============================================================================
