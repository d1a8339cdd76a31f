----------------------------- MODULE MCBookings -----------------------------
(* Bookings on a small instance.                                             *)
EXTENDS Bookings, TLC

HandlerSymmetry == Permutations(Handlers)

\* Sound where every family sits an assessment.
FamilySymmetry == Permutations(Handlers) \cup Permutations(Families)
=============================================================================
