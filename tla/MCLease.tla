------------------------------- MODULE MCLease -------------------------------
(***************************************************************************)
(* What lease_counter may hold, for TLC: a negative number of more than a  *)
(* second and one of less, and the largest rest.                           *)
(***************************************************************************)
EXTENDS Lease

Rests == {-17, -9, 9}
=============================================================================
