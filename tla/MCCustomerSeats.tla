--------------------------- MODULE MCCustomerSeats --------------------------
(* A small instance of CustomerSeats for TLC.                              *)
EXTENDS CustomerSeats, TLC

Symmetry == Permutations(Members) \cup Permutations(Workers)
=============================================================================
