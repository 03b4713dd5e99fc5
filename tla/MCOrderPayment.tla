--------------------------- MODULE MCOrderPayment ---------------------------
(* Small instances of OrderPayment for TLC.                                *)
EXTENDS OrderPayment, TLC

ShortIntervals == <<1, 2>>

Symmetry == Permutations(Workers) \cup Permutations(Charges)
=============================================================================
