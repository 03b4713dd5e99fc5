------------------------- MODULE MCPaystackCheckout -------------------------
(* Small instances of PaystackCheckout for TLC.                            *)
EXTENDS PaystackCheckout, TLC

Symmetry == Permutations(Workers) \cup Permutations(Checkouts)
=============================================================================
