------------------------ MODULE MCSubscriptionCycle ------------------------
(* Small instances of SubscriptionCycle for TLC.                           *)
EXTENDS SubscriptionCycle, TLC

Symmetry == Permutations(Workers)
=============================================================================
