------------------------------ MODULE MCPayouts -----------------------------
(* A small instance of Payouts for TLC.                                    *)
EXTENDS Payouts
=============================================================================
