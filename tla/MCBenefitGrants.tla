--------------------------- MODULE MCBenefitGrants --------------------------
(* A small instance of BenefitGrants for TLC.                              *)
EXTENDS BenefitGrants
=============================================================================
