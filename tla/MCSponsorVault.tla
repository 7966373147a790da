--------------------------- MODULE MCSponsorVault ---------------------------
(* An instance of SponsorVault for TLC: the owner and one recipient have     *)
(* code, the operator has not until the owner appoints another.              *)
EXTENDS SponsorVault

CONSTANTS own, op, user
=============================================================================
