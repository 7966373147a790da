-------------------------- MODULE MCWalletHistory --------------------------
(* An instance of WalletHistory for TLC.                                     *)
EXTENDS WalletHistory
=============================================================================
