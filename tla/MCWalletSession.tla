-------------------------- MODULE MCWalletSession --------------------------
(* A small instance of WalletSession. *)
EXTENDS WalletSession, TLC
=============================================================================
