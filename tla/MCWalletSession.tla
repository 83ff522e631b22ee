--------------------------- MODULE MCWalletSession ---------------------------
(***************************************************************************)
(* Two accounts to switch between in the wallet.                           *)
(***************************************************************************)
EXTENDS WalletSession, TLC
=============================================================================
