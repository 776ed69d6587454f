---------------------------- MODULE MCWalletLedger ----------------------------
(* The ledger of one wallet for TLC. *)
EXTENDS WalletLedger

CONSTANTS w1, w2, d1
=============================================================================
