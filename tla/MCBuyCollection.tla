-------------------------- MODULE MCBuyCollection --------------------------
(* Small instances of BuyCollection for TLC.                               *)
EXTENDS BuyCollection, TLC


CONSTANTS settler, continuer
=============================================================================
