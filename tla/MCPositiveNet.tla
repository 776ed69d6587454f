--------------------------- MODULE MCPositiveNet ---------------------------
(* Small instances of PositiveNet for TLC.                                 *)
EXTENDS PositiveNet, TLC
=============================================================================
