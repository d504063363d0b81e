--------------------------- MODULE MCChargePoint ---------------------------
(* Small instances of ChargePoint for TLC.                                  *)
EXTENDS ChargePoint
============================================================================
