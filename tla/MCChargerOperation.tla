------------------------- MODULE MCChargerOperation -------------------------
(* Small instances of ChargerOperation for TLC.                             *)
EXTENDS ChargerOperation

\* Both operations are of the charger that sorts last.
BothLast == <<2, 2>>
=============================================================================
