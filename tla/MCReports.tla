----------------------------- MODULE MCReports -----------------------------
(* A small instance of Reports for TLC.                                     *)
EXTENDS Reports

\* One value below the start, and enough above it for a rollback of two.
MCWh == -1..3
MCTimes == 0..2
=============================================================================
