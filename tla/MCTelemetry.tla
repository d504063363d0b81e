---------------------------- MODULE MCTelemetry ----------------------------
(* Small instances of Telemetry for TLC.                                    *)
EXTENDS Telemetry

\* One value below the start, and enough above it for a rollback of two.
MCWh == -1..3
MCTimes == 0..2
=============================================================================
