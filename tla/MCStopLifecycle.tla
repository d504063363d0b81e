-------------------------- MODULE MCStopLifecycle --------------------------
(* Small instances of StopLifecycle for TLC.                                *)
EXTENDS StopLifecycle
=============================================================================
