--------------------------- MODULE MCStartCommand ---------------------------
(* Small instances of StartCommand for TLC.                                 *)
EXTENDS StartCommand
=============================================================================
