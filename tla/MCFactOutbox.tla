---------------------------- MODULE MCFactOutbox ----------------------------
(* A small instance of FactOutbox for TLC.                                  *)
EXTENDS FactOutbox

MCTokens == 1..4
=============================================================================
