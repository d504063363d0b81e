-------------------------- MODULE MCOperationTrace --------------------------
(* Two StatusNotification triggers, one for any connector, one for 1, and   *)
(* messages of connector 2, which only the first of them waits for.         *)
EXTENDS OperationTrace

CONSTANTS o1, o2

MCExpected == [o \in Ops |-> "StatusNotification"]
MCConnector == [o \in Ops |-> IF o = o1 THEN 0 ELSE 1]
MCFrames == {[action |-> "StatusNotification", connector |-> 2]}
=============================================================================
