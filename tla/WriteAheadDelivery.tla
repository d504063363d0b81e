------------------------ MODULE WriteAheadDelivery -------------------------
(***************************************************************************)
(* What every OCPP dispatcher of the HAL promises about one durable        *)
(* command: the attempt is recorded before the request may reach the wire, *)
(* is recorded once, and the request reaches the wire at most once, across *)
(* any number of callers, store errors, crashes and restarts.              *)
(***************************************************************************)
EXTENDS Naturals

VARIABLES
    attempted,  \* the durable row says that delivery was attempted
    sends       \* requests on the wire

Init == ~attempted /\ sends = 0

Attempt == /\ ~attempted
           /\ attempted' = TRUE
           /\ UNCHANGED sends

Send == /\ attempted
        /\ sends = 0
        /\ sends' = 1
        /\ UNCHANGED attempted

Next == Attempt \/ Send

Spec == Init /\ [][Next]_<<attempted, sends>>
=============================================================================
