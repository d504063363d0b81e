--------------------------- MODULE ChargingTrace ---------------------------
(***************************************************************************)
(* The diagnostic trace of the charging sessions of one connector: a root  *)
(* per session, the events that the handlers append to it, the worker that *)
(* delivers the events to CMS, and the retention that deletes old roots    *)
(* with everything below them.                                             *)
(*                                                                         *)
(* A session is a start intent and, once the charger has started, its      *)
(* transaction; the unique indexes on both allow it one root.  The root's  *)
(* trace_id comes from CMS or, if a StartTransaction found no root, from   *)
(* HAL.  What an event says is left out.  So is the clock: a root becomes  *)
(* old, and a lease or a retry delay runs out, at any time.                *)
(***************************************************************************)
EXTENDS Naturals

CONSTANTS
    Sessions,    \* start intents
    Handlers,    \* HTTP and OCPP handlers that append events
    Workers,     \* delivery workers, those of an outgoing process included
    NumEvents    \* bound: events

Events == 1..NumEvents

VARIABLES
    transaction, \* "none", "active" or "completed"
    root,        \* v1_charging_traces: trace_id and whether it is bound
    old,         \* the roots that are older than the retention
    event,       \* v1_charging_trace_events with v1_trace_delivery_outbox
    appender,    \* what a handler has still to do, and on which root
    worker,      \* the event that a delivery worker has claimed
    retention    \* a running DELETE: the roots it selected, the events it saw

vars == <<transaction, root, old, event, appender, worker, retention>>

NoRoot == [id |-> "none", bound |-> FALSE]
NoEvent == [session |-> "none", status |-> "none", token |-> "none"]
Deleted == [NoEvent EXCEPT !.status = "gone"]
Idle == [pc |-> "idle", session |-> "none", id |-> "none", left |-> 0]
Waiting == [running |-> FALSE, roots |-> {}, seen |-> {}]

Init ==
    /\ transaction = [s \in Sessions |-> "none"]
    /\ root = [s \in Sessions |-> NoRoot]
    /\ old = {}
    /\ event = [e \in Events |-> NoEvent]
    /\ appender = [h \in Handlers |-> Idle]
    /\ worker = [w \in Workers |-> 0]
    /\ retention = Waiting

Free(h) == appender[h] = Idle
\* The handler goes on to append n events to the root that it knows as id.
Append(h, s, id, n) ==
    appender' = [appender EXCEPT ![h] = [pc |-> "append", session |-> s, id |-> id, left |-> n]]

----------------------------------------------------------------------------
(* Roots.                                                                   *)

\* INSERT ... ON CONFLICT (trace_id) DO NOTHING: a root of the session with
\* another trace_id is an error.
Present(s, id) == root[s].id \in {"none", id}
EnsureV1Trace(s, id, bound) ==
    root' = [root EXCEPT ![s] = IF @ = NoRoot THEN [id |-> id, bound |-> bound] ELSE @]

BindV1TraceTransaction(s, id) ==
    root' = [root EXCEPT ![s].bound = @ \/ root[s].id = id]

\* A start command of CMS, or its repetition: one event when it is accepted,
\* another when it is sent, a third when it is answered.
v1Start(h, s) ==
    /\ Free(h)
    /\ IF Present(s, "cms")
       THEN EnsureV1Trace(s, "cms", FALSE) /\ \E n \in 1..3 : Append(h, s, "cms", n)
       ELSE UNCHANGED root /\ \E n \in 1..2 : Append(h, s, "cms", n)
    /\ UNCHANGED <<transaction, old, event, worker, retention>>

\* A stop command that carries the trace_id of the start.
v1Stop(h, s) ==
    /\ Free(h)
    /\ transaction[s] # "none"
    /\ BindV1TraceTransaction(s, "cms")
    /\ Append(h, s, "cms", 1)
    /\ UNCHANGED <<transaction, old, event, worker, retention>>

\* The transaction is there, or already was; the handler looks for its root.
OnStartTransaction(h, s) ==
    /\ Free(h)
    /\ transaction' = [transaction EXCEPT ![s] = IF @ = "none" THEN "active" ELSE @]
    /\ appender' = [appender EXCEPT ![h] = [pc |-> "root", session |-> s, id |-> root[s].id, left |-> 2]]
    /\ UNCHANGED <<root, old, event, worker, retention>>

\* It binds the root it found, or makes one; when it no longer finds the root,
\* or another handler's has come between, there are no events.
EnsureV1TraceForTransaction(h) ==
    LET s == appender[h].session
        id == appender[h].id
    IN
    /\ appender[h].pc = "root"
    /\ IF id = "none" /\ root[s] = NoRoot
       THEN EnsureV1Trace(s, "hal", TRUE) /\ Append(h, s, "hal", 2)
       ELSE IF id # "none" /\ root[s].id = id
       THEN BindV1TraceTransaction(s, id) /\ Append(h, s, id, 2)
       ELSE UNCHANGED root /\ appender' = [appender EXCEPT ![h] = Idle]
    /\ UNCHANGED <<transaction, old, event, worker, retention>>

\* The charger's StopTransaction, once more if it is repeated: it completes the
\* transaction or fails to, with an event before and one after.
V1StopTransaction(h, s) ==
    /\ Free(h)
    /\ transaction[s] # "none"
    /\ \E state \in {"completed", transaction[s]} :
          transaction' = [transaction EXCEPT ![s] = state]
    /\ IF root[s].bound THEN Append(h, s, root[s].id, 2) ELSE UNCHANGED appender
    /\ UNCHANGED <<root, old, event, worker, retention>>

\* An event of a transaction, when it can be found by it.
recordV1Trace(h, s) ==
    /\ Free(h)
    /\ root[s].bound
    /\ Append(h, s, root[s].id, 1)
    /\ UNCHANGED <<transaction, root, old, event, worker, retention>>

\* A fact worker's, once CMS has acknowledged that the transaction has started or
\* completed.
recordDeliveredLifecycleFact(h, s) ==
    /\ transaction[s] # "none"
    /\ recordV1Trace(h, s)

\* The root of the active transaction, else one that is not bound, else that of a
\* transaction that has completed lately.  Of several, the code takes the latest.
FindV1TraceForConnector ==
    LET Bound(state) == {s \in Sessions : root[s].bound /\ transaction[s] = state}
        Unbound == {s \in Sessions : root[s] # NoRoot /\ ~root[s].bound}
    IN
    IF Bound("active") # {} THEN Bound("active")
    ELSE IF Unbound # {} THEN Unbound
    ELSE Bound("completed")

\* Authorize and StatusNotification.
recordV1ConnectorTrace(h) ==
    /\ Free(h)
    /\ \E s \in FindV1TraceForConnector : Append(h, s, root[s].id, 1)
    /\ UNCHANGED <<transaction, root, old, event, worker, retention>>

----------------------------------------------------------------------------
(* Events and their delivery.                                               *)

\* The event and its delivery row, unless the root is gone or the transaction
\* fails.
AppendV1TraceEvent(h) ==
    LET s == appender[h].session IN
    /\ appender[h].pc = "append"
    /\ appender' = [appender EXCEPT ![h] =
          IF appender[h].left = 1 THEN Idle ELSE [appender[h] EXCEPT !.left = @ - 1]]
    /\ \/ /\ root[s].id = appender[h].id
          /\ \E e \in Events :
                /\ event[e] = NoEvent
                /\ \A d \in Events : d < e => event[d] # NoEvent
                /\ event' = [event EXCEPT ![e] = [session |-> s, status |-> "PENDING", token |-> "none"]]
       \/ UNCHANGED event
    /\ UNCHANGED <<transaction, root, old, worker, retention>>

Unsettled == {"PENDING", "RETRY", "DELIVERING"}

\* One event at a time; one whose lease has run out is taken over.  A worker
\* has one claim, so that its name can stand for the claim's token.
ClaimV1TraceDeliveries(w) ==
    /\ worker[w] = 0
    /\ \E e \in Events :
          /\ event[e].status \in Unsettled
          /\ event' = [event EXCEPT ![e].status = "DELIVERING", ![e].token = w]
          /\ worker' = [worker EXCEPT ![w] = e]
    /\ UNCHANGED <<transaction, root, old, appender, retention>>

\* Mutant: a worker that has lost its claim records its result all the same.
MarkAnyway(w, status) ==
    IF event[worker[w]] # Deleted
    THEN event' = [event EXCEPT ![worker[w]].status = status, ![worker[w]].token = "none"]
    ELSE UNCHANGED event

MarkV1TraceDelivery(w, status) ==
    LET e == worker[w] IN
    IF event[e].status = "DELIVERING" /\ event[e].token = w
    THEN event' = [event EXCEPT ![e].status = status, ![e].token = "none"]
    ELSE UNCHANGED event

\* CMS takes the event, is unavailable, or refuses it.  Or the mark fails, or the
\* worker dies: then the lease is left to run out.
deliver(w) ==
    /\ worker[w] # 0
    /\ worker' = [worker EXCEPT ![w] = 0]
    /\ \/ \E status \in {"DELIVERED", "RETRY", "RECONCILIATION_REQUIRED"} :
             MarkV1TraceDelivery(w, status)
       \/ UNCHANGED event
    /\ UNCHANGED <<transaction, root, old, appender, retention>>

----------------------------------------------------------------------------
(* Retention.                                                               *)

Age(s) ==
    /\ root[s] # NoRoot /\ s \notin old
    /\ old' = old \cup {s}
    /\ UNCHANGED <<transaction, root, event, appender, worker, retention>>

Deletable(s) == \A e \in Events : event[e].session = s => event[e].status \notin Unsettled

\* The statement selects on its snapshot ...
DeleteV1TracesBefore ==
    /\ ~retention.running
    /\ \E s \in old : Deletable(s)
    /\ retention' = [running |-> TRUE,
                     roots |-> {s \in old : Deletable(s)},
                     seen |-> {e \in Events : event[e] # NoEvent}]
    /\ UNCHANGED <<transaction, root, old, event, appender, worker>>

\* ... and deletes with the cascade, once those who append have let the root go.
Cascade ==
    LET gone == {e \in Events : event[e].session \in retention.roots} IN
    /\ retention.running
    /\ root' = [s \in Sessions |-> IF s \in retention.roots THEN NoRoot ELSE root[s]]
    /\ old' = old \ retention.roots
    /\ event' = [e \in Events |-> IF e \in gone THEN Deleted ELSE event[e]]
    /\ retention' = Waiting
    /\ UNCHANGED <<transaction, appender, worker>>

----------------------------------------------------------------------------
Next ==
    \/ \E h \in Handlers :
          \/ \E s \in Sessions :
                \/ v1Start(h, s) \/ v1Stop(h, s)
                \/ OnStartTransaction(h, s) \/ V1StopTransaction(h, s)
                \/ recordV1Trace(h, s) \/ recordDeliveredLifecycleFact(h, s)
          \/ EnsureV1TraceForTransaction(h)
          \/ recordV1ConnectorTrace(h)
          \/ AppendV1TraceEvent(h)
    \/ \E w \in Workers : ClaimV1TraceDeliveries(w) \/ deliver(w)
    \/ \E s \in Sessions : Age(s)
    \/ DeleteV1TracesBefore
    \/ Cascade

Spec == Init /\ [][Next]_vars

----------------------------------------------------------------------------
(* Properties.                                                              *)

\* Retention never takes an event that CMS has yet to get: of the events that
\* were there when it selected the roots, it deletes none that is unsettled,
\* whatever the delivery workers have recorded in between.  An event that was
\* appended during the statement may go.
RetentionSparesUndelivered ==
    [][\A e \in retention.seen :
          event'[e].status = "gone" => event[e].status \notin Unsettled]_vars
=============================================================================
