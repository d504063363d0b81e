-------------------------- MODULE ChargerOperation --------------------------
(***************************************************************************)
(* The ledger of charger operations (Reset, UnlockConnector, ...): who may *)
(* dispatch a persisted operation, what is durable around the OCPP call,   *)
(* and how operations of an offline charger wait for it to reconnect.      *)
(*                                                                         *)
(* Three kinds of goroutine dispatch: request handlers, the pass started   *)
(* by each new connection, and the worker that rotates over the connected  *)
(* chargers.  All go through dispatchClaimedV1ChargerOperation.            *)
(***************************************************************************)
EXTENDS Naturals, FiniteSets

CONSTANTS
    NumOps,        \* operations, numbered by (created_at, cms_operation_id)
    NumChargers,   \* charger identities, numbered in the order of sort.Strings
    chargerOf,     \* the charger of each operation
    Handlers,      \* goroutines serving POST /v1/charger-operations
    Worker,        \* the goroutine of RunV1ChargerOperationRecovery
    Batch,         \* v1ChargerOperationRecoveryBatch
    Cycle,         \* bound: the rotation counter is kept modulo Cycle
    MaxConnects,   \* bound: new connections; each one starts a pass
    MaxFaults,     \* bound: store errors
    MaxCrashes     \* bound: process crashes

Operations == 1..NumOps
Chargers == 1..NumChargers
Passes == 1..MaxConnects
Threads == Handlers \cup {Worker} \cup Passes

ASSUME OperationAssumption ==
    /\ NumOps \in Nat /\ MaxFaults \in Nat /\ MaxCrashes \in Nat /\ MaxConnects \in Nat
    /\ NumChargers \in Nat /\ chargerOf \in [Operations -> Chargers]
    /\ Batch \in Nat \ {0} /\ Cycle \in Nat \ {0}
    /\ \A n \in Chargers : Cycle % n = 0
    /\ Handlers \cap ({Worker} \cup Passes) = {} /\ Worker \notin Passes

VARIABLES
    state,      \* v1_charger_operations.state, "ABSENT" before the request
    attempts,   \* v1_charger_operations.delivery_attempts
    connected,  \* connectionTracker.active
    rotation,   \* operationRecoveryNext, modulo Cycle
    pc,         \* where each goroutine is with the first operation of its todo
    todo,       \* the operations it still has to dispatch
    up,         \* the process is running
    calls,      \* OCPP requests put on the wire, for each operation
    answered,   \* operations the charger has confirmed
    connects, faults, crashes

ledger == <<state, attempts>>
process == <<pc, todo, up>>
links == <<connected, rotation, connects>>
wire == <<calls, answered>>
bounds == <<faults, crashes>>
vars == <<ledger, process, links, wire, bounds>>

Settled == {"OCPP_CONFIRMED", "RECONCILIATION_REQUIRED"}
States == Settled \cup {"ABSENT", "PERSISTED", "DELIVERY_ATTEMPTED"}

Init ==
    /\ state = [o \in Operations |-> "ABSENT"]
    /\ attempts = [o \in Operations |-> 0]
    /\ connected = {}
    /\ rotation = 0
    /\ pc = [t \in Threads |-> "idle"]
    /\ todo = [t \in Threads |-> {}]
    /\ up = TRUE
    /\ calls = [o \in Operations |-> 0]
    /\ answered = {}
    /\ connects = 0
    /\ faults = 0
    /\ crashes = 0

\* Goroutine t is at the label l with operation o, the first of its todo.
At(t, l, o) == /\ up
               /\ pc[t] = l
               /\ o \in todo[t]
               /\ \A p \in todo[t] : o <= p

Goto(t, l) == pc' = [pc EXCEPT ![t] = l] /\ UNCHANGED <<todo, up>>

\* Goroutine t starts on the operations S.
Start(t, S) == /\ up
               /\ pc[t] = "idle"
               /\ todo' = [todo EXCEPT ![t] = S]
               /\ pc' = [pc EXCEPT ![t] = IF S = {} THEN "idle" ELSE "ready"]
               /\ UNCHANGED up

\* Goroutine t goes on to its next operation.
Advance(t, o) == /\ todo' = [todo EXCEPT ![t] = @ \ {o}]
                 /\ pc' = [pc EXCEPT ![t] = IF todo[t] = {o} THEN "idle" ELSE "ready"]
                 /\ UNCHANGED up

----------------------------------------------------------------------------
(* Who dispatches what.                                                     *)

\* INSERT ... ON CONFLICT (cms_operation_id) DO NOTHING.  Operations are
\* numbered in the order of created_at.
CreateV1ChargerOperation(o) ==
    /\ \A p \in Operations : p < o => state[p] # "ABSENT"
    /\ state' = [state EXCEPT ![o] = IF @ = "ABSENT" THEN "PERSISTED" ELSE @]
    /\ UNCHANGED attempts

\* A new or a still PERSISTED operation is dispatched; any other is only
\* reported.
v1ChargerOperations(h, o) ==
    /\ CreateV1ChargerOperation(o)
    /\ state'[o] = "PERSISTED"
    /\ Start(h, {o})
    /\ UNCHANGED <<links, wire, bounds>>

ListV1DispatchableChargerOperations(c) ==
    LET all == {o \in Operations : state[o] = "PERSISTED" /\ chargerOf[o] = c}
    IN {o \in all : Cardinality({p \in all : p < o}) < Batch}

\* A charger connects; its pass runs in a goroutine of its own.
Connect(c) ==
    /\ connects < MaxConnects
    /\ connects' = connects + 1
    /\ connected' = connected \cup {c}
    /\ Start(connects', ListV1DispatchableChargerOperations(c))
    /\ UNCHANGED <<ledger, rotation, wire, bounds>>

Disconnect(c) ==
    /\ up
    /\ c \in connected
    /\ connected' = connected \ {c}
    /\ UNCHANGED <<ledger, process, rotation, connects, wire, bounds>>

\* Mutant: the rotation never moves.
FirstIdentity(c) == c \in connected /\ \A d \in connected : c <= d

nextV1ChargerOperationRecoveryIdentity(c) ==
    /\ c \in connected
    /\ Cardinality({d \in connected : d < c}) = rotation % Cardinality(connected)

\* One pass of the worker over one connected charger.
DispatchPendingV1ChargerOperations(c) ==
    /\ nextV1ChargerOperationRecoveryIdentity(c)
    /\ rotation' = (rotation + 1) % Cycle
    /\ Start(Worker, ListV1DispatchableChargerOperations(c))
    /\ UNCHANGED <<ledger, connected, connects, wire, bounds>>

----------------------------------------------------------------------------
(* dispatchClaimedV1ChargerOperation.                                       *)

\* An operation of a charger that is not connected is left alone.
Preflight(t, o) ==
    /\ At(t, "ready", o)
    /\ IF chargerOf[o] \in connected THEN Goto(t, "claiming") ELSE Advance(t, o)
    /\ UNCHANGED <<ledger, links, wire, bounds>>

\* Mutant: an ambiguous delivery may be claimed again.
ClaimAmbiguous(t, o) ==
    /\ At(t, "claiming", o)
    /\ IF state[o] \in {"PERSISTED", "RECONCILIATION_REQUIRED"}
       THEN /\ state' = [state EXCEPT ![o] = "DELIVERY_ATTEMPTED"]
            /\ attempts' = [attempts EXCEPT ![o] = @ + 1]
            /\ Goto(t, "claimed")
       ELSE Advance(t, o) /\ UNCHANGED ledger
    /\ UNCHANGED <<links, wire, bounds>>

ClaimV1ChargerOperationDelivery(t, o) ==
    /\ At(t, "claiming", o)
    /\ IF state[o] = "PERSISTED"
       THEN /\ state' = [state EXCEPT ![o] = "DELIVERY_ATTEMPTED"]
            /\ attempts' = [attempts EXCEPT ![o] = @ + 1]
            /\ Goto(t, "claimed")
       ELSE Advance(t, o) /\ UNCHANGED ledger
    /\ UNCHANGED <<links, wire, bounds>>

DispatchChargerOperation(t, o) ==
    /\ At(t, "claimed", o)
    /\ chargerOf[o] \in connected
    /\ calls' = [calls EXCEPT ![o] = @ + 1]
    /\ Goto(t, "awaiting")
    /\ UNCHANGED <<ledger, links, answered, bounds>>

\* ocpp-go refuses the request.
DispatchRefused(t, o) ==
    /\ At(t, "claimed", o)
    /\ Goto(t, "ambiguous")
    /\ UNCHANGED <<ledger, links, wire, bounds>>

Confirmation(t, o) ==
    /\ At(t, "awaiting", o)
    /\ answered' = answered \cup {o}
    /\ Goto(t, "confirmed")
    /\ UNCHANGED <<ledger, links, calls, bounds>>

\* A CALLERROR, the 25 s timeout or a cancelled request comes first.
NoConfirmation(t, o) ==
    /\ At(t, "awaiting", o)
    /\ Goto(t, "ambiguous")
    /\ UNCHANGED <<ledger, links, wire, bounds>>

MarkedState(l) == IF l = "confirmed" THEN "OCPP_CONFIRMED" ELSE "RECONCILIATION_REQUIRED"

\* Finalization has a context of its own: a cancelled request does not stop it.
MarkV1ChargerOperationDelivery(t, o) ==
    /\ pc[t] \in {"confirmed", "ambiguous"}
    /\ At(t, pc[t], o)
    /\ state' = [state EXCEPT ![o] = IF @ = "DELIVERY_ATTEMPTED"
                                     THEN MarkedState(pc[t]) ELSE @]
    /\ Advance(t, o)
    /\ UNCHANGED <<attempts, links, wire, bounds>>

\* A store call fails, before or after the row is changed; what follows for
\* this operation is skipped.
StoreFails(t, o) ==
    /\ faults < MaxFaults
    /\ pc[t] \in {"ready", "claiming", "claimed", "confirmed", "ambiguous"}
    /\ At(t, pc[t], o)
    /\ faults' = faults + 1
    /\ Advance(t, o)
    /\ UNCHANGED <<ledger, links, wire, crashes>>

----------------------------------------------------------------------------
Crash ==
    /\ up
    /\ crashes < MaxCrashes
    /\ crashes' = crashes + 1
    /\ up' = FALSE
    /\ pc' = [t \in Threads |-> "idle"]
    /\ todo' = [t \in Threads |-> {}]
    /\ connected' = {}
    /\ rotation' = 0
    /\ UNCHANGED <<ledger, connects, wire, faults>>

\* Mutant: recovery makes an attempted operation dispatchable again.
RecoverResend ==
    /\ ~up
    /\ up' = TRUE
    /\ state' = [o \in Operations |-> IF state[o] = "DELIVERY_ATTEMPTED"
                                      THEN "PERSISTED" ELSE state[o]]
    /\ UNCHANGED <<attempts, pc, todo, links, wire, bounds>>

\* Mutant: nothing is done about interrupted deliveries.
RecoverNothing ==
    /\ ~up
    /\ up' = TRUE
    /\ UNCHANGED <<ledger, pc, todo, links, wire, bounds>>

RecoverV1ChargerOperationDelivery ==
    /\ ~up
    /\ up' = TRUE
    /\ state' = [o \in Operations |-> IF state[o] = "DELIVERY_ATTEMPTED"
                                      THEN "RECONCILIATION_REQUIRED" ELSE state[o]]
    /\ UNCHANGED <<attempts, pc, todo, links, wire, bounds>>

----------------------------------------------------------------------------
Dispatch(t, o) ==
    \/ Preflight(t, o)
    \/ ClaimV1ChargerOperationDelivery(t, o)
    \/ DispatchChargerOperation(t, o)
    \/ DispatchRefused(t, o)
    \/ Confirmation(t, o)
    \/ NoConfirmation(t, o)
    \/ MarkV1ChargerOperationDelivery(t, o)

Next ==
    \/ \E h \in Handlers, o \in Operations : v1ChargerOperations(h, o)
    \/ \E c \in Chargers : \/ Connect(c)
                           \/ Disconnect(c)
                           \/ DispatchPendingV1ChargerOperations(c)
    \/ \E t \in Threads, o \in Operations : Dispatch(t, o) \/ StoreFails(t, o)
    \/ Crash
    \/ RecoverV1ChargerOperationDelivery

Spec == Init /\ [][Next]_vars

\* The worker starts a pass every 2 s, a goroutine goes on (a call ends within
\* 25 s), and a crashed process is restarted.
FairSpec ==
    /\ Spec
    /\ WF_vars(\E c \in Chargers : DispatchPendingV1ChargerOperations(c))
    /\ \A t \in Threads : WF_vars(\E o \in Operations : Dispatch(t, o))
    /\ WF_vars(RecoverV1ChargerOperationDelivery)

----------------------------------------------------------------------------
(* Properties.                                                              *)

\* Rows and goroutines hold values of their types; no pass takes more than a
\* batch.
TypeOK ==
    /\ state \in [Operations -> States]
    /\ attempts \in [Operations -> Nat]
    /\ connected \subseteq Chargers
    /\ rotation \in 0..(Cycle - 1)
    /\ pc \in [Threads -> {"idle", "ready", "claiming", "claimed", "awaiting",
                           "confirmed", "ambiguous"}]
    /\ todo \in [Threads -> SUBSET Operations]
    /\ \A t \in Threads : Cardinality(todo[t]) <= Batch
    /\ up \in BOOLEAN
    /\ calls \in [Operations -> Nat]
    /\ answered \subseteq Operations
    /\ connects \in 0..MaxConnects
    /\ faults \in 0..MaxFaults
    /\ crashes \in 0..MaxCrashes

\* "Records DELIVERY_ATTEMPTED before OCPP dispatch ... never replayed": for
\* each operation the attempt is durable before the request is sent, and
\* neither happens twice, whichever goroutines compete and whatever crashes.
Delivery(o) == INSTANCE WriteAheadDelivery
                  WITH attempted <- attempts[o] > 0, sends <- calls[o]
WriteAhead ==
    /\ \A o \in Operations : Delivery(o)!Init
    /\ [][\A o \in Operations : [Delivery(o)!Next]_<<attempts[o] > 0, calls[o]>>]_vars

\* "Rows still PERSISTED are definitely unattempted": no request of such an
\* operation was ever sent, so a duplicate POST may dispatch it; and an
\* OCPP_CONFIRMED one was answered by the charger, however its context ended.
StateTellsDelivery ==
    \A o \in Operations :
        /\ state[o] \in {"ABSENT", "PERSISTED"} => calls[o] = 0
        /\ state[o] = "OCPP_CONFIRMED" => o \in answered

\* A settled operation never changes again: no recovery, duplicate request or
\* late result reopens it.
SettledIsFinal ==
    [][\A o \in Operations : state[o] \in Settled =>
          state'[o] = state[o] /\ attempts'[o] = attempts[o]]_vars

\* "Batches eventually drain": a persisted operation is dispatched while its
\* charger stays connected, although the worker serves one charger a pass.
OperationsDrain ==
    \A o \in Operations :
        []<>(state[o] # "PERSISTED" \/ chargerOf[o] \notin connected)

\* An attempted operation is settled, by its result or by recovery.  A store
\* error may leave it until the next restart.
AttemptsSettle ==
    \A o \in Operations : []<>(state[o] # "DELIVERY_ATTEMPTED" \/ faults > 0)
=============================================================================
