---------------------------- MODULE StartCommand ----------------------------
(***************************************************************************)
(* One START command of CMS, from POST /v1/remote-commands/start to the    *)
(* transaction that the charger's StartTransaction materializes: duplicate *)
(* requests racing to dispatch it, RemoteStartTransaction, its outcome,    *)
(* repeated StartTransactions, expiry, crashes and recovery.               *)
(*                                                                         *)
(* Nothing dispatches a START command but a request handler: a command     *)
(* that recovery returns to PERSISTED waits for CMS to repeat the request. *)
(***************************************************************************)
EXTENDS Naturals

CONSTANTS
    Handlers,    \* goroutines serving POST /v1/remote-commands/start
    Meters,      \* meterStart values of StartTransaction
    TxIds,       \* OCPP transaction ids drawn by RandomTransactionID
    Null,        \* SQL NULL
    MaxFaults,   \* bound: store errors and cancelled requests
    MaxCrashes   \* bound: process crashes

ASSUME StartAssumption ==
    /\ Null \notin [id : TxIds, meter : Meters]
    /\ MaxFaults \in Nat
    /\ MaxCrashes \in Nat

VARIABLES
    command,    \* v1_remote_commands.state, "ABSENT" before the first request
    attempts,   \* v1_remote_commands.delivery_attempts
    tx,         \* the credential's transaction, Null until materialized
    facts,      \* v1_fact_outbox: command.updated, transaction.started
    pc,         \* where each handler is inside v1Start
    up,         \* the process is running
    expired,    \* credential_expires_at has passed
    confirmed,  \* transaction ids the charger was given with Accepted
    calls,      \* RemoteStartTransaction requests put on the wire
    faults, crashes

rows == <<command, attempts, tx, facts>>
bounds == <<faults, crashes>>
vars == <<rows, pc, up, expired, confirmed, calls, bounds>>

Outcomes == {"OCPP_ACCEPTED", "OCPP_REJECTED", "AMBIGUOUS"}
States == Outcomes \cup {"ABSENT", "PERSISTED", "PENDING_DELIVERY",
                         "DELIVERY_ATTEMPTED", "MATERIALIZED"}
CommandFact(s) == [type |-> "command.updated", state |-> s]
StartedFact(t) == [type |-> "transaction.started", tx |-> t]

Goto(h, from, to) == /\ up
                     /\ pc[h] = from
                     /\ pc' = [pc EXCEPT ![h] = to]

Init ==
    /\ command = "ABSENT"
    /\ attempts = 0
    /\ tx = Null
    /\ facts = {}
    /\ pc = [h \in Handlers |-> "idle"]
    /\ up = TRUE
    /\ expired = FALSE
    /\ confirmed = {}
    /\ calls = 0
    /\ faults = 0
    /\ crashes = 0

----------------------------------------------------------------------------
(* v1Start: create, claim, begin, call, mark.                               *)

\* CreateV1StartCommand finds or creates the command; a request with an
\* expired credential is refused.
V1Start(h) ==
    /\ Goto(h, "idle", "ready")
    /\ ~expired
    /\ command' = IF command = "ABSENT" THEN "PERSISTED" ELSE command
    /\ UNCHANGED <<attempts, tx, facts, up, expired, confirmed, calls, bounds>>

ClaimV1StartDelivery(h) ==
    /\ Goto(h, "ready", "claimed")
    /\ command = "PERSISTED"
    /\ command' = "PENDING_DELIVERY"
    /\ UNCHANGED <<attempts, tx, facts, up, expired, confirmed, calls, bounds>>

ClaimRefused(h) ==
    /\ Goto(h, "ready", "idle")
    /\ command # "PERSISTED"
    /\ UNCHANGED <<rows, up, expired, confirmed, calls, bounds>>

BeginV1CommandDelivery(h) ==
    /\ Goto(h, "claimed", "calling")
    /\ IF command = "PENDING_DELIVERY"
       THEN command' = "DELIVERY_ATTEMPTED" /\ attempts' = attempts + 1
       ELSE UNCHANGED <<command, attempts>>
    /\ UNCHANGED <<tx, facts, up, expired, confirmed, calls, bounds>>

RemoteStartTransaction(h) ==
    /\ Goto(h, "calling", "awaiting")
    /\ calls' = calls + 1
    /\ UNCHANGED <<rows, up, expired, confirmed, bounds>>

\* The request is not sent: no connection, or the context is cancelled.
RemoteStartUnsent(h) ==
    /\ Goto(h, "calling", "failed")
    /\ UNCHANGED <<rows, up, expired, confirmed, calls, bounds>>

\* The switch on the OCPP status; only the first three reach this code.
MarkedState(status) ==
    CASE status = "Accepted"  -> "OCPP_ACCEPTED"
      [] status = "Rejected"  -> "OCPP_REJECTED"
      [] status = "AMBIGUOUS" -> "AMBIGUOUS"
      [] OTHER                -> "DELIVERY_ATTEMPTED"

\* Mutant: the outcome overwrites a materialized command.
MarkRowsLate(s) == command' = s /\ facts' = facts \cup {CommandFact(s)}

\* Mutant: the outcome is stored but not published.
MarkRowsSilent(s) ==
    /\ command' = IF command # "MATERIALIZED" THEN s ELSE command
    /\ UNCHANGED facts

\* The outcome and its fact, unless StartTransaction came first.
MarkRows(s) ==
    IF command # "MATERIALIZED"
    THEN command' = s /\ facts' = facts \cup {CommandFact(s)}
    ELSE UNCHANGED <<command, facts>>

MarkV1CommandDelivery(h) ==
    /\ \/ /\ Goto(h, "awaiting", "idle")
          /\ \E status \in {"Accepted", "Rejected", "AMBIGUOUS"} :
                MarkRows(MarkedState(status))
       \/ /\ Goto(h, "failed", "idle")
          /\ MarkRows("AMBIGUOUS")
    /\ UNCHANGED <<attempts, tx, up, expired, confirmed, calls, bounds>>

\* A store call fails or the request is cancelled: the handler returns.
HandlerFails(h) ==
    /\ faults < MaxFaults
    /\ pc[h] # "idle"
    /\ Goto(h, pc[h], "idle")
    /\ faults' = faults + 1
    /\ UNCHANGED <<rows, up, expired, confirmed, calls, crashes>>

----------------------------------------------------------------------------
(* The charger.                                                             *)

MaterializeRows(t) ==
    /\ tx' = t
    /\ command' = "MATERIALIZED"
    /\ facts' = facts \cup {StartedFact(t), CommandFact("MATERIALIZED")}

\* Mutant: a repeated StartTransaction is answered with a new id.
MaterializeFreshId(m, id) ==
    /\ up
    /\ calls > 0
    /\ \/ /\ tx = Null /\ ~expired
          /\ MaterializeRows([id |-> id, meter |-> m])
       \/ /\ tx # Null /\ tx.meter = m
          /\ UNCHANGED <<tx, command, facts>>
    /\ confirmed' \in {confirmed, confirmed \cup {id}}
    /\ UNCHANGED <<attempts, pc, up, expired, calls, bounds>>

\* StartTransaction with the command's id tag, which the charger knows from
\* RemoteStartTransaction.  The first one before the expiry makes the
\* transaction; one that repeats it gets the same transaction, whenever it
\* comes; any other is rejected.  The confirmation may be lost.
MaterializeV1Start(m, id) ==
    /\ up
    /\ calls > 0
    /\ \/ /\ tx = Null /\ ~expired
          /\ MaterializeRows([id |-> id, meter |-> m])
       \/ /\ tx # Null /\ tx.meter = m
          /\ UNCHANGED <<tx, command, facts>>
    /\ confirmed' \in {confirmed, confirmed \cup {tx'.id}}
    /\ UNCHANGED <<attempts, pc, up, expired, calls, bounds>>

----------------------------------------------------------------------------
Expire ==
    /\ ~expired
    /\ expired' = TRUE
    /\ UNCHANGED <<rows, pc, up, confirmed, calls, bounds>>

Crash ==
    /\ up
    /\ crashes < MaxCrashes
    /\ up' = FALSE
    /\ pc' = [h \in Handlers |-> "idle"]
    /\ crashes' = crashes + 1
    /\ UNCHANGED <<rows, expired, confirmed, calls, faults>>

\* Mutant: recovery takes an attempted delivery for a claimed one.
RecoverResend ==
    /\ ~up
    /\ up' = TRUE
    /\ command' = IF command \in {"PENDING_DELIVERY", "DELIVERY_ATTEMPTED"}
                  THEN "PERSISTED" ELSE command
    /\ UNCHANGED <<attempts, tx, facts, pc, expired, confirmed, calls, bounds>>

\* Mutant: recovery leaves a claim alone.
RecoverKeepsClaim ==
    /\ ~up
    /\ up' = TRUE
    /\ command' = IF command = "DELIVERY_ATTEMPTED" THEN "AMBIGUOUS" ELSE command
    /\ UNCHANGED <<attempts, tx, facts, pc, expired, confirmed, calls, bounds>>

RecoverV1CommandDelivery ==
    /\ ~up
    /\ up' = TRUE
    /\ command' = CASE command = "PENDING_DELIVERY"   -> "PERSISTED"
                    [] command = "DELIVERY_ATTEMPTED" -> "AMBIGUOUS"
                    [] OTHER                          -> command
    /\ UNCHANGED <<attempts, tx, facts, pc, expired, confirmed, calls, bounds>>

----------------------------------------------------------------------------
Dispatch(h) ==
    \/ ClaimV1StartDelivery(h)
    \/ ClaimRefused(h)
    \/ BeginV1CommandDelivery(h)
    \/ RemoteStartTransaction(h)
    \/ RemoteStartUnsent(h)
    \/ MarkV1CommandDelivery(h)

Next ==
    \/ \E h \in Handlers : V1Start(h) \/ Dispatch(h) \/ HandlerFails(h)
    \/ \E m \in Meters, id \in TxIds : MaterializeV1Start(m, id)
    \/ Expire
    \/ Crash
    \/ RecoverV1CommandDelivery

Spec == Init /\ [][Next]_vars

\* A handler runs to its end and a crashed process is restarted.
FairSpec ==
    /\ Spec
    /\ \A h \in Handlers : WF_vars(Dispatch(h))
    /\ WF_vars(RecoverV1CommandDelivery)

----------------------------------------------------------------------------
(* Properties.                                                              *)

\* Rows, facts and goroutines hold values of their types.
TypeOK ==
    /\ command \in States
    /\ attempts \in Nat
    /\ tx \in [id : TxIds, meter : Meters] \cup {Null}
    /\ facts \subseteq [type : {"command.updated"}, state : States]
                 \cup [type : {"transaction.started"}, tx : [id : TxIds, meter : Meters]]
    /\ pc \in [Handlers -> {"idle", "ready", "claimed", "calling", "awaiting", "failed"}]
    /\ up \in BOOLEAN
    /\ expired \in BOOLEAN
    /\ confirmed \subseteq TxIds
    /\ calls \in Nat
    /\ faults \in 0..MaxFaults
    /\ crashes \in 0..MaxCrashes

\* However many duplicate requests, errors and restarts there are, the attempt
\* is durable before RemoteStartTransaction is sent and neither happens twice.
Delivery == INSTANCE WriteAheadDelivery WITH attempted <- attempts > 0, sends <- calls
WriteAhead == Delivery!Spec

\* The charger is told Accepted only for a transaction that is durable, and
\* for one command always with the same transaction id, however often its
\* StartTransaction is repeated (MaterializeV1Start).
ConfirmedIsDurable == \A id \in confirmed : tx # Null /\ tx.id = id

\* Once materialized, a command is never changed again: not by the late
\* outcome of RemoteStart, nor by recovery or a repeated request.
MaterializedIsFinal == [][tx # Null => UNCHANGED rows]_vars

\* A transaction is announced exactly once, with its MATERIALIZED command, and
\* only if it exists; an outcome that came from the charger was published.
FactsMatchRows ==
    /\ {f \in facts : f.type = "transaction.started"} =
          IF tx = Null THEN {} ELSE {StartedFact(tx)}
    /\ command = "MATERIALIZED" <=> tx # Null
    /\ command \in {"OCPP_ACCEPTED", "OCPP_REJECTED", "MATERIALIZED"} =>
          CommandFact(command) \in facts

\* A claimed or attempted delivery does not stay so: it gets an outcome, or
\* recovery returns it to a definite state.  A store error may leave it until
\* the next restart.
DeliveryResolves ==
    command \in {"PENDING_DELIVERY", "DELIVERY_ATTEMPTED"}
       ~> command \notin {"PENDING_DELIVERY", "DELIVERY_ATTEMPTED"} \/ faults > 0
=============================================================================
