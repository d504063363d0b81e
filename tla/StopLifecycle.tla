--------------------------- MODULE StopLifecycle ---------------------------
(***************************************************************************)
(* The stop workflow of one charging transaction: who may ask for a stop,  *)
(* which goroutine sends the one RemoteStopTransaction, what is durable at *)
(* each step, and how the charger's own StopTransaction closes it all.     *)
(*                                                                         *)
(* Every store operation is one PostgreSQL transaction that first locks    *)
(* the transaction row, so each is one action.  The goroutines interleave  *)
(* between store operations.  Meter values and clocks are left to the      *)
(* module Telemetry: here a StopTransaction is one member of Evidence and  *)
(* a meter sample either reaches the energy limit or does not.             *)
(***************************************************************************)
EXTENDS Naturals

CONSTANTS
    Handlers,      \* goroutines serving CMS stop requests and MeterValues
    Worker,        \* the goroutine that recovers and enforces deadlines
    StopCommands,  \* cms_command_id values of POST /v1/remote-commands/stop
    Evidence,      \* contents of a StopTransaction: meter, reason, timestamp
    Null,          \* SQL NULL
    MaxFaults,     \* bound: store errors and cancelled contexts
    MaxCrashes     \* bound: process crashes

ASSUME StopAssumption ==
    /\ Worker \notin Handlers
    /\ Null \notin Evidence
    /\ Null \notin StopCommands
    /\ MaxFaults \in Nat
    /\ MaxCrashes \in Nat

VARIABLES
    completed,     \* v1_transactions: the accepted evidence, Null while active
    stopState,     \* v1_transactions.stop_state
    workflow,      \* v1_stop_workflows.state, "NONE" when there is no row
    attempts,      \* v1_stop_workflows.delivery_attempts
    command,       \* v1_remote_commands.state of each STOP command
    firstCommand,  \* the STOP command with the smallest created_at
    facts,         \* v1_fact_outbox: command.updated, transaction.completed
    pc,            \* where each goroutine is inside DispatchV1Stop
    phase,         \* the process: down, recovering (before hal.Start), serving
    overdue,       \* stop_deadline_at has passed
    acked,         \* evidence whose StopTransaction was confirmed
    calls,         \* RemoteStopTransaction requests put on the wire
    faults, crashes

rows == <<completed, stopState, workflow, attempts, command, firstCommand, facts>>
history == <<acked, calls>>
env == <<phase, overdue, faults, crashes>>
vars == <<rows, pc, history, env>>

Procs == Handlers \cup {Worker}
Outcomes == {"OCPP_ACCEPTED", "OCPP_REJECTED", "AMBIGUOUS"}
WorkflowStates == Outcomes \cup
    {"NONE", "PERSISTED", "PENDING_DELIVERY", "DELIVERY_ATTEMPTED", "COMPLETED"}
CommandStates == Outcomes \cup {"ABSENT", "PERSISTED", "SUPERSEDED"}
CommandFact(c, s) == [type |-> "command.updated", command |-> c, state |-> s]
CompletedFact(e, c) == [type |-> "transaction.completed", evidence |-> e, command |-> c]
Facts == [type : {"command.updated"}, command : StopCommands, state : CommandStates]
   \cup [type : {"transaction.completed"}, evidence : Evidence,
         command : StopCommands \cup {Null}]

Active == completed = Null
Running(p) == phase = "serving" \/ (phase = "recovering" /\ p = Worker)
Goto(p, from, to) == /\ Running(p)
                     /\ pc[p] = from
                     /\ pc' = [pc EXCEPT ![p] = to]

Init ==
    /\ completed = Null
    /\ stopState = "NONE"
    /\ workflow = "NONE"
    /\ attempts = 0
    /\ command = [c \in StopCommands |-> "ABSENT"]
    /\ firstCommand = Null
    /\ facts = {}
    /\ pc = [p \in Procs |-> "idle"]
    /\ phase = "serving"
    /\ overdue = FALSE
    /\ acked = {}
    /\ calls = 0
    /\ faults = 0
    /\ crashes = 0

----------------------------------------------------------------------------
(* Asking for a stop.                                                       *)

\* The first request creates the workflow; later ones find it.
ensureV1StopWorkflowTx ==
    /\ workflow' = IF workflow = "NONE" THEN "PERSISTED" ELSE workflow
    /\ stopState' = IF workflow = "NONE" THEN "PERSISTED" ELSE stopState

\* POST /v1/remote-commands/stop on an active transaction, new or a duplicate
\* of an earlier request; the handler then goes on to DispatchV1Stop.  (On a
\* completed transaction the request changes nothing.)
V1Stop(p, c) ==
    /\ p \in Handlers
    /\ Goto(p, "idle", "ready")
    /\ Active
    /\ ensureV1StopWorkflowTx
    /\ command' = [command EXCEPT ![c] = IF @ = "ABSENT" THEN "PERSISTED" ELSE @]
    /\ firstCommand' = IF firstCommand = Null THEN c ELSE firstCommand
    /\ facts' = IF command[c] = "ABSENT"
                THEN facts \cup {CommandFact(c, "PERSISTED")} ELSE facts
    /\ UNCHANGED <<completed, attempts, history, env>>

\* MeterValues on an active transaction whose accepted sample may reach the
\* energy limit; the handler then looks for a workflow to dispatch.
HandleV1MeterValues(p) ==
    /\ p \in Handlers
    /\ Goto(p, "idle", "ready")
    /\ Active
    /\ \/ ensureV1StopWorkflowTx
       \/ UNCHANGED <<workflow, stopState>>
    /\ UNCHANGED <<completed, attempts, command, firstCommand, facts, history, env>>

\* One overdue transaction of an EnforceV1Deadlines pass.
EnforceV1Deadlines ==
    /\ Goto(Worker, "idle", "ready")
    /\ Active
    /\ overdue
    /\ ensureV1StopWorkflowTx
    /\ UNCHANGED <<completed, attempts, command, firstCommand, facts, history, env>>

\* One workflow of a DispatchPendingV1Stops pass.
DispatchPendingV1Stops ==
    /\ Goto(Worker, "idle", "ready")
    /\ Active
    /\ workflow = "PERSISTED"
    /\ UNCHANGED <<rows, history, env>>

----------------------------------------------------------------------------
(* DispatchV1Stop: claim, begin, read the transaction, call, mark.          *)

\* Mutant: a claim that also takes what another goroutine has claimed.
ClaimAnyState(p) ==
    /\ Goto(p, "ready", "claimed")
    /\ Active
    /\ workflow \in {"PERSISTED", "PENDING_DELIVERY"}
    /\ workflow' = "PENDING_DELIVERY"
    /\ UNCHANGED <<completed, stopState, attempts, command, firstCommand, facts,
                   history, env>>

ClaimV1StopDelivery(p) ==
    /\ Goto(p, "ready", "claimed")
    /\ Active
    /\ workflow = "PERSISTED"
    /\ workflow' = "PENDING_DELIVERY"
    /\ UNCHANGED <<completed, stopState, attempts, command, firstCommand, facts,
                   history, env>>

ClaimRefused(p) ==
    /\ Goto(p, "ready", "idle")
    /\ ~(Active /\ workflow = "PERSISTED")
    /\ UNCHANGED <<rows, history, env>>

\* A Begin that finds the row moved on changes nothing and is not an error.
BeginV1StopDelivery(p) ==
    /\ Goto(p, "claimed", "begun")
    /\ IF Active /\ workflow = "PENDING_DELIVERY"
       THEN /\ workflow' = "DELIVERY_ATTEMPTED"
            /\ attempts' = attempts + 1
       ELSE UNCHANGED <<workflow, attempts>>
    /\ UNCHANGED <<completed, stopState, command, firstCommand, facts, history, env>>

\* GetV1Transaction: a transaction completed meanwhile is not called.
CheckCompleted(p) ==
    /\ Goto(p, "begun", IF Active THEN "calling" ELSE "failed")
    /\ UNCHANGED <<rows, history, env>>

\* RemoteStopTransaction reaches the wire; no charger can be connected before
\* hal.Start.
RemoteStopTransaction(p) ==
    /\ phase = "serving"
    /\ Goto(p, "calling", "awaiting")
    /\ calls' = calls + 1
    /\ UNCHANGED <<rows, acked, env>>

\* It does not: no connection, or the context is already cancelled.
RemoteStopUnsent(p) ==
    /\ Goto(p, "calling", "failed")
    /\ UNCHANGED <<rows, history, env>>

\* Mutant: the wire status is stored as it came.
MarkedStateRaw(status) == status

\* The durable state for a delivery status.
MarkedState(status) ==
    CASE status = "Accepted"  -> "OCPP_ACCEPTED"
      [] status = "Rejected"  -> "OCPP_REJECTED"
      [] status = "AMBIGUOUS" -> "AMBIGUOUS"
      [] OTHER                -> "DELIVERY_ATTEMPTED"

\* Mutant: a late outcome overwrites a completed transaction.
MarkRowsLate(s) ==
    LET linked == {c \in StopCommands : command[c] # "ABSENT"} IN
    /\ workflow' = s
    /\ stopState' = s
    /\ command' = [c \in StopCommands |-> IF c \in linked THEN s ELSE command[c]]
    /\ facts' = facts \cup {CommandFact(c, s) : c \in linked}

\* Mutant: only the command that created the workflow gets the outcome's fact.
MarkRowsOneFact(s) ==
    IF Active /\ workflow \notin {"NONE", "COMPLETED"}
    THEN LET linked == {c \in StopCommands : command[c] \notin {"ABSENT", "SUPERSEDED"}} IN
         /\ workflow' = s
         /\ stopState' = s
         /\ command' = [c \in StopCommands |-> IF c \in linked THEN s ELSE command[c]]
         /\ facts' = facts \cup {CommandFact(c, s) : c \in linked \cap {firstCommand}}
    ELSE UNCHANGED <<workflow, stopState, command, facts>>

\* The outcome is written to the workflow, the transaction and every linked
\* STOP command, with a fact for each; after completion it is dropped.
MarkRows(s) ==
    IF Active /\ workflow \notin {"NONE", "COMPLETED"}
    THEN LET linked == {c \in StopCommands : command[c] \notin {"ABSENT", "SUPERSEDED"}} IN
         /\ workflow' = s
         /\ stopState' = s
         /\ command' = [c \in StopCommands |-> IF c \in linked THEN s ELSE command[c]]
         /\ facts' = facts \cup {CommandFact(c, s) : c \in linked}
    ELSE UNCHANGED <<workflow, stopState, command, facts>>

MarkV1StopDelivery(p) ==
    /\ \/ /\ Goto(p, "awaiting", "idle")
          /\ \E status \in {"Accepted", "Rejected", "AMBIGUOUS"} :
                MarkRows(MarkedState(status))
       \/ /\ Goto(p, "failed", "idle")
          /\ MarkRows("AMBIGUOUS")
    /\ UNCHANGED <<completed, attempts, firstCommand, history, env>>

\* A store call returns an error or the request context is cancelled: the
\* goroutine gives up where it stands.
DispatchFails(p) ==
    /\ faults < MaxFaults
    /\ pc[p] \in {"ready", "claimed", "begun", "awaiting", "failed"}
    /\ Goto(p, pc[p], "idle")
    /\ faults' = faults + 1
    /\ UNCHANGED <<rows, history, phase, overdue, crashes>>

----------------------------------------------------------------------------
(* The charger's StopTransaction.                                           *)

\* CompleteV1Transaction on an active transaction closes the workflow and the
\* linked commands and publishes the completion, in one database transaction.
CompleteRows(e) ==
    /\ completed' = e
    /\ stopState' = "COMPLETED"
    /\ workflow' = IF workflow = "NONE" THEN "NONE" ELSE "COMPLETED"
    /\ command' = [c \in StopCommands |->
                      IF command[c] = "ABSENT" THEN "ABSENT" ELSE "SUPERSEDED"]
    /\ facts' = facts \cup {CompletedFact(e, firstCommand)}

\* Mutant: a repeated StopTransaction is confirmed whatever it says.
StopTransactionAckAll(e) ==
    /\ phase = "serving"
    /\ acked' = acked \cup {e}
    /\ IF Active THEN CompleteRows(e)
       ELSE UNCHANGED <<completed, stopState, workflow, command, facts>>
    /\ UNCHANGED <<attempts, firstCommand, pc, calls, env>>

\* Mutant: every StopTransaction is taken as the completion.
StopTransactionAgain(e) ==
    /\ phase = "serving"
    /\ CompleteRows(e)
    /\ acked' = acked \cup {e}
    /\ UNCHANGED <<attempts, firstCommand, pc, calls, env>>

\* The first evidence completes.  Later ones change nothing and are confirmed
\* only when they repeat it.
HandleV1StopTransaction(e) ==
    /\ phase = "serving"
    /\ IF Active
       THEN CompleteRows(e) /\ acked' = acked \cup {e}
       ELSE /\ acked' = IF completed = e THEN acked \cup {e} ELSE acked
            /\ UNCHANGED <<completed, stopState, workflow, command, facts>>
    /\ UNCHANGED <<attempts, firstCommand, pc, calls, env>>

\* The transaction commits but the confirmation is lost with the connection.
ConfirmationLost(e) ==
    /\ phase = "serving"
    /\ Active
    /\ CompleteRows(e)
    /\ UNCHANGED <<attempts, firstCommand, pc, history, env>>

----------------------------------------------------------------------------
(* Time and the process.                                                    *)

DeadlinePasses ==
    /\ ~overdue
    /\ overdue' = TRUE
    /\ UNCHANGED <<rows, pc, history, phase, faults, crashes>>

Crash ==
    /\ phase # "down"
    /\ crashes < MaxCrashes
    /\ phase' = "down"
    /\ crashes' = crashes + 1
    /\ pc' = [p \in Procs |-> "idle"]
    /\ UNCHANGED <<rows, history, overdue, faults>>

\* Mutant: an attempted delivery is taken for a claimed one.
RecoverResend ==
    /\ phase = "down"
    /\ phase' = "recovering"
    /\ workflow' = IF workflow \in {"PENDING_DELIVERY", "DELIVERY_ATTEMPTED"}
                   THEN "PERSISTED" ELSE workflow
    /\ UNCHANGED <<completed, stopState, attempts, command, firstCommand, facts,
                   pc, history, overdue, faults, crashes>>

\* Mutant: a claim that died with the process is never given back.
RecoverKeepsClaim ==
    /\ phase = "down"
    /\ phase' = "recovering"
    /\ workflow' = IF workflow = "DELIVERY_ATTEMPTED" THEN "AMBIGUOUS" ELSE workflow
    /\ UNCHANGED <<completed, stopState, attempts, command, firstCommand, facts,
                   pc, history, overdue, faults, crashes>>

\* RecoverV1StopDelivery writes the workflow row only.
RecoverV1StopDelivery ==
    /\ phase = "down"
    /\ phase' = "recovering"
    /\ workflow' = CASE workflow = "PENDING_DELIVERY"   -> "PERSISTED"
                     [] workflow = "DELIVERY_ATTEMPTED" -> "AMBIGUOUS"
                     [] OTHER                           -> workflow
    /\ UNCHANGED <<completed, stopState, attempts, command, firstCommand, facts,
                   pc, history, overdue, faults, crashes>>

\* hal.Start, after RecoverV1Lifecycle has gone through its passes.
Serve ==
    /\ phase = "recovering"
    /\ pc[Worker] = "idle"
    /\ Active => workflow # "PERSISTED" /\ (overdue => workflow # "NONE")
    /\ phase' = "serving"
    /\ UNCHANGED <<rows, pc, history, overdue, faults, crashes>>

----------------------------------------------------------------------------
Dispatch(p) ==
    \/ ClaimV1StopDelivery(p)
    \/ ClaimRefused(p)
    \/ BeginV1StopDelivery(p)
    \/ CheckCompleted(p)
    \/ RemoteStopTransaction(p)
    \/ RemoteStopUnsent(p)
    \/ MarkV1StopDelivery(p)

Next ==
    \/ \E p \in Handlers, c \in StopCommands : V1Stop(p, c)
    \/ \E p \in Handlers : HandleV1MeterValues(p)
    \/ EnforceV1Deadlines
    \/ DispatchPendingV1Stops
    \/ \E p \in Procs : Dispatch(p) \/ DispatchFails(p)
    \/ \E e \in Evidence : HandleV1StopTransaction(e) \/ ConfirmationLost(e)
    \/ DeadlinePasses
    \/ Crash
    \/ RecoverV1StopDelivery
    \/ Serve

Spec == Init /\ [][Next]_vars

\* A goroutine inside DispatchV1Stop goes on (the call has a 25 s timeout), the
\* worker ticks every 2 s, a crashed process is restarted.
Fairness ==
    /\ \A p \in Procs : WF_vars(Dispatch(p))
    /\ WF_vars(EnforceV1Deadlines)
    /\ WF_vars(DispatchPendingV1Stops)
    /\ WF_vars(RecoverV1StopDelivery)
    /\ SF_vars(Serve)

FairSpec == Spec /\ Fairness

----------------------------------------------------------------------------
(* Properties.                                                              *)

\* Every row, process and counter holds a value of its type; a command is
\* never given a state its table does not know.
TypeOK ==
    /\ completed \in Evidence \cup {Null}
    /\ stopState \in WorkflowStates
    /\ workflow \in WorkflowStates
    /\ attempts \in Nat
    /\ command \in [StopCommands -> CommandStates]
    /\ firstCommand \in StopCommands \cup {Null}
    /\ facts \subseteq Facts
    /\ pc \in [Procs -> {"idle", "ready", "claimed", "begun", "calling",
                         "awaiting", "failed"}]
    /\ phase \in {"down", "recovering", "serving"}
    /\ overdue \in BOOLEAN
    /\ acked \subseteq Evidence
    /\ calls \in Nat
    /\ faults \in 0..MaxFaults
    /\ crashes \in 0..MaxCrashes

\* However many handlers, worker passes and restarts race, one transaction
\* gets at most one RemoteStopTransaction, and only after the attempt was made
\* durable (DispatchV1Stop's claim and begin, RecoverV1StopDelivery).
AtMostOneRemoteStop == calls <= attempts /\ attempts <= 1

\* The dispatch implements write-ahead delivery: DELIVERY_ATTEMPTED is durable
\* before RemoteStopTransaction can be sent, and neither happens twice.
Delivery == INSTANCE WriteAheadDelivery WITH attempted <- attempts > 0, sends <- calls
WriteAhead == Delivery!Spec

\* At most one goroutine is between its claim and its mark.
Busy(p) == pc[p] \notin {"idle", "ready"}
OneDispatcher == \A p, q \in Procs : Busy(p) /\ Busy(q) => p = q

\* A completed transaction has no open workflow, no open STOP command and
\* exactly one transaction.completed fact, which carries its evidence and its
\* first STOP command; an active one has none (CompleteV1Transaction).
CompletionClosesStop ==
    /\ {f \in facts : f.type = "transaction.completed"} =
          IF Active THEN {} ELSE {CompletedFact(completed, firstCommand)}
    /\ ~Active =>
          /\ workflow \in {"NONE", "COMPLETED"}
          /\ stopState = "COMPLETED"
          /\ \A c \in StopCommands : command[c] \in {"ABSENT", "SUPERSEDED"}

\* Once a transaction is completed no late mark, begin, recovery, stop request
\* or second StopTransaction changes any durable row of it.
CompletedRowsFrozen == [][~Active => UNCHANGED rows]_vars

\* A confirmed StopTransaction is the durable truth: two that disagree are
\* never both confirmed, and none is confirmed and then lost in a crash.
AckedIsDurable == \A e \in acked : completed = e

\* A STOP command that shows an OCPP outcome shows the workflow's outcome, the
\* transaction shows it too, and CMS was sent it (MarkV1StopDelivery).  CMS is
\* never sent two outcomes of one command, nor one its row does not show.  Only
\* a restart leaves a workflow with an outcome that the transaction does not
\* show: AMBIGUOUS, of which no command is told (RecoverV1StopDelivery).  A
\* command that comes after the outcome is not given it.
OutcomesAgree ==
    /\ \A c \in StopCommands : command[c] \in Outcomes =>
          /\ workflow = command[c]
          /\ stopState = command[c]
          /\ CommandFact(c, command[c]) \in facts
    /\ \A c \in StopCommands, s \in Outcomes :
          CommandFact(c, s) \in facts => command[c] \in {s, "SUPERSEDED"}
    /\ Active /\ workflow \in Outcomes /\ stopState # workflow =>
          /\ crashes > 0 /\ workflow = "AMBIGUOUS" /\ stopState = "PERSISTED"
          /\ \A c \in StopCommands, s \in Outcomes : CommandFact(c, s) \notin facts

\* A requested stop and an expired deadline are always acted on: the workflow
\* reaches an outcome or the charger completes the transaction, even when the
\* process dies between two steps of the dispatch.  A store error may leave it
\* until the next restart.
StopSettles ==
    (workflow # "NONE" \/ overdue) ~> (workflow \in Outcomes \/ ~Active \/ faults > 0)

\* What the contract says of DELIVERY_ATTEMPTED: a missing response becomes
\* AMBIGUOUS.
MissingResponseBecomesAmbiguous ==
    workflow = "DELIVERY_ATTEMPTED" ~> workflow # "DELIVERY_ATTEMPTED"
=============================================================================
