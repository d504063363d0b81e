# Formal model of the OCPP 1.6 HAL

The HAL sits between a charging management system (CMS), which talks HTTP to it,
and chargers, which talk OCPP 1.6 over websockets. It keeps what it knows in
PostgreSQL so that a crash, a lost answer or a repeated message neither starts,
stops nor bills a charging session twice. These modules model that core from the
Go source, check it with TLC on small instances, and prove their safety
properties with TLAPS for instances of any size. `PROJECT.json` maps every
definition to the lines it models.

## The system

| Part | State | Operations | Module |
| --- | --- | --- | --- |
| Stop lifecycle (`store/v1_lifecycle_postgres.go`, `ocpp16hal/v1.go`) | `v1_transactions`, `v1_stop_workflows`, STOP rows of `v1_remote_commands`, outbox | CMS stop, energy limit, deadline, claim, begin, RemoteStop, mark, StopTransaction, recovery | `StopLifecycle` |
| Start command (`store/v1_postgres.go`, `httpapi/v1.go`) | START row of `v1_remote_commands`, `v1_credentials`, the transaction | CMS start, claim, begin, RemoteStart, mark, StartTransaction, expiry, recovery | `StartCommand` |
| Charger operations (`store/v1_operations_postgres.go`, `ocpp16hal/v1.go`, `operation_observer.go`) | `v1_charger_operations`, connected chargers, rotation counter | CMS request, pass of a new connection, recovery worker, claim, dispatch, confirmation or timeout, mark, recovery | `ChargerOperation` |
| Meter and SoC evidence (`store/v1_meter_evidence.go`, `UpdateV1TelemetryForOCPP`, `CompleteV1Transaction`) | latest meter, latest SoC, sequences, facts | MeterValues, StopTransaction | `Telemetry` |
| Fact outbox (`v1facts/worker.go`, `ClaimV1Facts`...) | `v1_fact_outbox`, workers | insert, claim, POST, mark, requeue | `FactOutbox` |
| Connections (`ocpp16hal/connections.go`, `hal.go`) | `connectionTracker`, `v1_charger_runtime`, `pendingRuntime` | connect, disconnect, heartbeat, record, retry, reset at startup | `Connection` |
| Operation observer and follow-on windows (`operation_observer.go`, `store/v1_trace_postgres.go`, `v1trace/worker.go`) | unique-id bindings, trace roots and rows, windows | register, bind, received, forget, follow-on, close | `OperationTrace` |
| Admission, wire identities, mappings, connector status, boot and configuration (`ocpp16hal/v1_admission.go`, `configuration.go`, `hal.go`, `store/v1_postgres.go`) | `wiredIdentity`, `connectionTracker`, mapping and connector rows | handshake, connect, disconnect, sync, StatusNotification, BootNotification, configuration reads and writes | `Admission` |
| Charging traces (`store/v1_trace_postgres.go`, `v1_trace_delivery.go`, `v1trace/worker.go`) | trace roots, events, delivery rows | ensure, bind, append, claim, deliver, mark, retention | `ChargingTrace` |
| Charge point console (`cmd/cpconsole`) | connectors with their mutexes, meter workers | terminal commands, handlers of remote requests, automatic metering | `ChargePoint` |
| Registry, HTTP rendering, configuration, legacy store, migrations | | | not modelled |

How they interact. A CMS request or a charger message is handled in a goroutine
of its own. It changes durable rows in one PostgreSQL transaction and commits
the facts that report the change with it; the fact worker delivers them later.
Whatever has to be sent to a charger goes through the same four steps: claim the
row, record the attempt, call the charger, record the outcome. Start, stop and
charger operations are three independent implementations of those steps.
At startup, before requests are served, recovery decides what an interrupted
delivery may have done. Connections come and go meanwhile, each with a
generation that tells late callbacks of an old connection from the current one.

What makes it hard: goroutines that find the same row dispatchable; a crash or a
store error between any two steps; a charger's StartTransaction or
StopTransaction that overtakes the answer to the remote command; duplicates with
other content; a lease that expires under a slow worker; callbacks of two
connections in the wrong order; meter samples out of order. `PROJECT.json` lists
these hazards at the lines where they bite.

## Modules

Each module has one action for each store operation, handler or call, named as
in the source. A store operation is one PostgreSQL transaction that locks its
row first, so it is one atomic action. Goroutines interleave between them, and
`pc` says where each is. Definitions marked *Mutant* change one definition the way
a plausible slip in the code would; for each property, one of them makes the
property fail.

* `WriteAheadDelivery` - the abstract specification of a delivery: the attempt
  becomes durable once, and after that the request is sent at most once. Start,
  stop and charger operations are each shown to implement it (`WriteAhead`,
  an `INSTANCE ... WITH` refinement).
* `StopLifecycle` - one transaction, any number of handlers, the lifecycle
  worker, STOP commands and pieces of StopTransaction evidence. `workflow`,
  `stopState`, `command` and `completed` are the rows. `phase` tells the process
  being down, recovering (before `hal.Start`) or serving. `CheckCompleted` is the
  re-read between begin and call; `RemoteStopUnsent` a call that fails before the
  request is handed to the websocket library; `DispatchFails` a store error or a
  cancelled context at any store operation of the dispatch.
* `StartCommand` - one START command. `MaterializeV1Start` is the whole of
  `OnStartTransaction`: it finds the credential consumed and answers with the
  same transaction, rejects other content, or creates transaction, command
  state and facts together.
* `ChargerOperation` - several operations of several chargers. `todo` is the list
  a goroutine got from the database; `rotation` selects the charger of a worker
  pass. The operations a goroutine has left are a set, because the query orders
  them by creation and operations are numbered that way.
* `Telemetry` - the evidence of one transaction. `classifyV1MeterEvidence` is
  translated as it stands. Readings are integers in Wh, SoC values and charger
  timestamps small integers.
* `FactOutbox` - facts, workers, leases and tokens. Time is kept as remaining
  ticks, so the state space is finite without a clock. A worker takes the time once,
  before the claim: the lease that `ClaimV1Facts` grants is shorter by the ticks
  that pass until the POST, up to `MaxStall`.
* `Connection` - the tracker, the durable row and the observations kept for
  retry, for one mapped and enabled charger. A callback thread is named by the
  observation it persists.
* `OperationTrace` - the evidence of TriggerMessage operations. `entry` is where the
  observer holds an operation, `loop` what a read loop does with an answer
  (evidence first, then the library), `inbox` the handlers of charger messages,
  each with the time it took, `window` the observation windows, `events` the number
  of trace rows of each kind. `requests` are the HTTP requests between finding the
  operation PERSISTED and making its trace root; a recovery pass may dispatch the
  operation meanwhile, and `EnsureV1Trace` does not look again. `traced` remembers
  which operations had their root when they were claimed.
* `Admission` - who a connection belongs to. `wired` is the map from wire identities to
  chargers, `conn` the connections from handshake to the end of the disconnect
  handler, which are two steps because the handler writes to the database in
  between. Every handler asks `canonicalIdentity` anew. `reporter` is a
  StatusNotification handler between that look and its transaction, `job` one
  reconciliation of a charger's configuration. A connection's generation is its
  number.
* `ChargingTrace` - the trace of a connector's sessions. `appender` is what a handler
  still has to append and to which root, `worker` the claim of a delivery worker,
  `retention` a running DELETE: it selects on its snapshot and deletes with the
  cascade in a later step, because appending handlers hold a share lock on the
  root.
* `ChargePoint` - the console. `ops` is the mutex that an operation of a connector
  holds across its calls; `thread` is what the terminal and each handler's goroutine
  are doing, one `pc` for each place between two calls or locks; `worker` are the
  automatic meter workers, `wait` whom `stopAutoAndWait` waits for. Every OCPP call
  may fail.
* `StopLifecycleProofs`, `StartCommandProofs`, `ChargerOperationProofs`,
  `ConnectionProofs`, `FactOutboxProofs`, `ChargePointProofs` - the proofs about the
  module each is named after. `TraceProofs` - those about `OperationTrace`.
  `ReportsProofs` - those about `Admission`, `Telemetry` and `ChargingTrace`.
* `Reports` - `Telemetry`, `Admission` and `ChargingTrace` side by side. They share no
  state, so a behaviour picks one of them at the start and follows it, and one run
  answers for what HAL records about its chargers. The theorems are about the three
  specifications themselves.
* `MC...` - instances for TLC.

The protocol modules each state a type invariant, `TypeOK`. The `stop` run lists its
own; the others hold on the instances of their runs and are not listed there. All
but that of `Telemetry` are also proved, as theorems or inside the inductive
invariants; `Admission` and `ChargingTrace` have theirs in `ReportsProofs`.

### Abstractions that matter

* "Sent" means handed to the websocket library. What the charger does with it is
  free: it may answer, refuse, or say nothing, and it may send StartTransaction
  or StopTransaction at any time after that (StopTransaction at any time at all).
* StartTransaction for a START command comes only after its RemoteStart was sent,
  because the charger learns the credential from that request.
* Several facts that one code path inserts in one transaction are added together.
  Facts are kept as a set of what was reported; their delivery is `FactOutbox`.
* A crash loses every goroutine and the in-memory state, and keeps the rows.
  `Serve` waits until the recovery pass has dispatched what it found, as `main`
  does. `RecoverV1StopDelivery`'s two updates are one action: nothing else runs.
* In `Connection` the disconnect callback of a generation comes after its connect
  callback has registered it. The HAL's own code does not enforce this; it is an
  assumption about the websocket library.
* In `OperationTrace` a read loop hands on one frame at a time, an assumption about
  the same library; CALLs of the charger are handled by goroutines of their own.
  One connection is instantiated; an answer repeated on a second one needs a
  larger instance than the run has.
* `rotation` counts modulo `Cycle`, a multiple of every number of chargers that can
  be connected; the code's counter is a `uint64`.
* In `Admission` one reconciliation and one StatusNotification handler are followed at
  a time; handlers of the same kind meet only in the rows and the map. A handshake
  that the library gives up after validation (`UpgradeFails`) is external.
* In `ChargingTrace` a session is a start intent with its transaction; the unique
  indexes allow it one root. The clock is free: a root is old, and a lease or a
  delay is over, at any time. A handler finds its root and appends in different
  steps. Authorize, StatusNotification, MeterValues and delivered facts differ in how
  they find the root, not in what they do with it.
* In `ChargePoint` the policies and `-auto-meter-interval` are free choices, statuses
  that no code tells apart are one, and meter values are left out. The terminal may
  name any connector. The 100 ms sleeps are the freedom of the scheduler.
* Claim tokens are random UUIDs, so a fresh one is one nobody holds.

## Runs

| Run | Instance | Shows |
| --- | --- | --- |
| `stop` | 2 handlers and the worker, 2 commands, 2 pieces of evidence, 1 store error, 2 crashes | At most one RemoteStop, its attempt durable before; one goroutine past the claim; completion closes workflow and commands for good; only durable evidence is confirmed; what the linked commands show and CMS is sent of the outcome agrees with the workflow, and where recovery wrote the workflow alone they show none; a requested or overdue stop gets an outcome or the transaction completes |
| `start` | 2 handlers, 2 contents of StartTransaction, 2 ids, 1 store error, 2 crashes | At most one RemoteStart; the charger is confirmed one durable transaction only; facts agree with rows; materialized rows are final; deliveries are resolved |
| `operation` | 2 operations of one of 2 chargers, 1 handler, 2 connection passes, the worker, batches of 1, 1 store error, 1 crash | At most one request per operation; PERSISTED means never sent, CONFIRMED means answered; settled operations are final; batches drain although the worker serves one charger a pass; without a store error attempts are settled across a crash |
| `reports` | `Telemetry`: readings -1..3 Wh, times 0..2, limit 2 Wh, 3 accepted samples | Sequences and times of facts agree; a published reading at the limit has requested a stop; the final meter covers what was published, also if samples come late |
| | `Admission`: 2 chargers, a shared serial and a serial that is the identity of one of them, 3 connections, 1 status fact, 1 mapping sync, 1 configuration key | What is registered, published or sent for a charger concerns its own connections, but for two exceptions named below (`OwnEvidence`); at most one request of a superseded reconciliation goes out (`OneLateRequest`) |
| | `ChargingTrace`: 1 session, 2 handlers, 2 delivery workers, 2 events | Retention deletes no event that was there when it selected and is still to be delivered (`RetentionSparesUndelivered`) |
| `fact` | 2 facts, 2 workers, lease of 2 ticks, timeout of 1, up to 1 tick between claim and POST, 1 fault, 1 requeue | A fact is in one POST at a time; only the holder of a claim records; DELIVERED means received and is final; every fact settles |
| `connection` | 2 connections, 1 store error, 1 heartbeat, 1 restart | A stale callback, retry or heartbeat never wins over a newer observation; the latest fact describes the row; without store errors the row ends up agreeing |
| `trace` | 2 operations, one for any connector and one for connector 1, 1 message of the charger, from connector 2, windows of 1 tick, batches of 1, 1 disruption (store error, crash or late disconnect handler) | Evidence of an answer is durable before the operation is confirmed, if the operation had its trace root when it was claimed; a message read behind the answer is not missed; each window gets one verdict, in time, that its trace rows agree with |
| `console` | 1 connector, the terminal, 1 goroutine of a handler, 1 meter worker, 2 transactions | Calls carry the transaction that is open; pending remote requests belong to it; every operation returns and no worker outlives its transaction, unless a start and a worker wait for each other |
| `stop_cancelled`, `telemetry_rollback`, `connection_lost`, `trace_rootless` | small | disagreements, below |

Why the bounds are enough. Two of everything is where the races are: two
claimants, two contents, two connections, two operations in a batch of one. A
third adds no new kind of step to any of the protocols. Two crashes allow a
crash during recovery of the first one. One store error can be put at every
store operation. Readings -1..3 contain a negative value, the start, both sides
of the limit, and rollbacks by one and by more than one. Two facts give an
overtaking and a starvation; lease 2, timeout 1 and a stall of 1 keep the code's order
(30 s, 15 s, and the 15 s that are left between them). The one message of a charger
is matched by one of the two operations and not by the other. Three connections give
an old one, the one that replaces it, and one of the other charger; one key gives a reconciliation two requests, so that a
second late one would show. Two transactions on one connector are enough for a
request, a worker or a stop to meet the wrong one. Connectors of the console share
nothing but the goroutine that visits them in turn, so one is instantiated; the
step to the next connector is in the module and not in the instance. There is one
live meter worker at a time: one that is started while the former still runs ends at
once (`startAuto`). The safety theorems hold for any number of workers;
`OperationsReturn` is checked with one. A second live worker needs a larger instance
than the run has, and so its deadlocks, if there are others, would not show.

Runs that disable deadlock checking end for good reasons: a bound is used up, an
expired credential can no longer be used, a transaction is completed and no
requests come.

### Fairness

Goroutines go on (the Go scheduler, and every call has a timeout: 20 s or 25 s
for OCPP, 15 s for a POST); the lifecycle worker, the operation worker and the
fact worker poll every 2 s, and so does the trace worker, which closes the windows, if
trace delivery is configured (without it `v1trace.New` returns none and windows stay
open: `WindowsSettle` is about a HAL that has it); a crashed process is restarted. All of it is weak
fairness, except `Serve`: a process may crash before it serves, and is assumed to
get there if it may again and again. In `ChargePoint` threads and workers are strongly
fair: they compete for a `sync.Mutex`, which Go hands to a waiter that has waited
for a millisecond, and calls are answered or time out. Nothing is assumed of CMS or of chargers.
Liveness is claimed without store errors only: a store error in the middle of a
dispatch leaves the row as it is until the next restart, by design ("leave that
state for startup reconciliation instead of risking a second send"). Connections
are bounded, so `OperationsDrain` is about a set of connected chargers that
settles; chargers that keep reconnecting could move the rotation past one of
them for ever. `FactsSettle` excepts workers that lose their claim for ever by
recording too late.

## Disagreements

Four runs show the code doing something else than its contract
(`docs/contracts/CMS_HAL_CHARGING_V1.md`) or a comment says.

* `stop_cancelled` - the context that was cancelled during RemoteStop is reused to
  record the outcome; the workflow stays DELIVERY_ATTEMPTED until a restart.
* `telemetry_rollback` - a one-Wh rollback replaces the latest meter and is
  published; repeated, it walks the meter down.
* `connection_lost` - the success of an older observation drops the newer one that
  was kept for retry.
* `trace_rootless` - an operation accepted while its charger is offline is later
  dispatched by recovery, which does not make the trace root: its answer leaves
  neither evidence nor an observation window.

Others were seen while modelling and have no run: a repeated STOP request is "not
found" once the transaction is completed, instead of returning the command (:158);
recovery leaves the STOP
commands of an interrupted delivery PERSISTED (:148 says "no OCPP transmission
occurred") and makes a START command AMBIGUOUS without publishing it (:432); a
duplicate meter value advances the sequence (:811); an operation whose charger
disconnects between the connection check and the claim is claimed, and becomes
RECONCILIATION_REQUIRED without having been sent (:958).

Some sentences of the contract can be read more strictly than a property states them.
"A reconnect supersedes the older generation before later configuration writes" (:931)
may mean that a superseded reconciliation sends nothing more; the code looks at the
generation and sends in two steps, so one request may be late, and `OneLateRequest` says
that it is at most one. That PERSISTED means "no OCPP transmission occurred" (:148) is not
so for the STOP commands of a workflow that recovery has made AMBIGUOUS; the third part
of `OutcomesAgree` says that this is the only way in which they differ.

Some properties except a state that the code does reach:

* `OwnEvidence` excepts `orphaned` connections, each by itself: what is registered or
  reported by the others is not affected. The disconnect handler forgets the wire
  identity after its database write (`hal.go:141`); if the charger has reconnected
  by then, the entry of the new connection is removed, its handlers take the wire
  identity for the charger, and another charger may take the wire identity over.
  The reverse happens too: a disconnect that is not the current one leaves its entry,
  and so does a handshake that the library gives up, so that a request may be sent
  to a wire identity nobody is connected with. The second exception is a request for a
  charger that has no entry, when another one has dialled with the identity of the
  first as its serial: `wireIdentityFor` falls back to the identity, and the request
  reaches the other one.
* `EvidenceBeforeOutcome` and `NoMissedFollowOn` are about operations that had their trace
  root when they were claimed. A recovery pass dispatches without one
  (`trace_rootless`), and a root that a request makes behind it comes too late for an
  answer that is there already. `EvidenceBeforeOutcome` also excepts the observer entries
  that a late disconnect handler removes (`hal.go:142`).
* `RetentionSparesUndelivered` is about the events that were there when the statement
  selected; one appended during the statement goes with its root.
* `OperationsReturn` excepts `Entangled`, a deadlock. `startTransaction` calls `startAuto` with the
  connector held, and `stopAutoAndWait` in it waits for a worker that is waiting
  for the connector; both wait for ever. That needs a worker installed by an `auto`
  command while the start is in progress, or by one that read an earlier transaction; two `startAuto`
  that race can also leave a worker that nobody cancels, until it sees that the
  transaction is another one.

And in the console a remote stop whose goroutine has read the request, but has not
stopped yet when the terminal stops the transaction and starts another, stops the
new one: `stopTransaction` takes the transaction that is open, where
`docs/SOFTWARE_CHARGER.md:234` says "stops only that owner". `CallsMatchTransaction` holds
all the same; the last part of `PendingMatchesTransaction` says that a job comes to the
stop with the transaction that it has found, or after another has stopped that one, so
that this is the only way to stop a wrong one.

## Proofs

Every invariant, action property and refinement that a passing run checks is also
a theorem, for any sets of goroutines, commands, operations, facts, connections,
messages and readings, and any bounds on time, errors and crashes. None of the
invariants is inductive as it stands. Each proof module states first what makes
it so, as `IInv` (in `ReportsProofs` one for each component), proves that `Init`
implies it and that every step keeps it, one case for each action, and derives the
theorems from it.

**`StopLifecycleProofs`**

* `TypeCorrect`: `TypeOK`.
* `AtMostOnce`, `SingleDispatcher`: `AtMostOneRemoteStop` and `OneDispatcher`, from the
  invariant `DispatchInv`: the relation between a goroutine's place and the row. A
  goroutine past the claim implies PENDING_DELIVERY with no attempt yet, one past
  begin implies DELIVERY_ATTEMPTED or a completed transaction with one attempt, and
  a PERSISTED row implies no attempt and nobody past the claim. Recovery keeps it
  because it runs after a crash has emptied `pc` and returns only PENDING_DELIVERY to
  PERSISTED.
* `Refinement`: `StopLifecycle` implements `WriteAheadDelivery`, from `DispatchInv`.
* `CompletedFrozen`: no step changes the rows of a completed transaction.
* `CompletionCloses`, `Acked`: completion and confirmation agree on all rows, from `CInv`,
  which says which command states go with which workflow state.
* `Outcome`: `OutcomesAgree`. `OInv` adds what an outcome is marked over: until then the
  transaction shows PERSISTED, and only the completion supersedes a command. The
  theorem does not say that every linked command has the outcome; recovery and a
  command that comes later are the counterexamples.

**`StartCommandProofs`**

* `Refinement`: `WriteAhead`, from a `DispatchInv` like that of stop. It is weaker in one
  place: StartTransaction may overtake the answer, so a handler that waits finds
  DELIVERY_ATTEMPTED or MATERIALIZED. That the command is MATERIALIZED exactly when
  the transaction exists is what keeps a late mark from touching it.
* `Final`: `MaterializedIsFinal`. `Confirmed`, `Announced`: `ConfirmedIsDurable` and
  `FactsMatchRows`, once the transaction exists from `Final`, before from the single
  holder.

**`ChargerOperationProofs`**

* `LedgerTrue`, `Refinement`: `StateTellsDelivery`, and `WriteAhead` for all operations at
  once. `HolderInv`: a goroutine past the claim holds the first operation of its
  list, alone, and the row is DELIVERY_ATTEMPTED; `LedgerInv`: what a row's state
  says of attempts, calls and answers. That a goroutine holds one operation needs
  the order of the operations: the smallest of a set is unique.
* `Final`: `SettledIsFinal`. `TypeCorrect` includes that a pass takes at most a batch,
  a fact about cardinalities.

**`ConnectionProofs`**

* `Offline`, `Forward`: `OfflineMeansGone` and `NoResurrection`. A disconnect that is being
  written, kept for retry or retried is that of a generation that is no longer
  active and will not be again (`ObservationsSound`).
* `LatestFact`: `LatestFactIsRow`, from the sequence numbers of row and facts.

**`FactOutboxProofs`**

* `Exclusive`: `OnePostPerFact`. While a worker posts, the remaining lease and the time
  since the worker read its clock add up to the lease's length (`ClaimHeld`), so that
  the fact is not due before the POST has timed out. This is where
  `MaxStall + Timeout <= Lease` is used: the code has 15 s and 30 s, so a worker may
  take 15 s from the clock to the POST.
* `Delivered`, `HolderRecords`: `DeliveredWasReceived` and `OnlyHolderRecords`. No two
  workers have one token (`TokensDiffer`), and a worker that is about to record
  DELIVERED has the answer (`ResultsTrue`).

**`TraceProofs`**

* `Verdicts`: `VerdictMatchesEvidence`, from `VerdictInv`, which counts the trace rows by the
  window's state, and from `AnswerInv`: an Accepted answer leaves its row and its
  window behind together.
* `FollowOns`: `NoMissedFollowOn`. Once a read loop is done with an answer it paired, the
  window is there or no answer can open one any more (`OpenedInv`), so whatever is
  read behind the answer finds it.
* `Evidence`: `EvidenceBeforeOutcome`. An operation that waits has its entry in the
  observer, its evidence, or one of the excuses (`OutcomeInv`).

**`ReportsProofs`**

* `Own`, `LateRequest`: `OwnEvidence` and `OneLateRequest` of `Admission`. A connection that is
  admitted or open and not orphaned has its wire identity mapped to its charger
  (`OwnInv`), so every handler of it finds the right one although it looks the wire
  identity up anew, whatever has happened to other connections. Serials may be shared
  and may be identities of chargers. `JobInv`: once a request of a
  reconciliation was late, its connection is not the current one, and no connection
  is registered a second time, so that the next look ends it.
* `Ordered`, `LimitStops`, `FinalMeter`: `FactsInOrder`, `LimitRequestsStop` and
  `FinalMeterCovers` of `Telemetry`. `MeterInv` and `SoCInv`: every number up to the
  sequence has its fact, the columns date all of them, and the last one is the
  latest meter until the completion replaces it. No number is used twice because
  the sequence bounds them all (`NumbersDiffer`).
* `Retention`: `RetentionSparesUndelivered` of `ChargingTrace`. Between selection and
  cascade, no step takes a settled event back, and an event never changes its
  root; so what the cascade finds undelivered was appended in between.

**`ChargePointProofs`**

* `Serialized`: `CallsMatchTransaction`. Whoever is in a call holds the connector's mutex,
  and what it has read of the transaction still holds (`HoldInv`); ids are not used
  again (`OnceInv`).
* `Pending`: `PendingMatchesTransaction`, which needs both. A transaction that a job has
  found (`FoundInv`) is left by its connector only when it is stopped (`Follow`).

Assumptions. Each module's own `ASSUME` only: `Null` and `None` are no values, the kinds of
goroutines are disjoint, bounds are naturals, `MaxStall + Timeout` is at most `Lease`, `Cycle`
is a multiple of every number of connected chargers, and `Telemetry`'s values are numbers
(`Columns`). TLC evaluates all of them.

Only model-checked: liveness (`StopSettles`, `DeliveryResolves`, `OperationsDrain`,
`AttemptsSettle`, `FactsSettle`, `ProjectionCatchesUp`, `WindowsSettle`, `OperationsReturn`), which
rests on fairness and is out of this prover's reach; and the four disagreements,
which are counterexamples.

## Plan

1. Several overdue transactions, to see what one failing row does to the deadlines
   of the others; the lock order of the stop lifecycle as a module of its own.
2. Pure functions (limit sources, SoC parsing) against reference definitions.

## Not modelled

* HTTP routing, authentication, rendering and documentation pages have no state.
* The in-memory registry is a map under one mutex; in the running service the
  handlers write it and no decision reads it.
* The in-memory store is a test double of the PostgreSQL one. The legacy tables
  belong to the former API, which the running program does not serve.
* Configuration is read once. A migration is applied by a sequential program in one
  transaction before the service runs; its SQL is data, and the constraints other
  modules rely on (the unique indexes and the cascade of the traces) are in them.
* Of the mappings, connectors, audit rows and the seeded runtime row; of the boot,
  the evidence row; of the traces, what an event says, its digest and its reading;
  of the console, the heartbeat worker, configuration keys, firmware and diagnostics
  notifications and the meter arithmetic. Nothing in the modules depends on them.
