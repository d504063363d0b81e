---------------------------- MODULE ChargePoint ----------------------------
(***************************************************************************)
(* cpconsole, the charge point with a terminal.  Its connectors are worked *)
(* on by the terminal, by the goroutines that the handlers of the Central  *)
(* System's requests start, and by the automatic meter workers.  c.ops     *)
(* serializes the operations of a connector and is held across their       *)
(* calls; c.mu guards the fields and is held for one step only.            *)
(*                                                                         *)
(* Every OCPP call of the charge point may fail; a call that fails changes *)
(* nothing here.  The switches of "policy" and -auto-meter-interval are a  *)
(* free choice of whoever reads them.                                      *)
(***************************************************************************)
EXTENDS Integers

CONSTANTS
    N,            \* -connectors: the connectors are 1..N
    Console,      \* the terminal, which runs one command at a time
    Jobs,         \* bound: goroutines of the handlers that run at one time
    Workers,      \* bound: meter workers that live at one time
    None,
    MaxTx         \* bound: transactions

Connectors == 1..N
Transactions == 1..MaxTx
Threads == {Console} \cup Jobs

\* Threads and workers are different goroutines.
ASSUME ChargePointAssumption ==
    /\ N \in Nat \ {0} /\ MaxTx \in Nat
    /\ None \notin Threads \cup Workers /\ Threads \cap Workers = {}

\* The statuses the code tells apart: "Unavailable" is Faulted too, "Finishing"
\* is SuspendedEV, SuspendedEVSE and Reserved too.
Statuses == {"Available", "Preparing", "Charging", "Finishing", "Unavailable"}

VARIABLES
    status, transaction, unavailableAfterStop,   \* of connectorState
    remoteStart,    \* an accepted remote start waits to be executed
    remoteStop,     \* the transaction of the accepted remote stop, or 0
    auto,           \* the worker of autoCancel and autoDone, or None
    ops,            \* who holds the mutex of the connector, or None
    thread,         \* what each thread is doing
    worker,         \* the meter workers
    nextTx,         \* the transaction id that the Central System assigns next
    stopped         \* transactions whose StopTransaction was confirmed

connector == <<status, transaction, unavailableAfterStop>>
pendings == <<remoteStart, remoteStop>>
server == <<nextTx, stopped>>
vars == <<connector, pendings, auto, ops, thread, worker, server>>

Idle == [op |-> "none", pc |-> "idle", conn |-> 1, target |-> "Available",
         own |-> 0, wait |-> None]
Gone == [conn |-> 1, tx |-> 0, pc |-> "gone", cancelled |-> FALSE]

\* start() has booted and reported every connector Available.
Init ==
    /\ status = [c \in Connectors |-> "Available"]
    /\ transaction = [c \in Connectors |-> 0]
    /\ unavailableAfterStop = [c \in Connectors |-> FALSE]
    /\ remoteStart = [c \in Connectors |-> FALSE]
    /\ remoteStop = [c \in Connectors |-> 0]
    /\ auto = [c \in Connectors |-> None]
    /\ ops = [c \in Connectors |-> None]
    /\ thread = [t \in Threads |-> Idle]
    /\ worker = [w \in Workers |-> Gone]
    /\ nextTx = 1
    /\ stopped = {}

----------------------------------------------------------------------------
(* How an operation goes on.                                                *)

At(t, pc) == thread[t].pc = pc /\ thread[t].wait = None
Go(t, pc) == thread' = [thread EXCEPT ![t].pc = pc]
Conn(t) == thread[t].conn
Lock(t) == ops' = [ops EXCEPT ![Conn(t)] = t]
Unlocked(t) == IF ops[Conn(t)] = t THEN [ops EXCEPT ![Conn(t)] = None] ELSE ops

\* What is left to do for the next connector, or nothing.
NextConn(t, pc) ==
    IF Conn(t) < N THEN [thread[t] EXCEPT !.conn = @ + 1, !.pc = pc] ELSE Idle

\* The job of the thread after one of its operations other than a stop.
After(t, ok) ==
    CASE thread[t].op = "reset" -> NextConn(t, "finish")
      [] thread[t].op = "triggerStatus" /\ ok -> NextConn(t, "readStatus")
      [] thread[t].op = "triggerMeter" /\ ok -> NextConn(t, "readMeter")
      [] OTHER -> Idle

\* ... and after stopTransaction.
AfterStop(t, ok) ==
    CASE thread[t].op = "reset" ->
             IF Conn(t) < N THEN [NextConn(t, "resetStop") EXCEPT !.own = 0]
             ELSE [thread[t] EXCEPT !.pc = "boot", !.conn = 1, !.own = 0]
      [] thread[t].op = "remoteStop" /\ ok -> [Idle EXCEPT !.pc = "finish", !.conn = Conn(t)]
      [] OTHER -> Idle

Return(t, ok) ==
    /\ ops' = Unlocked(t)
    /\ thread' = [thread EXCEPT ![t] = After(t, ok)]
ReturnStop(t, ok) ==
    /\ ops' = Unlocked(t)
    /\ thread' = [thread EXCEPT ![t] = AfterStop(t, ok)]

\* setStatusLocked: the notification is sent and then the status is taken.
Notify(t) == status' = [status EXCEPT ![Conn(t)] = thread[t].target]

----------------------------------------------------------------------------
(* The automatic meter workers.                                             *)

autoTransaction(c) == IF auto[c] = None THEN 0 ELSE worker[auto[c]].tx

\* Mutant: the worker returns and leaves done open.
ClearWithoutDone(w) ==
    /\ worker' = [worker EXCEPT ![w] = Gone]
    /\ auto' = [c \in Connectors |-> IF auto[c] = w THEN None ELSE auto[c]]
    /\ UNCHANGED thread

\* The worker clears its own registration and closes done.
clearAuto(w) ==
    /\ worker' = [worker EXCEPT ![w] = Gone]
    /\ auto' = [c \in Connectors |-> IF auto[c] = w THEN None ELSE auto[c]]
    /\ thread' = [t \in Threads |-> IF thread[t].wait = w
                                    THEN [thread[t] EXCEPT !.wait = None] ELSE thread[t]]

\* The ticker fires, or cancel is closed; a tick of a cancelled worker ends it.
WorkerSelect(w) ==
    /\ worker[w].pc = "ticking"
    /\ \/ /\ ~worker[w].cancelled
          /\ worker' = [worker EXCEPT ![w].pc = "fired"]
          /\ UNCHANGED <<auto, thread>>
       \/ /\ worker[w].cancelled
          /\ clearAuto(w)
    /\ UNCHANGED <<connector, pendings, ops, server>>

\* Once it has the connector the worker looks again before it sends.
sendAutomaticMeter(w) ==
    LET c == worker[w].conn
        mine == /\ ~worker[w].cancelled
                /\ transaction[c] = worker[w].tx
                /\ autoTransaction(c) = worker[w].tx
    IN
    /\ worker[w].pc = "fired"
    /\ ops[c] = None
    /\ \/ /\ ~mine
          /\ clearAuto(w)
          /\ UNCHANGED ops
       \/ /\ mine
          /\ status[c] # "Charging"
          /\ worker' = [worker EXCEPT ![w].pc = "ticking"]
          /\ UNCHANGED <<ops, auto, thread>>
       \/ /\ mine
          /\ status[c] = "Charging"
          /\ ops' = [ops EXCEPT ![c] = w]
          /\ worker' = [worker EXCEPT ![w].pc = "sending"]
          /\ UNCHANGED <<auto, thread>>
    /\ UNCHANGED <<connector, pendings, server>>

\* MeterValues is answered, or fails and the worker gives up.
WorkerSent(w) ==
    LET c == worker[w].conn IN
    /\ worker[w].pc = "sending"
    /\ ops' = [ops EXCEPT ![c] = None]
    /\ \/ /\ worker' = [worker EXCEPT ![w].pc = "ticking"]
          /\ UNCHANGED <<auto, thread>>
       \/ clearAuto(w)
    /\ UNCHANGED <<connector, pendings, server>>

\* Close cancel, if there is a worker, and wait for done.
stopAutoAndWait(t, next) ==
    LET w == auto[Conn(t)] IN
    /\ auto' = [auto EXCEPT ![Conn(t)] = None]
    /\ worker' = IF w = None THEN worker ELSE [worker EXCEPT ![w].cancelled = TRUE]
    /\ thread' = [thread EXCEPT ![t].pc = next, ![t].wait = w]
    /\ UNCHANGED <<connector, pendings, ops, server>>

\* startAuto reads the transaction, ends the old worker and starts a new one.
startAutoRead(t) ==
    /\ At(t, "auto")
    /\ IF transaction[Conn(t)] = 0 THEN Return(t, FALSE)
       ELSE /\ thread' = [thread EXCEPT ![t].pc = "autoCancel",
                                        ![t].own = transaction[Conn(t)]]
            /\ UNCHANGED ops
    /\ UNCHANGED <<connector, pendings, auto, worker, server>>

startAutoCancel(t) == At(t, "autoCancel") /\ stopAutoAndWait(t, "install")

\* Bound: when no member of Workers is free the new worker ends at once, before
\* it is registered; one whose first sample is not accepted ends soon after.
startAuto(t) ==
    LET gone == {w \in Workers : worker[w].pc = "gone"}
        w == CHOOSE w \in gone : TRUE
    IN
    /\ At(t, "install")
    /\ IF gone = {}
       THEN auto' = [auto EXCEPT ![Conn(t)] = None] /\ UNCHANGED worker
       ELSE /\ auto' = [auto EXCEPT ![Conn(t)] = w]
            /\ worker' = [worker EXCEPT ![w] = [conn |-> Conn(t), tx |-> thread[t].own,
                                                pc |-> "ticking", cancelled |-> FALSE]]
    /\ Return(t, TRUE)
    /\ UNCHANGED <<connector, pendings, server>>

\* "auto off".
autoOff(t) == At(t, "off") /\ stopAutoAndWait(t, "offDone")
autoOffDone(t) ==
    /\ At(t, "offDone")
    /\ Return(t, TRUE)
    /\ UNCHANGED <<connector, pendings, auto, worker, server>>

----------------------------------------------------------------------------
(* The operations of a connector, as the terminal and the jobs call them.   *)

free(t) == ops[Conn(t)] = None
Held(t, pc, target) ==
    /\ Lock(t)
    /\ thread' = [thread EXCEPT ![t].pc = pc, ![t].target = target]
meters == <<auto, worker>>

plug(t) ==
    /\ At(t, "plug") /\ free(t)
    /\ IF transaction[Conn(t)] # 0 THEN Return(t, FALSE) ELSE Held(t, "notify", "Preparing")
    /\ UNCHANGED <<connector, pendings, meters, server>>

unplug(t) ==
    /\ At(t, "unplug") /\ free(t)
    /\ IF transaction[Conn(t)] # 0 THEN Return(t, FALSE) ELSE Held(t, "notify", "Available")
    /\ UNCHANGED <<connector, pendings, meters, server>>

finish(t) ==
    /\ At(t, "finish") /\ free(t)
    /\ IF transaction[Conn(t)] # 0 THEN Return(t, FALSE)
       ELSE Held(t, "notify", IF unavailableAfterStop[Conn(t)]
                              THEN "Unavailable" ELSE "Available")
    /\ UNCHANGED <<connector, pendings, meters, server>>

setStatus(t) ==
    /\ At(t, "setStatus") /\ free(t)
    /\ Held(t, "notify", thread[t].target)
    /\ UNCHANGED <<connector, pendings, meters, server>>

\* The notification that ends an operation.
setStatusLocked(t) ==
    /\ At(t, "notify")
    /\ \/ Notify(t) /\ Return(t, TRUE)
       \/ Return(t, FALSE) /\ UNCHANGED status
    /\ UNCHANGED <<transaction, unavailableAfterStop, pendings, meters, server>>

sendMeter(t) ==
    /\ At(t, "meter") /\ free(t)
    /\ IF transaction[Conn(t)] = 0 THEN Return(t, FALSE)
       ELSE /\ Lock(t)
            /\ thread' = [thread EXCEPT ![t].pc = "meterCall",
                                        ![t].own = transaction[Conn(t)]]
    /\ UNCHANGED <<connector, pendings, meters, server>>

sendMeterLocked(t) ==
    /\ At(t, "meterCall")
    /\ \E ok \in BOOLEAN : Return(t, ok)
    /\ UNCHANGED <<connector, pendings, meters, server>>

\* startTransaction up to its first call.  Authorize, which only a local start
\* sends, may reject the tag.
startTransaction(t) ==
    LET c == Conn(t) IN
    /\ At(t, "start") /\ free(t)
    /\ \/ /\ \/ transaction[c] # 0
             \/ status[c] = "Unavailable"
             \/ thread[t].op = "start"
          /\ Return(t, FALSE)
       \/ /\ transaction[c] = 0
          /\ status[c] # "Unavailable"
          /\ IF status[c] = "Available" THEN Held(t, "startPreparing", "Preparing")
             ELSE Held(t, "startCall", "Charging")
    /\ UNCHANGED <<connector, pendings, meters, server>>

startPreparing(t) ==
    /\ At(t, "startPreparing")
    /\ \/ /\ Notify(t)
          /\ Held(t, "startCall", "Charging")
       \/ Return(t, FALSE) /\ UNCHANGED status
    /\ UNCHANGED <<transaction, unavailableAfterStop, pendings, meters, server>>

\* StartTransaction is accepted, or rejected or not answered.
startAction(t) ==
    /\ At(t, "startCall")
    /\ \/ /\ nextTx <= MaxTx
          /\ nextTx' = nextTx + 1
          /\ transaction' = [transaction EXCEPT ![Conn(t)] = nextTx]
          /\ remoteStart' = [remoteStart EXCEPT ![Conn(t)] = FALSE]
          /\ Go(t, "startCharging")
          /\ UNCHANGED ops
       \/ Return(t, FALSE) /\ UNCHANGED <<transaction, remoteStart, nextTx>>
    /\ UNCHANGED <<status, unavailableAfterStop, remoteStop, meters, stopped>>

\* A configured worker is started with the connector still held.
startCharging(t) ==
    /\ At(t, "startCharging")
    /\ \/ /\ Notify(t)
          /\ \/ Go(t, "auto") /\ UNCHANGED ops
             \/ Return(t, TRUE)
       \/ Return(t, FALSE) /\ UNCHANGED status
    /\ UNCHANGED <<transaction, unavailableAfterStop, pendings, meters, server>>

\* stopTransaction ends the worker before it asks for the connector.
stopTransaction(t) == At(t, "stopCancel") /\ stopAutoAndWait(t, "stop")

\* Mutant: the transaction is the one that was read before the connector was
\* free.
StopUnlocked(t) ==
    /\ At(t, "stop")
    /\ IF transaction[Conn(t)] = 0 THEN ReturnStop(t, FALSE)
       ELSE /\ UNCHANGED ops
            /\ thread' = [thread EXCEPT ![t].pc = "stopCall",
                                        ![t].own = transaction[Conn(t)]]
    /\ UNCHANGED <<connector, pendings, meters, server>>

stopRead(t) ==
    /\ At(t, "stop") /\ free(t)
    /\ IF transaction[Conn(t)] = 0 THEN ReturnStop(t, FALSE)
       ELSE /\ Lock(t)
            /\ thread' = [thread EXCEPT ![t].pc = "stopCall",
                                        ![t].own = transaction[Conn(t)]]
    /\ UNCHANGED <<connector, pendings, meters, server>>

\* Mutant: the accepted remote stop is not forgotten with its transaction.
StopKeepsPending(t) ==
    /\ At(t, "stopCall")
    /\ transaction' = [transaction EXCEPT ![Conn(t)] = 0]
    /\ stopped' = stopped \cup {thread[t].own}
    /\ thread' = [thread EXCEPT ![t].pc = "notifyStop", ![t].target = "Finishing"]
    /\ UNCHANGED <<status, unavailableAfterStop, pendings, ops, meters, nextTx>>

\* StopTransaction is answered, or fails and leaves the transaction open.
stopAction(t) ==
    /\ At(t, "stopCall")
    /\ \/ /\ transaction' = [transaction EXCEPT ![Conn(t)] = 0]
          /\ remoteStop' = [remoteStop EXCEPT ![Conn(t)] = 0]
          /\ stopped' = stopped \cup {thread[t].own}
          /\ thread' = [thread EXCEPT ![t].pc = "notifyStop", ![t].target = "Finishing",
                                      ![t].own = 0]
          /\ UNCHANGED ops
       \/ ReturnStop(t, FALSE) /\ UNCHANGED <<transaction, remoteStop, stopped>>
    /\ UNCHANGED <<status, unavailableAfterStop, remoteStart, meters, nextTx>>

stopFinishing(t) ==
    /\ At(t, "notifyStop")
    /\ \/ Notify(t) /\ ReturnStop(t, TRUE)
       \/ ReturnStop(t, FALSE) /\ UNCHANGED status
    /\ UNCHANGED <<transaction, unavailableAfterStop, pendings, meters, server>>

----------------------------------------------------------------------------
(* The first and the connecting steps of the jobs.                          *)

jobState == <<connector, pendings, ops, meters, server>>
Drop(t) == thread' = [thread EXCEPT ![t] = Idle]

executePendingRemoteStart(t) ==
    /\ At(t, "pendingStart")
    /\ IF remoteStart[Conn(t)] THEN Go(t, "start") ELSE Drop(t)
    /\ UNCHANGED jobState

\* A job has found transaction tx and goes to stop it.
GoStop(t, tx) == thread' = [thread EXCEPT ![t].pc = "stopCancel", ![t].own = tx]

executePendingRemoteStop(t) ==
    /\ At(t, "pendingStop")
    /\ IF remoteStop[Conn(t)] # 0 THEN GoStop(t, remoteStop[Conn(t)]) ELSE Drop(t)
    /\ UNCHANGED jobState

resetStop(t) ==
    /\ At(t, "resetStop")
    /\ IF transaction[Conn(t)] # 0 THEN GoStop(t, transaction[Conn(t)])
       ELSE thread' = [thread EXCEPT ![t] = AfterStop(t, TRUE)]
    /\ UNCHANGED jobState

boot(t) ==
    /\ At(t, "boot")
    /\ Go(t, "finish") \/ Drop(t)
    /\ UNCHANGED jobState

triggeredStatus(t) ==
    /\ At(t, "readStatus")
    /\ thread' = [thread EXCEPT ![t].pc = "setStatus", ![t].target = status[Conn(t)]]
    /\ UNCHANGED jobState

triggeredMeter(t) ==
    /\ At(t, "readMeter")
    /\ IF transaction[Conn(t)] # 0 THEN Go(t, "meter")
       ELSE thread' = [thread EXCEPT ![t] = After(t, TRUE)]
    /\ UNCHANGED jobState

----------------------------------------------------------------------------
(* The handlers of the Central System's requests.                           *)

Spawn(t, op, pc, c, target) ==
    /\ thread[t].pc = "idle"
    /\ thread' = [thread EXCEPT ![t] = [Idle EXCEPT !.op = op, !.pc = pc, !.conn = c,
                                                    !.target = target]]

remoteStartEligible(c) ==
    transaction[c] = 0 /\ ~remoteStart[c] /\ status[c] \in {"Available", "Preparing"}

\* An accepted start is executed by a job, or kept when "auto-remote" is off.
OnRemoteStartTransaction(c) ==
    /\ remoteStartEligible(c)
    /\ remoteStart' = [remoteStart EXCEPT ![c] = TRUE]
    /\ \/ \E t \in Jobs : Spawn(t, "command", "pendingStart", c, "Available")
       \/ UNCHANGED thread
    /\ UNCHANGED <<connector, remoteStop, ops, meters, server>>

OnRemoteStopTransaction(c) ==
    /\ transaction[c] # 0
    /\ remoteStop[c] = 0
    /\ remoteStop' = [remoteStop EXCEPT ![c] = transaction[c]]
    /\ \E t \in Jobs : Spawn(t, "remoteStop", "pendingStop", c, "Available")
    /\ UNCHANGED <<connector, remoteStart, ops, meters, server>>

OnReset ==
    /\ \E t \in Jobs : Spawn(t, "reset", "resetStop", 1, "Available")
    /\ UNCHANGED jobState

\* For one connector or for all of them; a status is reported by one job each.
OnChangeAvailability(targets, inoperative) ==
    LET active == {c \in targets : transaction[c] # 0}
        target == IF inoperative THEN "Unavailable" ELSE "Available"
    IN
    /\ unavailableAfterStop' =
          [c \in Connectors |->
              IF inoperative THEN unavailableAfterStop[c] \/ c \in active
              ELSE unavailableAfterStop[c] /\ c \notin targets]
    /\ IF inoperative /\ active # {} THEN UNCHANGED thread
       ELSE \E job \in [targets -> Jobs] :
               /\ \A c, d \in targets : job[c] = job[d] => c = d
               /\ \A c \in targets : thread[job[c]].pc = "idle"
               /\ thread' = [t \in Threads |->
                     IF \E c \in targets : job[c] = t
                     THEN [Idle EXCEPT !.op = "command", !.pc = "setStatus",
                              !.conn = CHOOSE c \in targets : job[c] = t,
                              !.target = target]
                     ELSE thread[t]]
    /\ UNCHANGED <<status, transaction, pendings, ops, meters, server>>

OnTriggerMessage ==
    /\ \E t \in Jobs :
          \/ Spawn(t, "triggerStatus", "readStatus", 1, "Available")
          \/ Spawn(t, "triggerMeter", "readMeter", 1, "Available")
    /\ UNCHANGED jobState

----------------------------------------------------------------------------
(* The commands of the terminal.                                            *)

firstStep == [plug |-> "plug", unplug |-> "unplug", finish |-> "finish",
              start |-> "start", meter |-> "meter", auto |-> "auto", off |-> "off",
              stop |-> "stopCancel", remoteStart |-> "pendingStart",
              remoteStop |-> "pendingStop"]

executeConnectorCommand(c) ==
    /\ \E command \in DOMAIN firstStep :
          Spawn(Console, IF command \in {"start", "remoteStop"} THEN command ELSE "command",
                firstStep[command], c, "Available")
    /\ UNCHANGED jobState

\* "status", and suspend, resume, fault and clear-fault, which look at the
\* transaction or the plug first and then report one of the same statuses.
statusCommand(c) ==
    /\ \E s \in Statuses : Spawn(Console, "command", "setStatus", c, s)
    /\ UNCHANGED jobState

----------------------------------------------------------------------------
Operate(t) ==
    \/ plug(t) \/ unplug(t) \/ finish(t) \/ setStatus(t) \/ setStatusLocked(t)
    \/ sendMeter(t) \/ sendMeterLocked(t)
    \/ startTransaction(t) \/ startPreparing(t) \/ startAction(t) \/ startCharging(t)
    \/ stopTransaction(t) \/ stopRead(t) \/ stopAction(t) \/ stopFinishing(t)
    \/ startAutoRead(t) \/ startAutoCancel(t) \/ startAuto(t)
    \/ autoOff(t) \/ autoOffDone(t)
    \/ executePendingRemoteStart(t) \/ executePendingRemoteStop(t)
    \/ resetStop(t) \/ boot(t) \/ triggeredStatus(t) \/ triggeredMeter(t)

Meter(w) == WorkerSelect(w) \/ sendAutomaticMeter(w) \/ WorkerSent(w)

Request ==
    \/ \E c \in Connectors : OnRemoteStartTransaction(c) \/ OnRemoteStopTransaction(c)
    \/ OnReset
    \/ \E inoperative \in BOOLEAN :
          \/ \E c \in Connectors : OnChangeAvailability({c}, inoperative)
          \/ OnChangeAvailability(Connectors, inoperative)
    \/ OnTriggerMessage
    \/ \E c \in Connectors : executeConnectorCommand(c) \/ statusCommand(c)

Next ==
    \/ \E t \in Threads : Operate(t)
    \/ \E w \in Workers : Meter(w)
    \/ Request

Spec == Init /\ [][Next]_vars

\* The goroutines run, calls are answered or time out, and a sync.Mutex is
\* handed to each of its waiters in the end.
FairSpec ==
    /\ Spec
    /\ \A t \in Threads : SF_vars(Operate(t))
    /\ \A w \in Workers : SF_vars(Meter(w))

----------------------------------------------------------------------------
(* Properties.                                                              *)

\* A thread is between two calls of an operation, or in the middle of a call.
Between == {"idle", "plug", "unplug", "finish", "setStatus", "meter", "start", "auto",
            "autoCancel", "install", "off", "offDone", "stopCancel", "stop",
            "pendingStart", "pendingStop", "resetStop", "boot", "readStatus", "readMeter"}
Calling == {"notify", "meterCall", "startPreparing", "startCall", "startCharging",
            "stopCall", "notifyStop"}
ThreadStates ==
    [op : {"none", "command", "start", "remoteStop", "reset", "triggerStatus", "triggerMeter"},
     pc : Between \cup Calling, conn : Connectors, target : Statuses, own : 0..MaxTx,
     wait : Workers \cup {None}]

\* The connectors, the threads and the workers hold values of their types.
TypeOK ==
    /\ status \in [Connectors -> Statuses]
    /\ transaction \in [Connectors -> 0..MaxTx]
    /\ unavailableAfterStop \in [Connectors -> BOOLEAN]
    /\ remoteStart \in [Connectors -> BOOLEAN]
    /\ remoteStop \in [Connectors -> 0..MaxTx]
    /\ auto \in [Connectors -> Workers \cup {None}]
    /\ ops \in [Connectors -> Threads \cup Workers \cup {None}]
    /\ thread \in [Threads -> ThreadStates]
    /\ worker \in [Workers -> [conn : Connectors, tx : 0..MaxTx,
                               pc : {"gone", "ticking", "fired", "sending"},
                               cancelled : BOOLEAN]]
    /\ nextTx \in 1..(MaxTx + 1)
    /\ stopped \subseteq Transactions

\* "Operations are serialized per connector": whoever is in the middle of a
\* StartTransaction, StopTransaction or MeterValues call carries the
\* transaction that the connector has, and it has not been stopped before.
CallsMatchTransaction ==
    /\ \A t \in Threads :
          /\ At(t, "startCall") => transaction[Conn(t)] = 0
          /\ thread[t].pc \in {"stopCall", "meterCall"} =>
                thread[t].own = transaction[Conn(t)] /\ thread[t].own \notin stopped \cup {0}
    /\ \A w \in Workers : worker[w].pc = "sending" =>
          worker[w].tx = transaction[worker[w].conn] /\ worker[w].tx \notin stopped

\* "A remote start never ... uses a connector with an active/pending
\* transaction", and a pending remote stop is for the transaction that is open:
\* a finished transaction leaves no request behind for the next one.  A job that
\* has found the transaction to stop still has it when it comes to the stop, or
\* another has stopped it in between; stopTransaction does not look at the
\* request again and then stops whatever is open ("stops only that owner" is
\* lost in this one way).
PendingMatchesTransaction ==
    /\ \A c \in Connectors :
          /\ remoteStart[c] => transaction[c] = 0
          /\ remoteStop[c] # 0 => remoteStop[c] = transaction[c]
    /\ \A t \in Threads : thread[t].pc \in {"stopCancel", "stop"} /\ thread[t].own # 0 =>
          thread[t].own = transaction[Conn(t)] \/ thread[t].own \in stopped

\* startTransaction has the connector and waits for a worker of an earlier
\* transaction, which waits for the connector to send its sample.
Entangled(c) ==
    \E t \in Threads :
       /\ ops[c] = t /\ thread[t].pc = "install"
       /\ thread[t].wait # None /\ worker[thread[t].wait].pc = "fired"

\* Every command and every job comes to its end and gives the connector back,
\* although stopping a transaction waits for a worker that needs the connector
\* too; and no worker outlives its transaction.  Excepted is a start and a worker
\* that wait for each other, a deadlock of the code.
OperationsReturn ==
    /\ \A t \in Threads : []<>(thread[t].pc = "idle" \/ \E c \in Connectors : Entangled(c))
    /\ \A w \in Workers :
          []<>(\/ worker[w].pc = "gone"
               \/ worker[w].tx \notin stopped
               \/ \E c \in Connectors : Entangled(c))
=============================================================================
