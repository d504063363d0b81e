------------------------- MODULE ChargePointProofs -------------------------
(***************************************************************************)
(* Proofs about ChargePoint for any number of connectors, goroutines,      *)
(* meter workers and transactions.                                         *)
(***************************************************************************)
EXTENDS ChargePoint, TLAPS

\* Whoever is in the middle of a call holds the connector, and what it has read
\* of the transaction still holds.
HoldInv ==
    /\ \A t \in Threads :
          /\ thread[t].pc \in Calling => ops[Conn(t)] = t
          /\ thread[t].pc \in {"startPreparing", "startCall"} => transaction[Conn(t)] = 0
          /\ thread[t].pc \in {"meterCall", "stopCall"} =>
                thread[t].own = transaction[Conn(t)] /\ thread[t].own # 0
    /\ \A w \in Workers : worker[w].pc = "sending" =>
          ops[worker[w].conn] = w /\ worker[w].tx = transaction[worker[w].conn]

\* A transaction id is used once: for one connector, and not again when it was
\* stopped.
OnceInv ==
    /\ \A c \in Connectors : transaction[c] # 0 =>
          /\ transaction[c] < nextTx /\ transaction[c] \notin stopped
          /\ \A d \in Connectors : c # d => transaction[c] # transaction[d]
    /\ \A x \in stopped : x < nextTx

\* The two parts of PendingMatchesTransaction.
PendingInv ==
    \A c \in Connectors :
       /\ remoteStart[c] => transaction[c] = 0
       /\ remoteStop[c] # 0 => remoteStop[c] = transaction[c]
Stops == {"stopCancel", "stop"}
FoundInv ==
    \A t \in Threads : thread[t].pc \in Stops /\ thread[t].own # 0 =>
       thread[t].own = transaction[Conn(t)] \/ thread[t].own \in stopped

IInv == TypeOK /\ HoldInv /\ OnceInv /\ PendingInv /\ FoundInv

LEMMA Sorts ==
  /\ N \in Nat /\ 1 \in Connectors /\ MaxTx \in Nat /\ 0 \in 0..MaxTx
  /\ \A t \in Threads : t # None /\ t \notin Workers
  /\ \A w \in Workers : w # None /\ w \notin Threads
  BY ChargePointAssumption DEF Connectors

LEMMA IdleType == Idle \in ThreadStates /\ Idle.pc = "idle"
  BY Sorts DEF Idle, ThreadStates, Between, Calling, Statuses

LEMMA InitInv == Init => IInv
  <1> SUFFICES ASSUME Init PROVE IInv
    OBVIOUS
  <1>1. /\ unavailableAfterStop \in [Connectors -> BOOLEAN]
        /\ remoteStart \in [Connectors -> BOOLEAN]
    BY Zenon DEF Init
  <1>2. Gone \in [conn : Connectors, tx : 0..MaxTx,
                  pc : {"gone", "ticking", "fired", "sending"}, cancelled : BOOLEAN]
    BY Sorts DEF Gone
  <1>3. thread \in [Threads -> ThreadStates] /\ \A t \in Threads : thread[t].pc = "idle"
    BY IdleType DEF Init
  <1>4. /\ worker \in [Workers -> [conn : Connectors, tx : 0..MaxTx,
                  pc : {"gone", "ticking", "fired", "sending"}, cancelled : BOOLEAN]]
        /\ \A w \in Workers : worker[w].pc = "gone"
    BY <1>2 DEF Init, Gone
  <1>5. nextTx \in 1..(MaxTx + 1) /\ stopped \subseteq Transactions
    BY Sorts DEF Init
  <1>6. TypeOK
    BY <1>1, <1>3, <1>4, <1>5, Sorts DEF Init, TypeOK, Statuses
  <1>7. HoldInv
    BY <1>3, <1>4 DEF HoldInv, Calling
  <1>8. OnceInv
    BY DEF Init, OnceInv
  <1>9. PendingInv /\ FoundInv
    BY <1>3 DEF Init, PendingInv, FoundInv, Stops
  <1>10. QED
    BY <1>6, <1>7, <1>8, <1>9 DEF IInv

----------------------------------------------------------------------------
(* How a step leaves the thread that takes it.                              *)

Others(t) == \A u \in Threads : u # t => thread'[u] = thread[u]

\* The thread is between two calls after the step, and does not hold the
\* connector because of it.
Rests(t) ==
    /\ thread' \in [Threads -> ThreadStates]
    /\ Others(t)
    /\ thread'[t].pc \in Between
    /\ ops' \in {ops, Unlocked(t)}

\* The thread is in a call after the step, with the connector that was free or
\* its own already.
Calls(t, pc) ==
    /\ thread' \in [Threads -> ThreadStates]
    /\ Others(t)
    /\ thread'[t].pc = pc /\ thread'[t].conn = Conn(t)
    /\ ops[Conn(t)] \in {None, t}
    /\ ops' = [ops EXCEPT ![Conn(t)] = t]

\* No worker begins to send.
WorkersKept ==
    \A w \in Workers : worker'[w].pc = "sending" =>
        /\ worker[w].pc = "sending"
        /\ worker'[w].conn = worker[w].conn /\ worker'[w].tx = worker[w].tx

LEMMA RestKeeps ==
  ASSUME TypeOK, HoldInv, NEW t \in Threads, Rests(t), WorkersKept,
         UNCHANGED transaction
  PROVE  HoldInv' /\ ops' \in [Connectors -> Threads \cup Workers \cup {None}]
  <1>1. Conn(t) \in Connectors
    BY DEF TypeOK, ThreadStates, Conn
  <1>2. thread'[t].pc \notin Calling
    BY DEF Rests, Between, Calling
  <1>3. \A c \in Connectors : ops'[c] = ops[c] \/ ops[c] = t
    BY <1>1 DEF Rests, Unlocked, TypeOK
  <1>4. ops' \in [Connectors -> Threads \cup Workers \cup {None}]
    BY <1>1 DEF Rests, Unlocked, TypeOK
  <1>5. ASSUME NEW u \in Threads
        PROVE  /\ thread'[u].pc \in Calling => ops'[thread'[u].conn] = u
               /\ thread'[u].pc \in {"startPreparing", "startCall"} =>
                     transaction'[thread'[u].conn] = 0
               /\ thread'[u].pc \in {"meterCall", "stopCall"} =>
                     thread'[u].own = transaction'[thread'[u].conn] /\ thread'[u].own # 0
    <2>1. CASE u = t
      BY <1>2, <2>1 DEF Calling
    <2>2. CASE u # t
      <3>1. thread'[u] = thread[u] /\ thread[u].conn \in Connectors
        BY <2>2 DEF Rests, Others, TypeOK, ThreadStates
      <3>2. QED
        BY <1>3, <2>2, <3>1 DEF HoldInv, Conn
    <2>3. QED
      BY <2>1, <2>2
  <1>6. ASSUME NEW w \in Workers, worker'[w].pc = "sending"
        PROVE  /\ ops'[worker'[w].conn] = w
               /\ worker'[w].tx = transaction'[worker'[w].conn]
    <2>1. worker[w].conn \in Connectors /\ w # t
      BY Sorts DEF TypeOK
    <2>2. QED
      BY <1>3, <1>6, <2>1 DEF HoldInv, WorkersKept
  <1>7. QED
    BY <1>4, <1>5, <1>6 DEF HoldInv, Conn

LEMMA CallKeeps ==
  ASSUME TypeOK, HoldInv, NEW t \in Threads, NEW pc \in Calling, Calls(t, pc), WorkersKept,
         UNCHANGED transaction,
         pc \in {"startPreparing", "startCall"} => transaction[Conn(t)] = 0,
         pc \in {"meterCall", "stopCall"} =>
            thread'[t].own = transaction[Conn(t)] /\ transaction[Conn(t)] # 0
  PROVE  HoldInv' /\ ops' \in [Connectors -> Threads \cup Workers \cup {None}]
  <1>1. Conn(t) \in Connectors
    BY DEF TypeOK, ThreadStates, Conn
  <1>2. \A c \in Connectors : ops'[c] = ops[c] \/ (c = Conn(t) /\ ops[c] \in {None, t})
    BY <1>1 DEF Calls, TypeOK
  <1>3. /\ ops' \in [Connectors -> Threads \cup Workers \cup {None}]
        /\ ops'[Conn(t)] = t
    BY <1>1 DEF Calls, TypeOK
  <1>4. ASSUME NEW u \in Threads
        PROVE  /\ thread'[u].pc \in Calling => ops'[thread'[u].conn] = u
               /\ thread'[u].pc \in {"startPreparing", "startCall"} =>
                     transaction'[thread'[u].conn] = 0
               /\ thread'[u].pc \in {"meterCall", "stopCall"} =>
                     thread'[u].own = transaction'[thread'[u].conn] /\ thread'[u].own # 0
    <2>1. CASE u = t
      BY <1>3, <2>1 DEF Calls
    <2>2. CASE u # t
      <3>1. thread'[u] = thread[u] /\ thread[u].conn \in Connectors /\ u # None
        BY <2>2, Sorts DEF Calls, Others, TypeOK, ThreadStates
      <3>2. QED
        BY <1>2, <2>2, <3>1 DEF HoldInv, Conn
    <2>3. QED
      BY <2>1, <2>2
  <1>5. ASSUME NEW w \in Workers, worker'[w].pc = "sending"
        PROVE  /\ ops'[worker'[w].conn] = w
               /\ worker'[w].tx = transaction'[worker'[w].conn]
    <2>1. worker[w].conn \in Connectors /\ w # t /\ w # None
      BY Sorts DEF TypeOK
    <2>2. QED
      BY <1>2, <1>5, <2>1 DEF HoldInv, WorkersKept
  <1>6. QED
    BY <1>3, <1>4, <1>5 DEF HoldInv, Conn

----------------------------------------------------------------------------
(* What the pieces of the operations do to the thread.                      *)

LEMMA NextConnType ==
  ASSUME TypeOK, NEW t \in Threads,
         NEW pc \in {"finish", "readStatus", "readMeter", "resetStop"}
  PROVE  NextConn(t, pc) \in ThreadStates /\ NextConn(t, pc).pc \in Between
  <1>1. thread[t] \in ThreadStates /\ Conn(t) \in Connectors
    BY DEF TypeOK, ThreadStates, Conn
  <1>2. CASE Conn(t) < N
    <2>1. Conn(t) + 1 \in Connectors
      BY <1>1, <1>2, Sorts DEF Connectors
    <2>2. NextConn(t, pc) = [thread[t] EXCEPT !.conn = Conn(t) + 1, !.pc = pc]
      BY <1>2 DEF NextConn, Conn
    <2>3. QED
      BY <1>1, <2>1, <2>2, Zenon DEF ThreadStates, Between
  <1>3. CASE ~(Conn(t) < N)
    BY <1>3, IdleType DEF NextConn, Between
  <1>4. QED
    BY <1>2, <1>3

LEMMA AfterType ==
  ASSUME TypeOK, NEW t \in Threads, NEW ok
  PROVE  After(t, ok) \in ThreadStates /\ After(t, ok).pc \in Between
  <1>1. After(t, ok) \in {NextConn(t, "finish"), NextConn(t, "readStatus"),
                          NextConn(t, "readMeter"), Idle}
    BY Zenon DEF After
  <1>2. Idle \in ThreadStates /\ Idle.pc \in Between
    BY IdleType DEF Between
  <1>3. QED
    BY <1>1, <1>2, NextConnType

LEMMA AfterStopType ==
  ASSUME TypeOK, NEW t \in Threads, NEW ok
  PROVE  AfterStop(t, ok) \in ThreadStates /\ AfterStop(t, ok).pc \in Between
  <1> DEFINE next == [NextConn(t, "resetStop") EXCEPT !.own = 0]
             boots == [thread[t] EXCEPT !.pc = "boot", !.conn = 1, !.own = 0]
             finishes == [Idle EXCEPT !.pc = "finish", !.conn = Conn(t)]
  <1>1. AfterStop(t, ok) \in {next, boots, finishes, Idle}
    <2>1. CASE Conn(t) < N
      BY <2>1, Zenon DEF AfterStop
    <2>2. CASE ~(Conn(t) < N)
      BY <2>2, Zenon DEF AfterStop
    <2>3. QED
      BY <2>1, <2>2
  <1>2. Idle \in ThreadStates /\ Idle.pc \in Between
    BY IdleType DEF Between
  <1>3. thread[t] \in ThreadStates /\ Conn(t) \in Connectors
    BY DEF TypeOK, ThreadStates, Conn
  <1>4. next \in ThreadStates /\ next.pc \in Between
    <2>1. PICK r \in ThreadStates : r = NextConn(t, "resetStop") /\ r.pc \in Between
      BY NextConnType
    <2>2. [r EXCEPT !.own = 0] \in ThreadStates /\ [r EXCEPT !.own = 0].pc = r.pc
      BY Sorts DEF ThreadStates
    <2>3. QED
      BY <2>1, <2>2
  <1>5. boots \in ThreadStates /\ boots.pc \in Between
    BY <1>3, Sorts, Zenon DEF ThreadStates, Between
  <1>6. finishes \in ThreadStates /\ finishes.pc \in Between
    <2>1. PICK r \in ThreadStates : r = Idle
      BY IdleType
    <2>2. /\ [r EXCEPT !.pc = "finish", !.conn = Conn(t)] \in ThreadStates
          /\ [r EXCEPT !.pc = "finish", !.conn = Conn(t)].pc = "finish"
      BY <1>3, Zenon DEF ThreadStates, Between
    <2>3. QED
      BY <2>1, <2>2 DEF Between
  <1> HIDE DEF next, boots, finishes
  <1>7. QED
    BY <1>1, <1>2, <1>4, <1>5, <1>6

LEMMA ReturnRests ==
  ASSUME TypeOK, NEW t \in Threads, NEW ok, Return(t, ok) \/ ReturnStop(t, ok)
  PROVE  Rests(t)
  <1>1. PICK r \in ThreadStates : r.pc \in Between /\ thread' = [thread EXCEPT ![t] = r]
    BY AfterType, AfterStopType DEF Return, ReturnStop
  <1>2. QED
    BY <1>1 DEF Return, ReturnStop, Rests, Others, TypeOK

LEMMA GoType ==
  ASSUME TypeOK, NEW t \in Threads, NEW pc \in Between \cup Calling, Go(t, pc)
  PROVE  /\ thread' \in [Threads -> ThreadStates] /\ Others(t)
         /\ thread'[t].pc = pc /\ thread'[t].conn = Conn(t)
  <1>1. PICK r \in ThreadStates : r = thread[t]
    BY DEF TypeOK
  <1>2. /\ [r EXCEPT !.pc = pc] \in ThreadStates /\ [r EXCEPT !.pc = pc].pc = pc
        /\ [r EXCEPT !.pc = pc].conn = r.conn
    BY DEF ThreadStates
  <1>3. thread' = [thread EXCEPT ![t] = [r EXCEPT !.pc = pc]]
    BY <1>1 DEF Go, TypeOK
  <1>4. QED
    BY <1>1, <1>2, <1>3 DEF TypeOK, Others, Conn

LEMMA GoStopType ==
  ASSUME TypeOK, NEW t \in Threads, NEW x \in 0..MaxTx, GoStop(t, x)
  PROVE  /\ thread' \in [Threads -> ThreadStates] /\ Others(t)
         /\ thread'[t].pc = "stopCancel" /\ thread'[t].conn = Conn(t)
         /\ thread'[t].own = x
  <1>1. PICK r \in ThreadStates : r = thread[t]
    BY DEF TypeOK
  <1> DEFINE q == [r EXCEPT !.pc = "stopCancel", !.own = x]
  <1>2. q \in ThreadStates /\ q.pc = "stopCancel" /\ q.conn = r.conn /\ q.own = x
    BY Zenon DEF ThreadStates, Between
  <1>3. thread' = [thread EXCEPT ![t] = q]
    BY <1>1, Zenon DEF GoStop, TypeOK
  <1> HIDE DEF q
  <1>4. QED
    BY <1>1, <1>2, <1>3, Zenon DEF TypeOK, Others, Conn

LEMMA DropRests ==
  ASSUME TypeOK, NEW t \in Threads, Drop(t), UNCHANGED ops
  PROVE  Rests(t)
  BY IdleType DEF TypeOK, Drop, Rests, Others, Between

LEMMA HeldCalls ==
  ASSUME TypeOK, NEW t \in Threads, NEW pc \in Calling, NEW s \in Statuses,
         Held(t, pc, s), ops[Conn(t)] \in {None, t}
  PROVE  Calls(t, pc)
  <1>1. PICK r \in ThreadStates : r = thread[t]
    BY DEF TypeOK
  <1> DEFINE q == [r EXCEPT !.pc = pc, !.target = s]
  <1>2. q \in ThreadStates /\ q.pc = pc /\ q.conn = r.conn
    BY Zenon DEF ThreadStates
  <1>3. thread' = [thread EXCEPT ![t] = q]
    BY <1>1, Zenon DEF Held, TypeOK
  <1> HIDE DEF q
  <1>4. /\ thread' \in [Threads -> ThreadStates] /\ Others(t)
        /\ thread'[t].pc = pc /\ thread'[t].conn = Conn(t)
    BY <1>1, <1>2, <1>3 DEF TypeOK, Others, Conn
  <1>5. QED
    BY <1>4 DEF Held, Lock, Calls

\* A thread that reads the transaction and sends it.
LEMMA ReadCalls ==
  ASSUME TypeOK, NEW t \in Threads, NEW pc \in Calling, Lock(t), free(t),
         thread' = [thread EXCEPT ![t].pc = pc, ![t].own = transaction[Conn(t)]]
  PROVE  Calls(t, pc) /\ thread'[t].own = transaction[Conn(t)]
  <1>1. transaction[Conn(t)] \in 0..MaxTx
    BY DEF TypeOK, ThreadStates, Conn
  <1>2. PICK r \in ThreadStates : r = thread[t]
    BY DEF TypeOK
  <1> DEFINE q == [r EXCEPT !.pc = pc, !.own = transaction[Conn(t)]]
  <1>3. q \in ThreadStates /\ q.pc = pc /\ q.conn = r.conn /\ q.own = transaction[Conn(t)]
    BY <1>1, Zenon DEF ThreadStates
  <1>4. thread' = [thread EXCEPT ![t] = q]
    BY <1>2, Zenon DEF TypeOK
  <1> HIDE DEF q
  <1>5. QED
    BY <1>2, <1>3, <1>4, Zenon DEF TypeOK, Lock, free, Calls, Others, Conn

LEMMA SpawnRests ==
  ASSUME TypeOK, NEW t \in Threads, NEW c \in Connectors, NEW s \in Statuses,
         NEW pc \in Between,
         NEW op \in {"command", "start", "remoteStop", "reset", "triggerStatus",
                     "triggerMeter"},
         Spawn(t, op, pc, c, s), UNCHANGED ops
  PROVE  Rests(t)
  <1>1. PICK r \in ThreadStates : r = Idle
    BY IdleType
  <1>2. /\ [r EXCEPT !.op = op, !.pc = pc, !.conn = c, !.target = s] \in ThreadStates
        /\ [r EXCEPT !.op = op, !.pc = pc, !.conn = c, !.target = s].pc = pc
    BY Zenon DEF ThreadStates
  <1>3. QED
    BY <1>1, <1>2 DEF TypeOK, Spawn, Rests, Others

----------------------------------------------------------------------------
(* The operations of a thread.                                              *)

LEMMA RestStep ==
  ASSUME TypeOK, HoldInv, NEW t \in Threads, Rests(t),
         status' \in [Connectors -> Statuses],
         UNCHANGED <<transaction, unavailableAfterStop, pendings, meters, server>>
  PROVE  TypeOK' /\ HoldInv'
  <1>1. WorkersKept
    BY DEF WorkersKept, meters
  <1>2. HoldInv' /\ ops' \in [Connectors -> Threads \cup Workers \cup {None}]
    BY <1>1, RestKeeps
  <1>3. QED
    BY <1>2 DEF TypeOK, Rests, pendings, meters, server

LEMMA CallStep ==
  ASSUME TypeOK, HoldInv, NEW t \in Threads, NEW pc \in Calling, Calls(t, pc),
         status' \in [Connectors -> Statuses],
         UNCHANGED <<transaction, unavailableAfterStop, pendings, meters, server>>,
         pc \in {"startPreparing", "startCall"} => transaction[Conn(t)] = 0,
         pc \in {"meterCall", "stopCall"} =>
            thread'[t].own = transaction[Conn(t)] /\ transaction[Conn(t)] # 0
  PROVE  TypeOK' /\ HoldInv'
  <1>1. WorkersKept
    BY DEF WorkersKept, meters
  <1>2. HoldInv' /\ ops' \in [Connectors -> Threads \cup Workers \cup {None}]
    BY <1>1, CallKeeps
  <1>3. QED
    BY <1>2 DEF TypeOK, Calls, pendings, meters, server

LEMMA NotifyType ==
  ASSUME TypeOK, NEW t \in Threads, Notify(t) \/ UNCHANGED status
  PROVE  status' \in [Connectors -> Statuses]
  BY DEF TypeOK, ThreadStates, Notify, Conn

\* The operations that a thread begins once the connector is free.
LEMMA BeginKeeps ==
  ASSUME TypeOK, HoldInv, NEW t \in Threads,
         plug(t) \/ unplug(t) \/ finish(t) \/ setStatus(t) \/ sendMeter(t) \/ startTransaction(t)
         \/ stopRead(t)
  PROVE  TypeOK' /\ HoldInv'
  <1> USE DEF connector
  <1>0. status \in [Connectors -> Statuses] /\ thread[t].target \in Statuses
    BY DEF TypeOK, ThreadStates
  <1>1. ASSUME NEW s \in Statuses, Held(t, "notify", s), free(t),
               UNCHANGED <<connector, pendings, meters, server>>
        PROVE  TypeOK' /\ HoldInv'
    <2>1. Calls(t, "notify")
      BY <1>1, HeldCalls DEF free, Calling
    <2>2. QED
      BY <1>0, <1>1, <2>1, CallStep DEF Calling
  <1>2. ASSUME Return(t, FALSE) \/ ReturnStop(t, FALSE),
               UNCHANGED <<connector, pendings, meters, server>>
        PROVE  TypeOK' /\ HoldInv'
    BY <1>0, <1>2, ReturnRests, RestStep, Zenon
  <1>3. {"Preparing", "Available", "Unavailable", "Charging"} \subseteq Statuses
    BY DEF Statuses
  <1>4. CASE plug(t)
    BY <1>1, <1>2, <1>3, <1>4, Zenon DEF plug
  <1>5. CASE unplug(t)
    BY <1>1, <1>2, <1>3, <1>5, Zenon DEF unplug
  <1>6. CASE finish(t)
    BY <1>1, <1>2, <1>3, <1>6, Zenon DEF finish
  <1>7. CASE setStatus(t)
    BY <1>0, <1>1, <1>7 DEF setStatus
  <1>8. ASSUME NEW pc \in {"meterCall", "stopCall"}, Lock(t), free(t),
               transaction[Conn(t)] # 0,
               thread' = [thread EXCEPT ![t].pc = pc, ![t].own = transaction[Conn(t)]],
               UNCHANGED <<connector, pendings, meters, server>>
        PROVE  TypeOK' /\ HoldInv'
    <2>1. pc \in Calling
      BY DEF Calling
    <2>2. Calls(t, pc) /\ thread'[t].own = transaction[Conn(t)]
      BY <1>8, <2>1, ReadCalls, Zenon
    <2>3. QED
      BY <1>0, <1>8, <2>1, <2>2, CallStep, Zenon
  <1>9. CASE sendMeter(t)
    BY <1>2, <1>8, <1>9, Zenon DEF sendMeter
  <1>10. CASE stopRead(t)
    BY <1>2, <1>8, <1>10, Zenon DEF stopRead
  <1>11. CASE startTransaction(t)
    <2>1. ASSUME NEW pc \in {"startPreparing", "startCall"}, NEW s \in Statuses,
                 Held(t, pc, s), transaction[Conn(t)] = 0
          PROVE  TypeOK' /\ HoldInv'
      <3>1. pc \in Calling /\ Calls(t, pc)
        BY <1>11, <2>1, HeldCalls DEF startTransaction, free, Calling
      <3>2. UNCHANGED <<connector, pendings, meters, server>>
        BY <1>11 DEF startTransaction
      <3>3. QED
        BY <1>0, <2>1, <3>1, <3>2, CallStep
    <2>2. QED
      BY <1>2, <1>3, <1>11, <2>1, Zenon DEF startTransaction
  <1>12. QED
    BY <1>4, <1>5, <1>6, <1>7, <1>9, <1>10, <1>11

\* The calls that leave the transactions alone, and the steps between calls.
LEMMA EndKeeps ==
  ASSUME TypeOK, HoldInv, NEW t \in Threads,
         setStatusLocked(t) \/ sendMeterLocked(t) \/ startPreparing(t) \/ startCharging(t)
         \/ stopFinishing(t) \/ startAutoRead(t) \/ autoOffDone(t)
         \/ executePendingRemoteStart(t) \/ executePendingRemoteStop(t) \/ resetStop(t)
         \/ boot(t) \/ triggeredStatus(t) \/ triggeredMeter(t)
  PROVE  TypeOK' /\ HoldInv'
  <1> USE DEF connector, jobState
  <1>0. /\ status \in [Connectors -> Statuses] /\ thread[t] \in ThreadStates
        /\ Conn(t) \in Connectors
    BY DEF TypeOK, ThreadStates, Conn
  <1>1. ASSUME NEW ok, Return(t, ok) \/ ReturnStop(t, ok), Notify(t) \/ UNCHANGED status,
               UNCHANGED <<transaction, unavailableAfterStop, pendings, meters, server>>
        PROVE  TypeOK' /\ HoldInv'
    BY <1>1, NotifyType, ReturnRests, RestStep
  <1>2. ASSUME NEW pc \in Between, Go(t, pc), UNCHANGED ops, Notify(t) \/ UNCHANGED status,
               UNCHANGED <<transaction, unavailableAfterStop, pendings, meters, server>>
        PROVE  TypeOK' /\ HoldInv'
    <2>1. Rests(t)
      BY <1>2, GoType DEF Rests
    <2>2. QED
      BY <1>2, <2>1, NotifyType, RestStep
  <1>3. ASSUME Drop(t), UNCHANGED jobState PROVE TypeOK' /\ HoldInv'
    BY <1>0, <1>3, DropRests, RestStep
  <1>4. ASSUME NEW r \in ThreadStates, r.pc \in Between,
               thread' = [thread EXCEPT ![t] = r], UNCHANGED jobState
        PROVE  TypeOK' /\ HoldInv'
    <2>1. Rests(t)
      BY <1>4 DEF TypeOK, Rests, Others
    <2>2. QED
      BY <1>0, <1>4, <2>1, RestStep
  <1>5. CASE setStatusLocked(t)
    BY <1>1, <1>5, Zenon DEF setStatusLocked
  <1>6. CASE sendMeterLocked(t)
    BY <1>1, <1>6 DEF sendMeterLocked
  <1>7. CASE startPreparing(t)
    <2>1. ASSUME Notify(t), Held(t, "startCall", "Charging") PROVE TypeOK' /\ HoldInv'
      <3>1. ops[Conn(t)] = t /\ transaction[Conn(t)] = 0
        BY <1>7 DEF startPreparing, At, HoldInv, Calling
      <3>2. "startCall" \in Calling /\ "Charging" \in Statuses
        BY DEF Calling, Statuses
      <3>3. Calls(t, "startCall")
        BY <2>1, <3>1, <3>2, HeldCalls
      <3>4. status' \in [Connectors -> Statuses]
        BY <2>1, NotifyType
      <3>5. UNCHANGED <<transaction, unavailableAfterStop, pendings, meters, server>>
        BY <1>7 DEF startPreparing
      <3>6. QED
        BY <3>1, <3>2, <3>3, <3>4, <3>5, CallStep
    <2>2. QED
      BY <1>1, <1>7, <2>1, Zenon DEF startPreparing
  <1>8. CASE startCharging(t)
    <2>1. "auto" \in Between
      BY DEF Between
    <2>2. QED
      BY <1>1, <1>2, <1>8, <2>1, Zenon DEF startCharging
  <1>9. CASE stopFinishing(t)
    BY <1>1, <1>9, Zenon DEF stopFinishing
  <1>10. CASE startAutoRead(t)
    <2>1. CASE transaction[Conn(t)] = 0
      BY <1>1, <1>10, <2>1, Zenon DEF startAutoRead, meters
    <2>2. CASE transaction[Conn(t)] # 0
      <3>1. /\ thread' = [thread EXCEPT ![t].pc = "autoCancel",
                                        ![t].own = transaction[Conn(t)]]
            /\ UNCHANGED jobState
        BY <1>10, <2>2 DEF startAutoRead, meters
      <3>2. PICK r \in ThreadStates : r = thread[t]
        BY <1>0
      <3> DEFINE q == [r EXCEPT !.pc = "autoCancel", !.own = transaction[Conn(t)]]
      <3>3. transaction[Conn(t)] \in 0..MaxTx
        BY <1>0 DEF TypeOK
      <3>4. q \in ThreadStates /\ q.pc \in Between
        BY <3>3, Zenon DEF ThreadStates, Between
      <3>5. thread' = [thread EXCEPT ![t] = q]
        BY <3>1, <3>2, Zenon DEF TypeOK
      <3> HIDE DEF q
      <3>6. QED
        BY <1>4, <3>1, <3>4, <3>5, Zenon
    <2>3. QED
      BY <2>1, <2>2
  <1>11. CASE autoOffDone(t)
    BY <1>1, <1>11, Zenon DEF autoOffDone, meters
  <1>12. CASE executePendingRemoteStart(t)
    <2>1. "start" \in Between
      BY DEF Between
    <2>2. QED
      BY <1>2, <1>3, <1>12, <2>1 DEF executePendingRemoteStart
  <1> DEFINE Found == {remoteStop[Conn(t)], transaction[Conn(t)]}
  <1>F. ASSUME NEW x \in Found, GoStop(t, x), UNCHANGED jobState PROVE TypeOK' /\ HoldInv'
    <2>1. x \in 0..MaxTx
      BY <1>0 DEF TypeOK
    <2>2. Rests(t)
      BY <1>F, <2>1, GoStopType DEF Rests, Between
    <2>3. QED
      BY <1>0, <1>F, <2>2, RestStep
  <1>13. CASE executePendingRemoteStop(t)
    BY <1>3, <1>F, <1>13 DEF executePendingRemoteStop
  <1>14. CASE resetStop(t)
    BY <1>4, <1>F, <1>14, AfterStopType, Zenon DEF resetStop
  <1>15. CASE boot(t)
    <2>1. "finish" \in Between
      BY DEF Between
    <2>2. QED
      BY <1>2, <1>3, <1>15, <2>1 DEF boot
  <1>16. CASE triggeredStatus(t)
    <2>1. PICK r \in ThreadStates : r = thread[t]
      BY <1>0
    <2> DEFINE q == [r EXCEPT !.pc = "setStatus", !.target = status[Conn(t)]]
    <2>2. q \in ThreadStates /\ q.pc \in Between
      BY <1>0, Zenon DEF ThreadStates, Between
    <2>3. thread' = [thread EXCEPT ![t] = q]
      BY <1>16, <2>1, Zenon DEF triggeredStatus, TypeOK
    <2> HIDE DEF q
    <2>4. QED
      BY <1>4, <1>16, <2>2, <2>3, Zenon DEF triggeredStatus
  <1>17. CASE triggeredMeter(t)
    <2>1. "meter" \in Between
      BY DEF Between
    <2>2. QED
      BY <1>2, <1>4, <1>17, <2>1, AfterType, Zenon DEF triggeredMeter
  <1>18. QED
    BY <1>5, <1>6, <1>7, <1>8, <1>9, <1>10, <1>11, <1>12, <1>13, <1>14, <1>15,
       <1>16, <1>17

WorkerStates ==
    [conn : Connectors, tx : 0..MaxTx, pc : {"gone", "ticking", "fired", "sending"},
     cancelled : BOOLEAN]

LEMMA WorkerTypes ==
  /\ Gone \in WorkerStates /\ Gone.pc = "gone"
  /\ \A r \in WorkerStates : \A p \in {"ticking", "fired", "sending"} :
        /\ [r EXCEPT !.pc = p] \in WorkerStates
        /\ [r EXCEPT !.pc = p].pc = p /\ [r EXCEPT !.pc = p].conn = r.conn
        /\ [r EXCEPT !.pc = p].tx = r.tx
  /\ \A r \in WorkerStates :
        /\ [r EXCEPT !.cancelled = TRUE] \in WorkerStates
        /\ [r EXCEPT !.cancelled = TRUE].pc = r.pc /\ [r EXCEPT !.cancelled = TRUE].conn = r.conn
        /\ [r EXCEPT !.cancelled = TRUE].tx = r.tx
  <1>1. Gone \in WorkerStates /\ Gone.pc = "gone"
    BY Sorts DEF Gone, WorkerStates
  <1>2. ASSUME NEW r \in WorkerStates, NEW p \in {"ticking", "fired", "sending"}
        PROVE  /\ [r EXCEPT !.pc = p] \in WorkerStates
               /\ [r EXCEPT !.pc = p].pc = p /\ [r EXCEPT !.pc = p].conn = r.conn
               /\ [r EXCEPT !.pc = p].tx = r.tx
    BY DEF WorkerStates
  <1>3. ASSUME NEW r \in WorkerStates, NEW b \in BOOLEAN
        PROVE  /\ [r EXCEPT !.cancelled = b] \in WorkerStates
               /\ [r EXCEPT !.cancelled = b].pc = r.pc /\ [r EXCEPT !.cancelled = b].conn = r.conn
               /\ [r EXCEPT !.cancelled = b].tx = r.tx
    BY DEF WorkerStates
  <1>4. TRUE \in BOOLEAN
    OBVIOUS
  <1>5. QED
    BY <1>1, <1>2, <1>3, <1>4, Zenon

\* StartTransaction is confirmed: the thread holds the connector, so no other
\* thread and no worker is in a call for it.
LEMMA StartKeeps ==
  ASSUME TypeOK, HoldInv, NEW t \in Threads, startAction(t)
  PROVE  TypeOK' /\ HoldInv'
  <1>0. Conn(t) \in Connectors /\ thread[t].pc = "startCall"
    BY DEF startAction, At, TypeOK, ThreadStates, Conn
  <1>1. ops[Conn(t)] = t
    BY <1>0 DEF HoldInv, Calling
  <1>2. CASE Return(t, FALSE) /\ UNCHANGED <<transaction, remoteStart, nextTx>>
    BY <1>2, ReturnRests, RestStep, Zenon DEF startAction, TypeOK, pendings, server
  <1>3. CASE ~(Return(t, FALSE) /\ UNCHANGED <<transaction, remoteStart, nextTx>>)
    <2>1. /\ nextTx <= MaxTx /\ nextTx' = nextTx + 1
          /\ transaction' = [transaction EXCEPT ![Conn(t)] = nextTx]
          /\ remoteStart' = [remoteStart EXCEPT ![Conn(t)] = FALSE]
          /\ Go(t, "startCharging") /\ ops' = ops
          /\ UNCHANGED <<status, unavailableAfterStop, remoteStop, meters, stopped>>
      BY <1>3, Zenon DEF startAction
    <2>2. /\ thread' \in [Threads -> ThreadStates] /\ Others(t)
          /\ thread'[t].pc = "startCharging" /\ thread'[t].conn = Conn(t)
      BY <2>1, GoType DEF Calling
    <2>3. /\ nextTx \in 0..MaxTx /\ nextTx' \in 1..(MaxTx + 1)
          /\ transaction' \in [Connectors -> 0..MaxTx]
          /\ \A c \in Connectors : c # Conn(t) => transaction'[c] = transaction[c]
      BY <1>0, <2>1, Sorts DEF TypeOK
    <2>4. remoteStart' \in [Connectors -> BOOLEAN]
      BY <1>0, <2>1 DEF TypeOK
    <2>5. TypeOK'
      BY <2>1, <2>2, <2>3, <2>4 DEF TypeOK, meters
    <2>6. ASSUME NEW u \in Threads
          PROVE  /\ thread'[u].pc \in Calling => ops'[thread'[u].conn] = u
                 /\ thread'[u].pc \in {"startPreparing", "startCall"} =>
                       transaction'[thread'[u].conn] = 0
                 /\ thread'[u].pc \in {"meterCall", "stopCall"} =>
                       thread'[u].own = transaction'[thread'[u].conn] /\ thread'[u].own # 0
      <3>1. CASE u = t
        BY <1>1, <2>1, <2>2, <3>1
      <3>2. CASE u # t
        <4>1. thread'[u] = thread[u] /\ thread[u].conn \in Connectors
          BY <2>2, <3>2 DEF Others, TypeOK, ThreadStates
        <4>2. thread[u].pc \in Calling => thread[u].conn # Conn(t)
          BY <1>1, <3>2 DEF HoldInv, Conn
        <4>3. QED
          BY <2>1, <2>3, <4>1, <4>2 DEF HoldInv, Conn, Calling
      <3>3. QED
        BY <3>1, <3>2
    <2>7. ASSUME NEW w \in Workers, worker'[w].pc = "sending"
          PROVE  /\ ops'[worker'[w].conn] = w
                 /\ worker'[w].tx = transaction'[worker'[w].conn]
      <3>1. worker' = worker /\ worker[w].conn \in Connectors /\ w # t
        BY <2>1, Sorts DEF TypeOK, meters
      <3>2. worker[w].conn # Conn(t)
        BY <1>1, <2>7, <3>1 DEF HoldInv
      <3>3. QED
        BY <2>1, <2>3, <2>7, <3>1, <3>2 DEF HoldInv
    <2>8. HoldInv'
      BY <2>6, <2>7 DEF HoldInv, Conn
    <2>9. QED
      BY <2>5, <2>8
  <1>4. QED
    BY <1>2, <1>3, Zenon

\* StopTransaction is confirmed, the same way.
LEMMA StopKeeps ==
  ASSUME TypeOK, HoldInv, NEW t \in Threads, stopAction(t)
  PROVE  TypeOK' /\ HoldInv'
  <1>0. Conn(t) \in Connectors /\ thread[t].pc = "stopCall" /\ thread[t] \in ThreadStates
    BY DEF stopAction, At, TypeOK, ThreadStates, Conn
  <1>1. ops[Conn(t)] = t /\ thread[t].own = transaction[Conn(t)] /\ thread[t].own # 0
    BY <1>0 DEF HoldInv, Calling
  <1>2. CASE ReturnStop(t, FALSE) /\ UNCHANGED <<transaction, remoteStop, stopped>>
    BY <1>2, ReturnRests, RestStep, Zenon DEF stopAction, TypeOK, pendings, server
  <1>3. CASE ~(ReturnStop(t, FALSE) /\ UNCHANGED <<transaction, remoteStop, stopped>>)
    <2>1. /\ transaction' = [transaction EXCEPT ![Conn(t)] = 0]
          /\ remoteStop' = [remoteStop EXCEPT ![Conn(t)] = 0]
          /\ stopped' = stopped \cup {thread[t].own}
          /\ thread' = [thread EXCEPT ![t].pc = "notifyStop", ![t].target = "Finishing",
                                      ![t].own = 0]
          /\ ops' = ops
          /\ UNCHANGED <<status, unavailableAfterStop, remoteStart, meters, nextTx>>
      BY <1>3, Zenon DEF stopAction
    <2>0. ops' = ops
      BY <2>1
    <2>2. /\ thread' \in [Threads -> ThreadStates] /\ Others(t)
          /\ thread'[t].pc = "notifyStop" /\ thread'[t].conn = Conn(t)
      <3>1. PICK r \in ThreadStates : r = thread[t]
        BY <1>0
      <3> DEFINE q == [r EXCEPT !.pc = "notifyStop", !.target = "Finishing", !.own = 0]
      <3>2. q \in ThreadStates /\ q.pc = "notifyStop" /\ q.conn = r.conn
        BY Sorts, Zenon DEF ThreadStates, Calling, Statuses
      <3>3. thread' = [thread EXCEPT ![t] = q]
        BY <2>1, <3>1, Zenon DEF TypeOK
      <3> HIDE DEF q
      <3>4. QED
        BY <3>1, <3>2, <3>3 DEF TypeOK, Others, Conn
    <2>3. /\ transaction' \in [Connectors -> 0..MaxTx]
          /\ remoteStop' \in [Connectors -> 0..MaxTx]
          /\ \A c \in Connectors : c # Conn(t) => transaction'[c] = transaction[c]
      BY <1>0, <2>1, Sorts DEF TypeOK
    <2>4. stopped' \subseteq Transactions
      <3>1. thread[t].own \in Transactions
        BY <1>0, <1>1, Sorts DEF ThreadStates, Transactions
      <3>2. QED
        BY <2>1, <3>1 DEF TypeOK
    <2>5. TypeOK'
      BY <2>1, <2>2, <2>3, <2>4 DEF TypeOK, meters
    <2>6. ASSUME NEW u \in Threads
          PROVE  /\ thread'[u].pc \in Calling => ops'[thread'[u].conn] = u
                 /\ thread'[u].pc \in {"startPreparing", "startCall"} =>
                       transaction'[thread'[u].conn] = 0
                 /\ thread'[u].pc \in {"meterCall", "stopCall"} =>
                       thread'[u].own = transaction'[thread'[u].conn] /\ thread'[u].own # 0
      <3>1. CASE u = t
        BY <1>1, <2>1, <2>2, <3>1
      <3>2. CASE u # t
        <4>1. thread'[u] = thread[u] /\ thread[u].conn \in Connectors
          BY <2>2, <3>2 DEF Others, TypeOK, ThreadStates
        <4>2. thread[u].pc \in Calling => thread[u].conn # Conn(t)
          BY <1>1, <3>2 DEF HoldInv, Conn
        <4>3. QED
          BY <2>0, <2>3, <4>1, <4>2 DEF HoldInv, Conn, Calling
      <3>3. QED
        BY <3>1, <3>2
    <2>7. ASSUME NEW w \in Workers, worker'[w].pc = "sending"
          PROVE  /\ ops'[worker'[w].conn] = w
                 /\ worker'[w].tx = transaction'[worker'[w].conn]
      <3>1. worker' = worker /\ worker[w].conn \in Connectors /\ w # t
        BY <2>1, Sorts DEF TypeOK, meters
      <3>2. worker[w].conn # Conn(t)
        BY <1>1, <2>7, <3>1 DEF HoldInv
      <3>3. QED
        BY <2>1, <2>3, <2>7, <3>1, <3>2 DEF HoldInv
    <2>8. HoldInv'
      BY <2>6, <2>7 DEF HoldInv, Conn
    <2>9. QED
      BY <2>5, <2>8
  <1>4. QED
    BY <1>2, <1>3, Zenon

\* A thread that cancels a worker or starts one.
LEMMA AutoKeeps ==
  ASSUME TypeOK, HoldInv, NEW t \in Threads,
         stopTransaction(t) \/ startAutoCancel(t) \/ autoOff(t) \/ startAuto(t)
  PROVE  TypeOK' /\ HoldInv'
  <1> USE DEF connector
  <1>0. /\ worker \in [Workers -> WorkerStates] /\ thread[t] \in ThreadStates
        /\ Conn(t) \in Connectors /\ auto \in [Connectors -> Workers \cup {None}]
        /\ thread[t].own \in 0..MaxTx
    BY DEF TypeOK, WorkerStates, ThreadStates, Conn
  <1>1. ASSUME Rests(t), WorkersKept, worker' \in [Workers -> WorkerStates],
               auto' \in [Connectors -> Workers \cup {None}],
               UNCHANGED <<connector, pendings, server>>
        PROVE  TypeOK' /\ HoldInv'
    <2>1. HoldInv' /\ ops' \in [Connectors -> Threads \cup Workers \cup {None}]
      BY <1>1, RestKeeps
    <2>2. QED
      BY <1>1, <2>1 DEF TypeOK, Rests, WorkerStates, pendings, server
  <1>2. ASSUME NEW pc \in Between, stopAutoAndWait(t, pc) PROVE TypeOK' /\ HoldInv'
    <2> DEFINE v == auto[Conn(t)]
    <2>1. v \in Workers \cup {None}
      BY <1>0
    <2>2. /\ auto' = [auto EXCEPT ![Conn(t)] = None]
          /\ worker' = IF v = None THEN worker ELSE [worker EXCEPT ![v].cancelled = TRUE]
          /\ thread' = [thread EXCEPT ![t].pc = pc, ![t].wait = v]
          /\ UNCHANGED <<connector, pendings, ops, server>>
      BY <1>2 DEF stopAutoAndWait
    <2> HIDE DEF v
    <2>3. auto' \in [Connectors -> Workers \cup {None}]
      BY <1>0, <2>2
    <2>4. worker' \in [Workers -> WorkerStates] /\ WorkersKept
      <3>1. CASE v = None
        BY <1>0, <2>2, <3>1 DEF WorkersKept
      <3>2. CASE v # None
        <4>1. PICK r \in WorkerStates : r = worker[v]
          BY <1>0, <2>1, <3>2
        <4> DEFINE q == [r EXCEPT !.cancelled = TRUE]
        <4>2. q \in WorkerStates /\ q.pc = r.pc /\ q.conn = r.conn /\ q.tx = r.tx
          BY WorkerTypes
        <4>3. worker' = [worker EXCEPT ![v] = q]
          BY <1>0, <2>1, <2>2, <3>2, <4>1
        <4> HIDE DEF q
        <4>4. QED
          BY <1>0, <2>1, <3>2, <4>1, <4>2, <4>3 DEF WorkersKept
      <3>3. QED
        BY <3>1, <3>2
    <2>5. Rests(t)
      <3>1. PICK r \in ThreadStates : r = thread[t]
        BY <1>0
      <3> DEFINE q == [r EXCEPT !.pc = pc, !.wait = v]
      <3>2. q \in ThreadStates /\ q.pc = pc
        BY <2>1, Zenon DEF ThreadStates
      <3>3. thread' = [thread EXCEPT ![t] = q]
        BY <2>2, <3>1, Zenon DEF TypeOK
      <3> HIDE DEF q
      <3>4. QED
        BY <2>2, <3>2, <3>3, Zenon DEF TypeOK, Rests, Others
    <2>6. QED
      BY <1>1, <2>2, <2>3, <2>4, <2>5
  <1>3. {"stop", "install", "offDone"} \subseteq Between
    BY DEF Between
  <1>4. CASE stopTransaction(t) \/ startAutoCancel(t) \/ autoOff(t)
    BY <1>2, <1>3, <1>4 DEF stopTransaction, startAutoCancel, autoOff
  <1>5. CASE startAuto(t)
    <2> DEFINE gone == {w \in Workers : worker[w].pc = "gone"}
               v == CHOOSE w \in gone : TRUE
               q == [conn |-> Conn(t), tx |-> thread[t].own, pc |-> "ticking",
                     cancelled |-> FALSE]
    <2>1. Rests(t) /\ UNCHANGED <<connector, pendings, server>>
      BY <1>5, ReturnRests, Zenon DEF startAuto
    <2>2. CASE gone = {}
      <3>1. worker' = worker /\ auto' = [auto EXCEPT ![Conn(t)] = None]
        BY <1>5, <2>2 DEF startAuto
      <3>2. QED
        BY <1>0, <1>1, <2>1, <3>1 DEF WorkersKept
    <2>3. CASE gone # {}
      <3>1. v \in Workers
        BY <2>3
      <3>2. q \in WorkerStates /\ q.pc = "ticking"
        BY <1>0 DEF WorkerStates
      <3>3. worker' = [worker EXCEPT ![v] = q] /\ auto' = [auto EXCEPT ![Conn(t)] = v]
        BY <1>5, <2>3 DEF startAuto
      <3> HIDE DEF v, q
      <3>4. QED
        BY <1>0, <1>1, <2>1, <3>1, <3>2, <3>3 DEF WorkersKept
    <2>4. QED
      BY <2>2, <2>3
  <1>6. QED
    BY <1>4, <1>5

LEMMA OperateKeeps ==
  ASSUME TypeOK, HoldInv, NEW t \in Threads, Operate(t)
  PROVE  TypeOK' /\ HoldInv'
  BY BeginKeeps, EndKeeps, StartKeeps, StopKeeps, AutoKeeps DEF Operate

----------------------------------------------------------------------------
(* The workers and the requests.                                            *)

LEMMA ClearAutoKeeps ==
  ASSUME TypeOK, NEW v \in Workers, clearAuto(v)
  PROVE  /\ worker' = [worker EXCEPT ![v] = Gone]
         /\ worker' \in [Workers -> WorkerStates]
         /\ auto' \in [Connectors -> Workers \cup {None}]
         /\ thread' \in [Threads -> ThreadStates]
         /\ \A t \in Threads : /\ thread'[t].pc = thread[t].pc
                               /\ thread'[t].conn = thread[t].conn
                               /\ thread'[t].own = thread[t].own
  <1>1. worker' \in [Workers -> WorkerStates]
    BY WorkerTypes DEF TypeOK, clearAuto, WorkerStates
  <1>2. auto' \in [Connectors -> Workers \cup {None}]
    BY DEF TypeOK, clearAuto
  <1>3. ASSUME NEW t \in Threads
        PROVE  /\ thread'[t] \in ThreadStates
               /\ thread'[t].pc = thread[t].pc /\ thread'[t].conn = thread[t].conn
               /\ thread'[t].own = thread[t].own
    <2>1. PICK r \in ThreadStates : r = thread[t]
      BY DEF TypeOK
    <2> DEFINE q == [r EXCEPT !.wait = None]
    <2>2. q \in ThreadStates /\ q.pc = r.pc /\ q.conn = r.conn /\ q.own = r.own
      BY DEF ThreadStates
    <2>3. thread'[t] \in {q, r}
      BY <2>1 DEF clearAuto
    <2> HIDE DEF q
    <2>4. QED
      BY <2>1, <2>2, <2>3
  <1>4. thread' = [t \in Threads |-> thread'[t]]
    BY DEF clearAuto
  <1>5. QED
    BY <1>1, <1>2, <1>3, <1>4 DEF clearAuto

\* Worker v stops sending, or moves without sending.
LEMMA WorkerRests ==
  ASSUME TypeOK, HoldInv, NEW v \in Workers, NEW r \in WorkerStates, r.pc # "sending",
         worker' = [worker EXCEPT ![v] = r],
         \A c \in Connectors : ops'[c] = ops[c] \/ ops[c] = v,
         \A t \in Threads : /\ thread'[t].pc = thread[t].pc
                            /\ thread'[t].conn = thread[t].conn
                            /\ thread'[t].own = thread[t].own,
         UNCHANGED transaction
  PROVE  HoldInv'
  <1>1. ASSUME NEW t \in Threads, thread'[t].pc \in Calling PROVE ops'[thread'[t].conn] = t
    <2>1. thread[t].conn \in Connectors /\ t # v
      BY Sorts DEF TypeOK, ThreadStates
    <2>2. QED
      BY <1>1, <2>1 DEF HoldInv, Conn
  <1>2. ASSUME NEW w \in Workers, worker'[w].pc = "sending"
        PROVE  /\ ops'[worker'[w].conn] = w
               /\ worker'[w].tx = transaction'[worker'[w].conn]
    <2>1. w # v /\ worker'[w] = worker[w]
      BY <1>2 DEF TypeOK
    <2>2. worker[w].conn \in Connectors
      BY DEF TypeOK
    <2>3. QED
      BY <1>2, <2>1, <2>2 DEF HoldInv
  <1>3. QED
    BY <1>1, <1>2 DEF HoldInv, Conn

LEMMA MeterKeeps ==
  ASSUME TypeOK, HoldInv, NEW v \in Workers, Meter(v)
  PROVE  TypeOK' /\ HoldInv'
  <1> USE DEF connector, pendings, server
  <1>0. worker \in [Workers -> WorkerStates] /\ worker[v] \in WorkerStates
        /\ worker[v].conn \in Connectors
    BY DEF TypeOK, WorkerStates
  <1>1. ASSUME clearAuto(v), \A c \in Connectors : ops'[c] = ops[c] \/ ops[c] = v,
               ops' \in [Connectors -> Threads \cup Workers \cup {None}],
               UNCHANGED <<connector, pendings, server>>
        PROVE  TypeOK' /\ HoldInv'
    <2>1. HoldInv'
      BY <1>1, ClearAutoKeeps, WorkerTypes, WorkerRests
    <2>2. QED
      BY <1>1, <2>1, ClearAutoKeeps DEF TypeOK, WorkerStates
  <1>2. ASSUME NEW p \in {"ticking", "fired", "sending"},
               worker' = [worker EXCEPT ![v].pc = p]
        PROVE  \E r \in WorkerStates : /\ worker' = [worker EXCEPT ![v] = r]
                                       /\ worker' \in [Workers -> WorkerStates]
                                       /\ r.pc = p /\ r.conn = worker[v].conn
                                       /\ r.tx = worker[v].tx
    <2>1. PICK r \in WorkerStates : r = worker[v]
      BY <1>0
    <2> DEFINE q == [r EXCEPT !.pc = p]
    <2>2. q \in WorkerStates /\ q.pc = p /\ q.conn = r.conn /\ q.tx = r.tx
      BY WorkerTypes, Zenon
    <2>3. worker' = [worker EXCEPT ![v] = q]
      BY <1>0, <1>2, <2>1
    <2> HIDE DEF q
    <2>4. QED
      BY <1>0, <2>1, <2>2, <2>3, Zenon
  <1>3. ASSUME NEW p \in {"ticking", "fired"}, worker' = [worker EXCEPT ![v].pc = p],
               \A c \in Connectors : ops'[c] = ops[c] \/ ops[c] = v,
               ops' \in [Connectors -> Threads \cup Workers \cup {None}],
               UNCHANGED <<auto, thread, connector, pendings, server>>
        PROVE  TypeOK' /\ HoldInv'
    <2>1. PICK r \in WorkerStates : /\ worker' = [worker EXCEPT ![v] = r]
                                    /\ worker' \in [Workers -> WorkerStates] /\ r.pc = p
      BY <1>2, <1>3, Zenon
    <2>2. HoldInv'
      BY <1>3, <2>1, WorkerRests, Zenon
    <2>3. QED
      BY <1>3, <2>1, <2>2 DEF TypeOK, WorkerStates
  <1>4. ops \in [Connectors -> Threads \cup Workers \cup {None}]
    BY DEF TypeOK
  <1>5. CASE WorkerSelect(v)
    BY <1>1, <1>3, <1>4, <1>5 DEF WorkerSelect
  <1>6. CASE sendAutomaticMeter(v)
    <2> DEFINE c == worker[v].conn
    <2>1. UNCHANGED <<connector, pendings, server>> /\ ops[c] = None
      BY <1>6 DEF sendAutomaticMeter
    <2>2. CASE clearAuto(v) /\ UNCHANGED ops
      BY <1>1, <1>4, <2>1, <2>2
    <2>3. CASE /\ worker' = [worker EXCEPT ![v].pc = "ticking"]
               /\ UNCHANGED <<ops, auto, thread>>
      BY <1>3, <1>4, <2>1, <2>3
    <2>4. CASE /\ transaction[c] = worker[v].tx
               /\ ops' = [ops EXCEPT ![c] = v]
               /\ worker' = [worker EXCEPT ![v].pc = "sending"]
               /\ UNCHANGED <<auto, thread>>
      <3>1. PICK r \in WorkerStates : /\ worker' = [worker EXCEPT ![v] = r]
                                      /\ worker' \in [Workers -> WorkerStates]
                                      /\ r.conn = c /\ r.tx = worker[v].tx
        BY <1>2, <2>4, Zenon
      <3>2. ops' \in [Connectors -> Threads \cup Workers \cup {None}]
        BY <1>0, <1>4, <2>4
      <3>3. \A d \in Connectors : ops'[d] = ops[d] \/ ops[d] = None
        BY <1>0, <1>4, <2>1, <2>4
      <3>4. ASSUME NEW t \in Threads, thread'[t].pc \in Calling
            PROVE  ops'[thread'[t].conn] = t
        <4>1. thread[t].conn \in Connectors /\ t # None
          BY Sorts DEF TypeOK, ThreadStates
        <4>2. QED
          BY <2>4, <3>3, <3>4, <4>1 DEF HoldInv, Conn
      <3>5. ASSUME NEW w \in Workers, worker'[w].pc = "sending"
            PROVE  /\ ops'[worker'[w].conn] = w
                   /\ worker'[w].tx = transaction'[worker'[w].conn]
        <4>1. CASE w = v
          <5>1. worker'[w] = r
            BY <1>0, <3>1, <4>1
          <5>2. QED
            BY <1>0, <1>4, <2>1, <2>4, <3>1, <4>1, <5>1
        <4>2. CASE w # v
          <5>1. worker'[w] = worker[w] /\ worker[w].conn \in Connectors /\ w # None
            BY <1>0, <3>1, <4>2, Sorts DEF WorkerStates
          <5>2. QED
            BY <2>1, <3>3, <3>5, <5>1 DEF HoldInv
        <4>3. QED
          BY <4>1, <4>2
      <3>6. HoldInv'
        BY <2>1, <2>4, <3>4, <3>5 DEF HoldInv, Conn
      <3>7. QED
        BY <2>1, <2>4, <3>1, <3>2, <3>6 DEF TypeOK, WorkerStates
    <2>5. QED
      BY <1>6, <2>2, <2>3, <2>4 DEF sendAutomaticMeter
  <1>7. CASE WorkerSent(v)
    <2> DEFINE c == worker[v].conn
    <2>1. UNCHANGED <<connector, pendings, server>> /\ ops' = [ops EXCEPT ![c] = None]
      BY <1>7 DEF WorkerSent
    <2>2. ops[c] = v
      BY <1>7 DEF WorkerSent, HoldInv
    <2>3. /\ ops' \in [Connectors -> Threads \cup Workers \cup {None}]
          /\ \A d \in Connectors : ops'[d] = ops[d] \/ ops[d] = v
      BY <1>0, <1>4, <2>1, <2>2
    <2>4. CASE clearAuto(v)
      BY <1>1, <2>1, <2>3, <2>4
    <2>5. CASE worker' = [worker EXCEPT ![v].pc = "ticking"] /\ UNCHANGED <<auto, thread>>
      BY <1>3, <2>1, <2>3, <2>5
    <2>6. QED
      BY <1>7, <2>4, <2>5 DEF WorkerSent
  <1>8. QED
    BY <1>5, <1>6, <1>7 DEF Meter

LEMMA RequestKeeps ==
  ASSUME TypeOK, HoldInv, Request
  PROVE  TypeOK' /\ HoldInv'
  <1> USE DEF connector, jobState
  <1>0. /\ status \in [Connectors -> Statuses] /\ 1 \in Connectors
        /\ {"Available", "Unavailable"} \subseteq Statuses
        /\ Console \in Threads /\ Jobs \subseteq Threads
    BY Sorts DEF TypeOK, Statuses, Threads
  <1>1. ASSUME NEW t \in Threads, Rests(t), UNCHANGED jobState PROVE TypeOK' /\ HoldInv'
    BY <1>0, <1>1, RestStep
  \* The pending requests change and a job may be started.
  <1>2. ASSUME (\E t \in Threads : Rests(t)) \/ UNCHANGED thread, UNCHANGED ops,
               remoteStart' \in [Connectors -> BOOLEAN],
               remoteStop' \in [Connectors -> 0..MaxTx],
               UNCHANGED <<connector, meters, server>>
        PROVE  TypeOK' /\ HoldInv'
    <2>1. HoldInv' /\ thread' \in [Threads -> ThreadStates]
      <3>1. WorkersKept
        BY <1>2 DEF WorkersKept, meters
      <3>2. CASE UNCHANGED thread
        BY <1>2, <3>2 DEF HoldInv, Conn, TypeOK, meters
      <3>3. ASSUME NEW t \in Threads, Rests(t)
            PROVE  HoldInv' /\ thread' \in [Threads -> ThreadStates]
        BY <1>2, <3>1, <3>3, RestKeeps DEF Rests
      <3>4. QED
        BY <1>2, <3>2, <3>3
    <2>2. QED
      BY <1>2, <2>1 DEF TypeOK, meters, server
  <1>3. ASSUME NEW c \in Connectors, OnRemoteStartTransaction(c) PROVE TypeOK' /\ HoldInv'
    <2>1. remoteStart' \in [Connectors -> BOOLEAN]
      BY <1>3 DEF OnRemoteStartTransaction, TypeOK
    <2>2. remoteStop' \in [Connectors -> 0..MaxTx] /\ UNCHANGED <<ops, connector, meters, server>>
      BY <1>3 DEF OnRemoteStartTransaction, TypeOK
    <2>3. (\E t \in Threads : Rests(t)) \/ UNCHANGED thread
      <3>1. "pendingStart" \in Between
        BY DEF Between
      <3>2. QED
        BY <1>0, <1>3, <2>2, <3>1, SpawnRests DEF OnRemoteStartTransaction
    <2>4. QED
      BY <1>2, <2>1, <2>2, <2>3
  <1>4. ASSUME NEW c \in Connectors, OnRemoteStopTransaction(c) PROVE TypeOK' /\ HoldInv'
    <2>1. remoteStop' \in [Connectors -> 0..MaxTx]
      BY <1>4 DEF OnRemoteStopTransaction, TypeOK
    <2>2. remoteStart' \in [Connectors -> BOOLEAN] /\ UNCHANGED <<ops, connector, meters, server>>
      BY <1>4 DEF OnRemoteStopTransaction, TypeOK
    <2>3. (\E t \in Threads : Rests(t)) \/ UNCHANGED thread
      <3>1. "pendingStop" \in Between
        BY DEF Between
      <3>2. QED
        BY <1>0, <1>4, <2>2, <3>1, SpawnRests DEF OnRemoteStopTransaction
    <2>4. QED
      BY <1>2, <2>1, <2>2, <2>3
  <1>5. CASE OnReset
    <2>1. "resetStop" \in Between
      BY DEF Between
    <2>2. PICK t \in Threads : Rests(t)
      BY <1>0, <1>5, <2>1, SpawnRests DEF OnReset
    <2>3. QED
      BY <1>1, <1>5, <2>2 DEF OnReset
  <1>6. CASE OnTriggerMessage
    <2>1. {"readStatus", "readMeter"} \subseteq Between
      BY DEF Between
    <2>2. PICK t \in Threads : Rests(t)
      BY <1>0, <1>6, <2>1, SpawnRests DEF OnTriggerMessage
    <2>3. QED
      BY <1>1, <1>6, <2>2 DEF OnTriggerMessage
  <1>7. ASSUME NEW c \in Connectors, executeConnectorCommand(c) PROVE TypeOK' /\ HoldInv'
    <2>1. PICK command \in DOMAIN firstStep :
             Spawn(Console, IF command \in {"start", "remoteStop"} THEN command ELSE "command",
                   firstStep[command], c, "Available")
      BY <1>7 DEF executeConnectorCommand
    <2>2. firstStep[command] \in Between
      BY DEF firstStep, Between
    <2>3. (IF command \in {"start", "remoteStop"} THEN command ELSE "command")
             \in {"command", "start", "remoteStop", "reset", "triggerStatus", "triggerMeter"}
      OBVIOUS
    <2>4. Rests(Console)
      BY <1>0, <1>7, <2>1, <2>2, <2>3, SpawnRests DEF executeConnectorCommand
    <2>5. QED
      BY <1>0, <1>1, <1>7, <2>4 DEF executeConnectorCommand
  <1>8. ASSUME NEW c \in Connectors, statusCommand(c) PROVE TypeOK' /\ HoldInv'
    <2>1. "setStatus" \in Between
      BY DEF Between
    <2>2. Rests(Console)
      BY <1>0, <1>8, <2>1, SpawnRests DEF statusCommand
    <2>3. QED
      BY <1>0, <1>1, <1>8, <2>2 DEF statusCommand
  <1>9. ASSUME NEW targets \in SUBSET Connectors, NEW inoperative \in BOOLEAN,
               OnChangeAvailability(targets, inoperative)
        PROVE  TypeOK' /\ HoldInv'
    <2>1. UNCHANGED <<status, transaction, pendings, ops, meters, server>>
      BY <1>9, Zenon DEF OnChangeAvailability
    <2>2. unavailableAfterStop' \in [Connectors -> BOOLEAN]
      BY <1>9, Zenon DEF OnChangeAvailability, TypeOK
    <2>3. /\ thread' \in [Threads -> ThreadStates]
          /\ \A t \in Threads : thread'[t] = thread[t] \/ thread'[t].pc = "setStatus"
      <3> DEFINE s == IF inoperative THEN "Unavailable" ELSE "Available"
      <3>1. CASE UNCHANGED thread
        BY <3>1 DEF TypeOK
      <3>2. CASE ~(UNCHANGED thread)
        <4>1. PICK job \in [targets -> Jobs] :
                thread' = [t \in Threads |->
                     IF \E c \in targets : job[c] = t
                     THEN [Idle EXCEPT !.op = "command", !.pc = "setStatus",
                              !.conn = CHOOSE c \in targets : job[c] = t, !.target = s]
                     ELSE thread[t]]
          BY <1>9, <3>2, Zenon DEF OnChangeAvailability
        <4>2. s \in Statuses
          BY <1>0
        <4> HIDE DEF s
        <4>3. ASSUME NEW t \in Threads
              PROVE  /\ thread'[t] \in ThreadStates
                     /\ thread'[t] = thread[t] \/ thread'[t].pc = "setStatus"
          <5>1. CASE \E c \in targets : job[c] = t
            <6> DEFINE d == CHOOSE c \in targets : job[c] = t
            <6>1. d \in Connectors
              BY <5>1
            <6>2. thread'[t] = [Idle EXCEPT !.op = "command", !.pc = "setStatus",
                                            !.conn = d, !.target = s]
              BY <4>1, <5>1, Zenon
            <6> HIDE DEF d
            <6>3. PICK r \in ThreadStates : r = Idle
              BY IdleType
            <6> DEFINE q == [r EXCEPT !.op = "command", !.pc = "setStatus",
                                      !.conn = d, !.target = s]
            <6>4. q \in ThreadStates /\ q.pc = "setStatus"
              BY <4>2, <6>1, Zenon DEF ThreadStates, Between
            <6>5. QED
              BY <6>2, <6>3, <6>4
          <5>2. CASE ~\E c \in targets : job[c] = t
            BY <4>1, <5>2, Zenon DEF TypeOK
          <5>3. QED
            BY <5>1, <5>2
        <4>4. thread' = [t \in Threads |-> thread'[t]]
          BY <4>1, Zenon
        <4>5. QED
          BY <4>3, <4>4
      <3>3. QED
        BY <3>1, <3>2
    <2>4. HoldInv'
      BY <2>1, <2>3 DEF HoldInv, Conn, Calling, meters
    <2>5. QED
      BY <2>1, <2>2, <2>3, <2>4 DEF TypeOK, pendings, meters, server
  <1>10. QED
    BY <1>3, <1>4, <1>5, <1>6, <1>7, <1>8, <1>9, Zenon DEF Request

----------------------------------------------------------------------------
(* Transactions and pending requests.                                       *)

LEMMA OnceKeeps ==
  ASSUME TypeOK, HoldInv, OnceInv, PendingInv, Next
  PROVE  OnceInv' /\ PendingInv'
  <1> USE DEF connector, pendings, server, jobState
  <1>1. CASE UNCHANGED <<transaction, pendings, server>>
    BY <1>1 DEF OnceInv, PendingInv
  <1>2. ASSUME NEW t \in Threads, startAction(t)
        PROVE  OnceInv' /\ PendingInv'
    <2>1. Conn(t) \in Connectors /\ transaction[Conn(t)] = 0 /\ nextTx \in Int
      BY <1>2 DEF startAction, At, HoldInv, TypeOK, ThreadStates, Conn
    <2>2. CASE UNCHANGED <<transaction, remoteStart, nextTx>>
      BY <1>1, <1>2, <2>2 DEF startAction
    <2>3. CASE ~UNCHANGED <<transaction, remoteStart, nextTx>>
      <3>1. /\ nextTx' = nextTx + 1
            /\ transaction' = [transaction EXCEPT ![Conn(t)] = nextTx]
            /\ remoteStart' = [remoteStart EXCEPT ![Conn(t)] = FALSE]
            /\ UNCHANGED <<remoteStop, stopped>>
        BY <1>2, <2>3, Zenon DEF startAction
      <3>2. OnceInv'
        BY <2>1, <3>1 DEF OnceInv, TypeOK, Transactions
      <3>3. PendingInv'
        BY <2>1, <3>1 DEF PendingInv, TypeOK
      <3>4. QED
        BY <3>2, <3>3
    <2>4. QED
      BY <2>2, <2>3
  <1>3. ASSUME NEW t \in Threads, stopAction(t)
        PROVE  OnceInv' /\ PendingInv'
    <2>1. /\ Conn(t) \in Connectors /\ thread[t].own = transaction[Conn(t)]
          /\ thread[t].own # 0
      BY <1>3 DEF stopAction, At, HoldInv, TypeOK, ThreadStates, Conn
    <2>2. CASE UNCHANGED <<transaction, remoteStop, stopped>>
      BY <1>1, <1>3, <2>2 DEF stopAction
    <2>3. CASE ~UNCHANGED <<transaction, remoteStop, stopped>>
      <3>1. /\ transaction' = [transaction EXCEPT ![Conn(t)] = 0]
            /\ remoteStop' = [remoteStop EXCEPT ![Conn(t)] = 0]
            /\ stopped' = stopped \cup {thread[t].own}
            /\ UNCHANGED <<remoteStart, nextTx>>
        BY <1>3, <2>3, Zenon DEF stopAction
      <3>2. OnceInv'
        BY <2>1, <3>1 DEF OnceInv, TypeOK
      <3>3. PendingInv'
        BY <2>1, <3>1 DEF PendingInv, TypeOK
      <3>4. QED
        BY <3>2, <3>3
    <2>4. QED
      BY <2>2, <2>3
  <1>4. ASSUME NEW c \in Connectors, OnRemoteStartTransaction(c)
        PROVE  OnceInv' /\ PendingInv'
    BY <1>4 DEF OnRemoteStartTransaction, remoteStartEligible, OnceInv,
                PendingInv, TypeOK
  <1>5. ASSUME NEW c \in Connectors, OnRemoteStopTransaction(c)
        PROVE  OnceInv' /\ PendingInv'
    BY <1>5 DEF OnRemoteStopTransaction, OnceInv, PendingInv, TypeOK
  <1>6. ASSUME NEW t \in Threads, Operate(t), ~startAction(t), ~stopAction(t)
        PROVE  UNCHANGED <<transaction, pendings, server>>
    BY <1>6, Zenon DEF Operate, plug, unplug, finish, setStatus, setStatusLocked, sendMeter,
       sendMeterLocked, startTransaction, startPreparing, startCharging, stopTransaction,
       stopRead, stopFinishing, startAutoRead, startAutoCancel, startAuto, autoOff,
       autoOffDone, stopAutoAndWait, executePendingRemoteStart,
       executePendingRemoteStop, resetStop, boot, triggeredStatus, triggeredMeter
  <1>7. ASSUME NEW w \in Workers, Meter(w) PROVE UNCHANGED <<transaction, pendings, server>>
    BY <1>7 DEF Meter, WorkerSelect, sendAutomaticMeter, WorkerSent
  <1>8. CASE Request
    BY <1>1, <1>4, <1>5, <1>8, Zenon DEF Request, OnReset, OnChangeAvailability,
       OnTriggerMessage, executeConnectorCommand, statusCommand
  <1>9. QED
    BY <1>1, <1>2, <1>3, <1>6, <1>7, <1>8 DEF Next

----------------------------------------------------------------------------
(* The transaction that a job has found to stop.                            *)

\* The thread does not come to a stop with the step.
Away(t) == Others(t) /\ thread'[t].pc \notin Stops

\* The transactions that the threads have found stay the ones of their
\* connectors, or are stopped.
Follow ==
    /\ stopped \subseteq stopped'
    /\ \A c \in Connectors : \/ transaction'[c] = transaction[c]
                              \/ transaction[c] \in {0} \cup stopped'

LEMMA ReturnAway ==
  ASSUME TypeOK, NEW t \in Threads, NEW ok,
         \/ Return(t, ok) \/ thread' = [thread EXCEPT ![t] = After(t, ok)]
         \/ ReturnStop(t, ok) \/ thread' = [thread EXCEPT ![t] = AfterStop(t, ok)]
  PROVE  Away(t)
  <1>1. thread[t] \in ThreadStates
    BY DEF TypeOK
  <1>2. ASSUME NEW pc \in {"finish", "readStatus", "readMeter", "resetStop"}
        PROVE  NextConn(t, pc).pc \notin Stops
    BY <1>1, Zenon DEF NextConn, Idle, ThreadStates, Stops
  <1>3. After(t, ok).pc \notin Stops
    <2>1. After(t, ok) \in {NextConn(t, "finish"), NextConn(t, "readStatus"),
                            NextConn(t, "readMeter"), Idle}
      BY Zenon DEF After
    <2>2. QED
      BY <1>2, <2>1 DEF Idle, Stops
  <1>4. AfterStop(t, ok).pc \notin Stops
    <2>1. AfterStop(t, ok) \in {[NextConn(t, "resetStop") EXCEPT !.own = 0],
             [thread[t] EXCEPT !.pc = "boot", !.conn = 1, !.own = 0],
             [Idle EXCEPT !.pc = "finish", !.conn = Conn(t)], Idle}
      <3>1. CASE Conn(t) < N
        BY <3>1, Zenon DEF AfterStop
      <3>2. CASE ~(Conn(t) < N)
        BY <3>2, Zenon DEF AfterStop
      <3>3. QED
        BY <3>1, <3>2
    <2>2. [NextConn(t, "resetStop") EXCEPT !.own = 0].pc \notin Stops
      <3>1. PICK r \in ThreadStates : r = NextConn(t, "resetStop")
        BY NextConnType
      <3>2. [r EXCEPT !.own = 0].pc = r.pc
        BY DEF ThreadStates
      <3>3. QED
        BY <1>2, <3>1, <3>2
    <2>3. [thread[t] EXCEPT !.pc = "boot", !.conn = 1, !.own = 0].pc \notin Stops
      BY <1>1, Zenon DEF ThreadStates, Stops
    <2>4. [Idle EXCEPT !.pc = "finish", !.conn = Conn(t)].pc \notin Stops
      BY Zenon DEF Idle, Stops
    <2>5. Idle.pc \notin Stops
      BY DEF Idle, Stops
    <2>6. QED
      BY <2>1, <2>2, <2>3, <2>4, <2>5, Zenon
  <1>5. QED
    BY <1>3, <1>4 DEF Return, ReturnStop, TypeOK, Away, Others

LEMMA GoAway ==
  ASSUME TypeOK, NEW t \in Threads, NEW pc \in (Between \cup Calling) \ Stops, NEW s,
         NEW x, \/ Go(t, pc)
                \/ Held(t, pc, s)
                \/ thread' = [thread EXCEPT ![t].pc = pc, ![t].target = s]
                \/ thread' = [thread EXCEPT ![t].pc = pc, ![t].own = x]
                \/ thread' = [thread EXCEPT ![t].pc = pc, ![t].wait = x]
                \/ thread' = [thread EXCEPT ![t].pc = pc, ![t].target = s, ![t].own = x]
  PROVE  Away(t)
  <1>1. thread[t] \in ThreadStates
    BY DEF TypeOK
  <1>2. PICK r : r.pc = pc /\ thread' = [thread EXCEPT ![t] = r]
    <2>1. /\ [thread[t] EXCEPT !.pc = pc].pc = pc
          /\ [thread[t] EXCEPT !.pc = pc, !.target = s].pc = pc
          /\ [thread[t] EXCEPT !.pc = pc, !.own = x].pc = pc
          /\ [thread[t] EXCEPT !.pc = pc, !.wait = x].pc = pc
          /\ [thread[t] EXCEPT !.pc = pc, !.target = s, !.own = x].pc = pc
      BY <1>1 DEF ThreadStates
    <2>2. \/ thread' = [thread EXCEPT ![t] = [thread[t] EXCEPT !.pc = pc]]
          \/ thread' = [thread EXCEPT ![t] = [thread[t] EXCEPT !.pc = pc, !.target = s]]
          \/ thread' = [thread EXCEPT ![t] = [thread[t] EXCEPT !.pc = pc, !.own = x]]
          \/ thread' = [thread EXCEPT ![t] = [thread[t] EXCEPT !.pc = pc, !.wait = x]]
          \/ thread' = [thread EXCEPT ![t] = [thread[t] EXCEPT !.pc = pc, !.target = s,
                                                                !.own = x]]
      BY Zenon DEF Go, Held, TypeOK
    <2>3. QED
      BY <2>1, <2>2, Zenon
  <1>3. QED
    BY <1>2 DEF TypeOK, Away, Others

\* A thread comes to a stop with a transaction that it has just found, or is at
\* its stop already.
LEMMA OperateFinds ==
  ASSUME TypeOK, PendingInv, NEW t \in Threads, Operate(t)
  PROVE  /\ Others(t)
         /\ \/ thread'[t].pc \notin Stops
            \/ /\ UNCHANGED transaction
               /\ thread'[t].conn = Conn(t) /\ thread'[t].own = transaction[Conn(t)]
            \/ /\ thread[t].pc \in Stops
               /\ thread'[t].conn = Conn(t) /\ thread'[t].own = thread[t].own
  <1> DEFINE P == /\ Others(t)
                  /\ \/ thread'[t].pc \notin Stops
                     \/ /\ UNCHANGED transaction
                        /\ thread'[t].conn = Conn(t) /\ thread'[t].own = transaction[Conn(t)]
                     \/ /\ thread[t].pc \in Stops
                        /\ thread'[t].conn = Conn(t) /\ thread'[t].own = thread[t].own
  <1>1. Away(t) => P
    BY DEF Away
  <1>2. {"notify", "meterCall", "startPreparing", "startCall", "startCharging", "auto",
         "stopCall", "notifyStop", "autoCancel", "install", "offDone", "start", "finish",
         "setStatus", "meter"} \subseteq (Between \cup Calling) \ Stops
    BY DEF Between, Calling, Stops
  <1>3. ASSUME plug(t) \/ unplug(t) \/ finish(t) \/ setStatus(t) \/ setStatusLocked(t)
               \/ sendMeter(t) \/ sendMeterLocked(t) \/ startTransaction(t)
        PROVE  Away(t)
    <2>1. \/ \E ok \in BOOLEAN : Return(t, ok)
          \/ \E s : Held(t, "notify", s)
          \/ \E s : Held(t, "startPreparing", s)
          \/ \E s : Held(t, "startCall", s)
          \/ \E x : thread' = [thread EXCEPT ![t].pc = "meterCall", ![t].own = x]
      BY <1>3, Zenon DEF plug, unplug, finish, setStatus, setStatusLocked, sendMeter,
                         sendMeterLocked, startTransaction
    <2>2. QED
      BY <1>2, <2>1, ReturnAway, GoAway, Zenon
  <1>4. ASSUME startPreparing(t) \/ startAction(t) \/ startCharging(t) \/ stopRead(t)
               \/ stopAction(t) \/ stopFinishing(t)
        PROVE  Away(t)
    <2>1. \/ \E ok \in BOOLEAN : Return(t, ok) \/ ReturnStop(t, ok)
          \/ Held(t, "startCall", "Charging")
          \/ Go(t, "startCharging") \/ Go(t, "auto")
          \/ \E x : thread' = [thread EXCEPT ![t].pc = "stopCall", ![t].own = x]
          \/ thread' = [thread EXCEPT ![t].pc = "notifyStop", ![t].target = "Finishing",
                                      ![t].own = 0]
      BY <1>4, Zenon DEF startPreparing, startAction, startCharging, stopRead, stopAction,
                         stopFinishing
    <2>2. QED
      BY <1>2, <2>1, ReturnAway, GoAway, Zenon
  <1>5. ASSUME startAutoRead(t) \/ startAutoCancel(t) \/ startAuto(t) \/ autoOff(t)
               \/ autoOffDone(t)
        PROVE  Away(t)
    <2>1. \/ \E ok \in BOOLEAN : Return(t, ok)
          \/ \E x : thread' = [thread EXCEPT ![t].pc = "autoCancel", ![t].own = x]
          \/ \E x : thread' = [thread EXCEPT ![t].pc = "install", ![t].wait = x]
          \/ \E x : thread' = [thread EXCEPT ![t].pc = "offDone", ![t].wait = x]
      BY <1>5, Zenon DEF startAutoRead, startAutoCancel, startAuto, autoOff, autoOffDone,
                         stopAutoAndWait
    <2>2. QED
      BY <1>2, <2>1, ReturnAway, GoAway, Zenon
  <1>6. Drop(t) => Away(t)
    BY DEF Drop, Away, Others, TypeOK, Idle, Stops
  <1>7. ASSUME executePendingRemoteStart(t) \/ boot(t) \/ triggeredStatus(t)
               \/ triggeredMeter(t)
        PROVE  Away(t)
    <2>1. \/ Drop(t) \/ Go(t, "start") \/ Go(t, "finish") \/ Go(t, "meter")
          \/ \E s : thread' = [thread EXCEPT ![t].pc = "setStatus", ![t].target = s]
          \/ \E ok \in BOOLEAN : thread' = [thread EXCEPT ![t] = After(t, ok)]
      BY <1>7, Zenon DEF executePendingRemoteStart, boot, triggeredStatus, triggeredMeter
    <2>2. QED
      BY <1>2, <1>6, <2>1, ReturnAway, GoAway, Zenon
  <1>8. transaction[Conn(t)] \in 0..MaxTx /\ Conn(t) \in Connectors
    BY DEF TypeOK, ThreadStates, Conn
  <1>9. CASE executePendingRemoteStop(t)
    <2>1. CASE remoteStop[Conn(t)] = 0
      BY <1>1, <1>6, <1>9, <2>1 DEF executePendingRemoteStop
    <2>2. CASE remoteStop[Conn(t)] # 0
      <3>1. GoStop(t, transaction[Conn(t)]) /\ UNCHANGED transaction
        BY <1>8, <1>9, <2>2 DEF executePendingRemoteStop, PendingInv, jobState, connector
      <3>2. QED
        BY <1>8, <3>1, GoStopType
    <2>3. QED
      BY <2>1, <2>2
  <1>10. CASE resetStop(t)
    <2>1. CASE transaction[Conn(t)] = 0
      <3>1. thread' = [thread EXCEPT ![t] = AfterStop(t, TRUE)]
        BY <1>10, <2>1 DEF resetStop
      <3>2. QED
        BY <1>1, <3>1, ReturnAway
    <2>2. CASE transaction[Conn(t)] # 0
      <3>1. GoStop(t, transaction[Conn(t)]) /\ UNCHANGED transaction
        BY <1>10, <2>2 DEF resetStop, jobState, connector
      <3>2. QED
        BY <1>8, <3>1, GoStopType
    <2>3. QED
      BY <2>1, <2>2
  <1>11. CASE stopTransaction(t)
    <2>1. PICK r \in ThreadStates : r = thread[t]
      BY DEF TypeOK
    <2>2. PICK x : thread' = [thread EXCEPT ![t].pc = "stop", ![t].wait = x]
      BY <1>11 DEF stopTransaction, stopAutoAndWait
    <2> DEFINE q == [r EXCEPT !.pc = "stop", !.wait = x]
    <2>3. q.conn = r.conn /\ q.own = r.own
      BY Zenon DEF ThreadStates
    <2>4. thread' = [thread EXCEPT ![t] = q]
      BY <2>1, <2>2, Zenon DEF TypeOK
    <2> HIDE DEF q
    <2>5. thread[t].pc \in Stops
      BY <1>11 DEF stopTransaction, At, Stops
    <2>6. QED
      BY <2>1, <2>3, <2>4, <2>5 DEF TypeOK, Others, Conn
  <1>12. CASE ~(executePendingRemoteStop(t) \/ resetStop(t) \/ stopTransaction(t))
    <2>1. Away(t)
      BY <1>3, <1>4, <1>5, <1>7, <1>12, Zenon DEF Operate
    <2>2. QED
      BY <1>1, <2>1
  <1>13. QED
    BY <1>9, <1>10, <1>11, <1>12

\* A transaction is left only when it is stopped.
LEMMA NextFollows ==
  ASSUME TypeOK, HoldInv, Next
  PROVE  Follow
  <1> USE DEF connector, pendings, server, jobState
  <1>1. CASE UNCHANGED <<transaction, stopped>>
    BY <1>1 DEF Follow
  <1>2. ASSUME NEW t \in Threads, startAction(t) PROVE Follow
    <2>1. Conn(t) \in Connectors /\ transaction[Conn(t)] = 0
      BY <1>2 DEF startAction, At, HoldInv, TypeOK, ThreadStates, Conn
    <2>2. /\ UNCHANGED stopped
          /\ \/ transaction' = [transaction EXCEPT ![Conn(t)] = nextTx]
             \/ UNCHANGED transaction
      BY <1>2, Zenon DEF startAction
    <2>3. QED
      BY <2>1, <2>2 DEF Follow, TypeOK
  <1>3. ASSUME NEW t \in Threads, stopAction(t) PROVE Follow
    <2>1. Conn(t) \in Connectors /\ thread[t].own = transaction[Conn(t)]
      BY <1>3 DEF stopAction, At, HoldInv, TypeOK, ThreadStates, Conn
    <2>2. \/ /\ transaction' = [transaction EXCEPT ![Conn(t)] = 0]
             /\ stopped' = stopped \cup {thread[t].own}
          \/ UNCHANGED <<transaction, stopped>>
      BY <1>3, Zenon DEF stopAction
    <2>3. QED
      BY <2>1, <2>2 DEF Follow, TypeOK
  <1>4. ASSUME NEW t \in Threads, Operate(t), ~startAction(t), ~stopAction(t)
        PROVE  UNCHANGED <<transaction, stopped>>
    BY <1>4, Zenon DEF Operate, plug, unplug, finish, setStatus, setStatusLocked, sendMeter,
       sendMeterLocked, startTransaction, startPreparing, startCharging, stopTransaction,
       stopRead, stopFinishing, startAutoRead, startAutoCancel, startAuto, autoOff,
       autoOffDone, stopAutoAndWait, executePendingRemoteStart,
       executePendingRemoteStop, resetStop, boot, triggeredStatus, triggeredMeter
  <1>5. ASSUME NEW w \in Workers, Meter(w) PROVE UNCHANGED <<transaction, stopped>>
    BY <1>5 DEF Meter, WorkerSelect, sendAutomaticMeter, WorkerSent
  <1>6. CASE Request
    BY <1>1, <1>6, Zenon DEF Request, OnReset, OnChangeAvailability, OnTriggerMessage,
       OnRemoteStartTransaction, OnRemoteStopTransaction, executeConnectorCommand,
       statusCommand
  <1>7. QED
    BY <1>1, <1>2, <1>3, <1>4, <1>5, <1>6 DEF Next

LEMMA FoundKeeps ==
  ASSUME TypeOK, HoldInv, PendingInv, FoundInv, Next
  PROVE  FoundInv'
  <1>0. Follow
    BY NextFollows
  <1>1. ASSUME NEW u \in Threads, thread'[u].pc \in Stops, thread'[u].own # 0,
               thread[u].pc \in Stops,
               thread'[u].conn = Conn(u), thread'[u].own = thread[u].own
        PROVE  thread'[u].own = transaction'[thread'[u].conn] \/ thread'[u].own \in stopped'
    <2>1. Conn(u) \in Connectors
      BY DEF TypeOK, ThreadStates, Conn
    <2>2. thread[u].own = transaction[Conn(u)] \/ thread[u].own \in stopped
      BY <1>1 DEF FoundInv
    <2>3. QED
      BY <1>0, <1>1, <2>1, <2>2 DEF Follow
  <1>2. ASSUME NEW t \in Threads, Operate(t) PROVE FoundInv'
    <2> SUFFICES ASSUME NEW u \in Threads, thread'[u].pc \in Stops, thread'[u].own # 0
                 PROVE  thread'[u].own = transaction'[thread'[u].conn] \/ thread'[u].own \in stopped'
      BY DEF FoundInv, Conn
    <2>1. CASE u # t
      <3>1. thread'[u] = thread[u]
        BY <1>2, <2>1, OperateFinds DEF Others
      <3>2. QED
        BY <1>1, <3>1 DEF Conn
    <2>2. CASE u = t
      BY <1>1, <1>2, <2>2, OperateFinds
    <2>3. QED
      BY <2>1, <2>2
  <1>3. ASSUME NEW w \in Workers, Meter(w) PROVE FoundInv'
    <2>1. \A u \in Threads : /\ thread'[u].pc = thread[u].pc
                              /\ thread'[u].conn = thread[u].conn
                              /\ thread'[u].own = thread[u].own
      BY <1>3, ClearAutoKeeps DEF Meter, WorkerSelect, sendAutomaticMeter, WorkerSent
    <2>2. QED
      BY <1>1, <2>1 DEF FoundInv, Conn
  <1>4. CASE Request
    <2>1. ASSUME NEW u \in Threads PROVE thread'[u] = thread[u] \/ thread'[u].own = 0
      <3>1. ASSUME NEW t, NEW op, NEW pc, NEW c, NEW s, Spawn(t, op, pc, c, s)
            PROVE  thread'[u] = thread[u] \/ thread'[u].own = 0
        <4>1. [Idle EXCEPT !.op = op, !.pc = pc, !.conn = c, !.target = s].own = 0
          BY DEF Idle
        <4>2. QED
          BY <3>1, <4>1 DEF Spawn, TypeOK
      <3>2. ASSUME NEW D, NEW b, OnChangeAvailability(D, b)
            PROVE  thread'[u] = thread[u] \/ thread'[u].own = 0
        <4>1. \A c, s : [Idle EXCEPT !.op = "command", !.pc = "setStatus", !.conn = c,
                                     !.target = s].own = 0
          BY DEF Idle
        <4> DEFINE target == IF b THEN "Unavailable" ELSE "Available"
        <4>2. CASE UNCHANGED thread
          BY <4>2
        <4>3. CASE ~UNCHANGED thread
          <5>1. PICK job \in [D -> Jobs] :
                  thread' = [t \in Threads |->
                       IF \E c \in D : job[c] = t
                       THEN [Idle EXCEPT !.op = "command", !.pc = "setStatus",
                                !.conn = CHOOSE c \in D : job[c] = t, !.target = target]
                       ELSE thread[t]]
            BY <3>2, <4>3, Zenon DEF OnChangeAvailability
          <5> DEFINE d == CHOOSE c \in D : job[c] = u
          <5>2. \/ thread'[u] = thread[u]
                \/ thread'[u] = [Idle EXCEPT !.op = "command", !.pc = "setStatus",
                                             !.conn = d, !.target = target]
            BY <5>1, Zenon
          <5> HIDE DEF d, target
          <5>3. QED
            BY <4>1, <5>2
        <4>4. QED
          BY <4>2, <4>3
      <3>3. ASSUME UNCHANGED thread PROVE thread'[u] = thread[u]
        BY <3>3
      <3>4. QED
        BY <1>4, <3>1, <3>2, <3>3, Zenon DEF Request, OnReset, OnTriggerMessage,
           OnRemoteStartTransaction, OnRemoteStopTransaction, executeConnectorCommand,
           statusCommand
    <2>2. QED
      BY <1>1, <2>1 DEF FoundInv, Conn
  <1>5. QED
    BY <1>2, <1>3, <1>4 DEF Next

LEMMA NextInv == IInv /\ [Next]_vars => IInv'
  <1> SUFFICES ASSUME IInv, [Next]_vars PROVE IInv'
    OBVIOUS
  <1>1. CASE Next
    BY <1>1, OperateKeeps, MeterKeeps, RequestKeeps, OnceKeeps, FoundKeeps DEF IInv, Next
  <1>2. CASE UNCHANGED vars
    BY <1>2 DEF vars, connector, pendings, server, IInv, TypeOK, HoldInv, OnceInv, Conn,
                PendingInv, FoundInv
  <1>3. QED
    BY <1>1, <1>2

LEMMA Inductive == Spec => []IInv
  BY InitInv, NextInv, PTL DEF Spec

\* Every reachable state of the charge point is well typed.
THEOREM TypeCorrect == Spec => []TypeOK
  <1>1. IInv => TypeOK
    BY DEF IInv
  <1>2. QED
    BY <1>1, Inductive, PTL

\* For any number of connectors, jobs and workers, no goroutine is in a call
\* with a transaction other than the one its connector has, and none with one
\* that was stopped.
THEOREM Serialized == Spec => []CallsMatchTransaction
  <1>1. IInv => CallsMatchTransaction
    <2> SUFFICES ASSUME IInv PROVE CallsMatchTransaction
      OBVIOUS
    <2>1. ASSUME NEW t \in Threads, At(t, "startCall") PROVE transaction[Conn(t)] = 0
      BY <2>1 DEF IInv, HoldInv, At
    <2>2. ASSUME NEW t \in Threads, thread[t].pc \in {"stopCall", "meterCall"}
          PROVE  thread[t].own = transaction[Conn(t)] /\ thread[t].own \notin stopped \cup {0}
      <3>1. Conn(t) \in Connectors
        BY DEF IInv, TypeOK, ThreadStates, Conn
      <3>2. QED
        BY <2>2, <3>1 DEF IInv, HoldInv, OnceInv
    <2>3. ASSUME NEW w \in Workers, worker[w].pc = "sending"
          PROVE  worker[w].tx = transaction[worker[w].conn] /\ worker[w].tx \notin stopped
      <3>1. worker[w].conn \in Connectors /\ 0 \notin stopped
        BY DEF IInv, TypeOK, Transactions
      <3>2. QED
        BY <2>3, <3>1 DEF IInv, HoldInv, OnceInv
    <2>4. QED
      BY <2>1, <2>2, <2>3 DEF CallsMatchTransaction
  <1>2. QED
    BY <1>1, Inductive, PTL

\* For any number of connectors, jobs and workers, an accepted remote start
\* waits on a connector without a transaction, and an accepted remote stop is
\* for the transaction that its connector has; a job that has found a transaction
\* to stop finds another one at the stop only when its own has been stopped.
THEOREM Pending == Spec => []PendingMatchesTransaction
  <1>1. IInv => PendingMatchesTransaction
    BY DEF IInv, PendingInv, FoundInv, Stops, PendingMatchesTransaction
  <1>2. QED
    BY <1>1, Inductive, PTL
=============================================================================
