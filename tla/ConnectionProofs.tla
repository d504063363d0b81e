-------------------------- MODULE ConnectionProofs --------------------------
(***************************************************************************)
(* Proofs about Connection for any number of connections, heartbeats,      *)
(* store errors and restarts.                                              *)
(***************************************************************************)
EXTENDS Connection, TLAPS

PCs == {"idle", "recording", "recorded", "failed", "done"}

\* An observation that some thread may still write to the row is of a
\* generation this process has handed out, and if it is a disconnect that
\* generation is not the connected one.
Sound(o) == /\ o.generation <= next
            /\ ~o.online => active # o.generation

ObservationsSound ==
    /\ \A o \in Observations : pc[o] # "idle" => Sound(o)
    /\ pending # None => Sound(pending)
    /\ copy # None => Sound(copy)

RowInv ==
    /\ state = "OFFLINE" => generation # 0 /\ active # generation
    /\ state = "UNKNOWN" => generation = 0

IInv == TypeOK /\ ObservationsSound /\ RowInv

----------------------------------------------------------------------------
(* Observations and the row.                                                *)

LEMMA ThreadObservations ==
  /\ \A g \in 1..MaxConns : /\ Opened(g) \in Observations /\ Opened(g).generation = g
                            /\ Opened(g).online
                            /\ Closed(g) \in Observations /\ Closed(g).generation = g
                            /\ ~Closed(g).online
  /\ \A o \in Observations : o.generation \in 1..MaxConns /\ o \in Threads
  /\ Worker \in Threads
  BY DEF Opened, Closed, Observations, Threads

\* A thread that is about to write the row writes a sound observation.
LEMMA RecordedObservation ==
  ASSUME IInv, NEW t \in Threads, pc[t] \in {"recording", "recorded", "failed"}
  PROVE  Observation(t) \in Observations /\ Sound(Observation(t))
  <1>1. CASE t = Worker
    BY <1>1 DEF IInv, TypeOK, ObservationsSound, Observation
  <1>2. CASE t # Worker
    BY <1>2 DEF IInv, ObservationsSound, Observation, Threads
  <1>3. QED
    BY <1>1, <1>2

LEMMA InitInv == Init => IInv
  <1>1. 0 \in 0..MaxFaults /\ 0 \in 0..MaxBeats /\ 0 \in 0..MaxRestarts
        /\ 0 \in 0..MaxConns
    BY ConnectionAssumption
  <1>2. Worker \in Threads
    BY ThreadObservations
  <1>3. QED
    BY <1>1, <1>2, ThreadObservations
       DEF Init, IInv, TypeOK, ObservationsSound, RowInv

\* The facts a step adds are well typed.
LEMMA FactType ==
  ASSUME TypeOK, NEW s \in {"UNKNOWN", "ONLINE", "OFFLINE"},
         NEW g \in 0..MaxConns, NEW n \in Nat, insertV1FactTx(s, g, n)
  PROVE  facts' \subseteq [state : {"UNKNOWN", "ONLINE", "OFFLINE"},
                           generation : 0..MaxConns, sequence : Nat]
  BY DEF TypeOK, insertV1FactTx

LEMMA NextInv == IInv /\ [Next]_vars => IInv'
  <1> SUFFICES ASSUME IInv, [Next]_vars PROVE IInv'
    OBVIOUS
  <1> USE ConnectionAssumption, ThreadObservations
      DEF tracker, runtime, threads, bounds
  <1>1. CASE register
    <2>1. next + 1 \in 1..MaxConns
      BY <1>1 DEF register, IInv, TypeOK
    <2>2. TypeOK'
      BY <1>1, <2>1, WorkerAssumption DEF register, IInv, TypeOK
    <2>3. \A o \in Observations : pc'[o] # "idle" => Sound(o)'
      <3> SUFFICES ASSUME NEW o \in Observations, pc'[o] # "idle" PROVE Sound(o)'
        OBVIOUS
      <3>1. CASE o = Opened(next + 1)
        BY <1>1, <2>1, <3>1 DEF register, Sound, IInv, TypeOK
      <3>2. CASE o # Opened(next + 1)
        <4>1. Sound(o)
          BY <1>1, <3>2 DEF register, IInv, TypeOK, ObservationsSound
        <4>2. QED
          BY <1>1, <4>1 DEF register, Sound, IInv, TypeOK
      <3>3. QED
        BY <3>1, <3>2
    <2>4. ObservationsSound'
      BY <1>1, <2>3 DEF register, IInv, TypeOK, ObservationsSound, Sound
    <2>5. RowInv'
      BY <1>1 DEF register, IInv, TypeOK, RowInv
    <2>6. QED
      BY <2>2, <2>4, <2>5 DEF IInv
  <1>2. ASSUME NEW g \in 1..MaxConns, unregisterIfCurrent(g) PROVE IInv'
    <2>1. TypeOK'
      BY <1>2, WorkerAssumption DEF unregisterIfCurrent, IInv, TypeOK
    <2>2. active' \in {0, active} /\ active' # g /\ next' = next
      BY <1>2 DEF unregisterIfCurrent
    <2>3. \A o \in Observations : Sound(o) => Sound(o)'
      BY <2>2 DEF Sound
    <2>4. Sound(Closed(g))'
      BY <1>2, <2>2 DEF Sound, unregisterIfCurrent
    <2>5. ObservationsSound'
      BY <1>2, <2>3, <2>4 DEF unregisterIfCurrent, IInv, TypeOK, ObservationsSound
    <2>6. RowInv'
      BY <1>2, <2>2 DEF unregisterIfCurrent, IInv, RowInv
    <2>7. QED
      BY <2>1, <2>5, <2>6 DEF IInv
  <1>3. ASSUME NEW t \in Threads, RecordV1ChargerConnection(t) PROVE IInv'
    <2> DEFINE o == Observation(t)
    <2>1. o \in Observations /\ Sound(o)
      BY <1>3, RecordedObservation DEF RecordV1ChargerConnection
    <2>2. pc' \in [Threads -> PCs]
      BY <1>3 DEF RecordV1ChargerConnection, IInv, TypeOK, PCs
    <2>3. \A u \in Threads : (pc'[u] # "idle") = (pc[u] # "idle")
      BY <1>3 DEF RecordV1ChargerConnection, IInv, TypeOK
    <2>4. ObservationsSound'
      BY <1>3, <2>3 DEF RecordV1ChargerConnection, IInv, ObservationsSound, Sound
    <2>5. pc'[Worker] \in {"recording", "recorded", "failed"} => copy' # None
      BY <1>3 DEF RecordV1ChargerConnection, IInv, TypeOK
    <2>6. CASE Newer(o)
      <3>1. /\ state' = StateOf(o) /\ generation' = o.generation
            /\ sequence' = sequence + 1
            /\ insertV1FactTx(StateOf(o), o.generation, sequence + 1)
        BY <1>3, <2>6 DEF RecordV1ChargerConnection
      <3>2. StateOf(o) \in {"ONLINE", "OFFLINE"}
        BY DEF StateOf
      <3>3. facts' \subseteq [state : {"UNKNOWN", "ONLINE", "OFFLINE"},
                              generation : 0..MaxConns, sequence : Nat]
        BY <2>1, <3>1, <3>2, FactType DEF IInv, TypeOK
      <3>4. TypeOK'
        BY <1>3, <2>1, <2>2, <2>5, <3>1, <3>2, <3>3
           DEF RecordV1ChargerConnection, IInv, TypeOK, PCs, Sound
      <3>5. RowInv'
        BY <1>3, <2>1, <3>1 DEF RecordV1ChargerConnection, RowInv, Sound, StateOf
      <3>6. QED
        BY <2>4, <3>4, <3>5 DEF IInv
    <2>7. CASE ~Newer(o)
      BY <1>3, <2>2, <2>4, <2>5, <2>7
         DEF RecordV1ChargerConnection, IInv, TypeOK, PCs, RowInv
    <2>8. QED
      BY <2>6, <2>7
  <1>4. ASSUME NEW t \in Threads, SettlePending(t) PROVE IInv'
    <2>1. Observation(t) \in Observations /\ Sound(Observation(t))
      BY <1>4, RecordedObservation DEF SettlePending
    <2>2. TypeOK'
      BY <1>4, <2>1 DEF SettlePending, IInv, TypeOK
    <2>3. \A u \in Threads : pc'[u] # "idle" => pc[u] # "idle"
      BY <1>4 DEF SettlePending, IInv, TypeOK
    <2>4. ObservationsSound'
      BY <1>4, <2>1, <2>3 DEF SettlePending, IInv, ObservationsSound, Sound
    <2>5. QED
      BY <1>4, <2>2, <2>4 DEF SettlePending, IInv, RowInv
  <1>5. ASSUME NEW t \in Threads, RecordFails(t) PROVE IInv'
    <2>1. TypeOK'
      BY <1>5 DEF RecordFails, IInv, TypeOK
    <2>2. \A u \in Threads : (pc'[u] # "idle") = (pc[u] # "idle")
      BY <1>5 DEF RecordFails, IInv, TypeOK
    <2>3. QED
      BY <1>5, <2>1, <2>2 DEF RecordFails, IInv, ObservationsSound, Sound, RowInv
  <1>6. CASE retryRuntimeProjections
    <2>1. TypeOK'
      BY <1>6 DEF retryRuntimeProjections, IInv, TypeOK
    <2>2. \A o \in Observations : pc'[o] = pc[o]
      BY <1>6, WorkerAssumption DEF retryRuntimeProjections, IInv, TypeOK
    <2>3. QED
      BY <1>6, <2>1, <2>2
         DEF retryRuntimeProjections, IInv, ObservationsSound, Sound, RowInv
  <1>7. CASE OnHeartbeat
    BY <1>7 DEF OnHeartbeat, IInv, TypeOK, ObservationsSound, Sound, RowInv
  <1>8. CASE RenewCurrentV1ChargerConnection
    <2>1. CASE generation = beat /\ state = "ONLINE"
      <3>1. facts' \subseteq [state : {"UNKNOWN", "ONLINE", "OFFLINE"},
                              generation : 0..MaxConns, sequence : Nat]
        BY <1>8, <2>1, FactType DEF RenewCurrentV1ChargerConnection, IInv, TypeOK
      <3>2. QED
        BY <1>8, <2>1, <3>1 DEF RenewCurrentV1ChargerConnection, IInv, TypeOK,
           ObservationsSound, Sound, RowInv
    <2>2. CASE ~(generation = beat /\ state = "ONLINE")
      BY <1>8, <2>2 DEF RenewCurrentV1ChargerConnection, IInv, TypeOK,
         ObservationsSound, Sound, RowInv
    <2>3. QED
      BY <2>1, <2>2
  <1>9. CASE ResetV1ConnectionRuntime
    <2>1. CASE state \in {"ONLINE", "OFFLINE"}
      <3>1. facts' \subseteq [state : {"UNKNOWN", "ONLINE", "OFFLINE"},
                              generation : 0..MaxConns, sequence : Nat]
        BY <1>9, <2>1, FactType DEF ResetV1ConnectionRuntime, IInv, TypeOK
      <3>2. QED
        BY <1>9, <2>1, <3>1 DEF ResetV1ConnectionRuntime, IInv, TypeOK,
           ObservationsSound, RowInv
    <2>2. CASE state \notin {"ONLINE", "OFFLINE"}
      BY <1>9, <2>2 DEF ResetV1ConnectionRuntime, IInv, TypeOK,
         ObservationsSound, RowInv
    <2>3. QED
      BY <2>1, <2>2
  <1>10. CASE UNCHANGED vars
    BY <1>10 DEF vars, IInv, TypeOK, ObservationsSound, Sound, RowInv
  <1>11. QED
    BY <1>1, <1>2, <1>3, <1>4, <1>5, <1>6, <1>7, <1>8, <1>9, <1>10
       DEF Next, persistRuntimeProjection

LEMMA Inductive == Spec => []IInv
  BY InitInv, NextInv, PTL DEF Spec

\* Row, tracker and callbacks are well typed; in particular the row's
\* generation is always one that this process has handed out.
THEOREM TypeCorrect == Spec => []TypeOK
  <1>1. IInv => TypeOK
    BY DEF IInv
  <1>2. QED
    BY <1>1, Inductive, PTL

\* However callbacks, retries and heartbeats interleave, a disconnect never
\* overwrites a newer connection: OFFLINE is said only of a generation that is
\* gone.
THEOREM Offline == Spec => []OfflineMeansGone
  <1>1. IInv => OfflineMeansGone
    BY DEF IInv, RowInv, OfflineMeansGone
  <1>2. QED
    BY <1>1, Inductive, PTL

----------------------------------------------------------------------------
(* What a step may do to the row and to its facts.                          *)

\* A step leaves the row alone, renews it, takes a newer observation, or is a
\* restart.
LEMMA RowStep ==
  ASSUME IInv, [Next]_vars
  PROVE  \/ UNCHANGED runtime
         \/ /\ state' = state /\ generation' = generation /\ state = "ONLINE"
            /\ sequence' = sequence + 1
            /\ insertV1FactTx(state, generation, sequence + 1)
         \/ \E o \in Observations :
               /\ Newer(o)
               /\ state' = StateOf(o) /\ generation' = o.generation
               /\ sequence' = sequence + 1
               /\ insertV1FactTx(StateOf(o), o.generation, sequence + 1)
         \/ ResetV1ConnectionRuntime
  <1> USE DEF runtime
  <1>1. ASSUME NEW t \in Threads, RecordV1ChargerConnection(t)
        PROVE  \/ UNCHANGED runtime
               \/ \E o \in Observations :
                     /\ Newer(o)
                     /\ state' = StateOf(o) /\ generation' = o.generation
                     /\ sequence' = sequence + 1
                     /\ insertV1FactTx(StateOf(o), o.generation, sequence + 1)
    <2>1. Observation(t) \in Observations
      BY <1>1, RecordedObservation DEF RecordV1ChargerConnection
    <2>2. QED
      BY <1>1, <2>1 DEF RecordV1ChargerConnection
  <1>2. CASE RenewCurrentV1ChargerConnection
    BY <1>2 DEF RenewCurrentV1ChargerConnection
  <1>3. QED
    BY <1>1, <1>2 DEF Next, vars, register, unregisterIfCurrent,
       persistRuntimeProjection, SettlePending, RecordFails,
       retryRuntimeProjections, OnHeartbeat

\* Within one process no callback, retry or heartbeat takes the row back to an
\* older generation, or from OFFLINE to ONLINE of the same one.
THEOREM Forward == Spec => NoResurrection
  <1> DEFINE Ahead == restarts' = restarts =>
                         /\ generation' >= generation
                         /\ state = "OFFLINE" /\ state' = "ONLINE" =>
                               generation' > generation
  <1>1. IInv /\ [Next]_vars => Ahead
    <2> SUFFICES ASSUME IInv, [Next]_vars, restarts' = restarts PROVE
                   /\ generation' >= generation
                   /\ state = "OFFLINE" /\ state' = "ONLINE" =>
                         generation' > generation
      OBVIOUS
    <2>1. generation \in Int
      BY DEF IInv, TypeOK
    <2>2. ~ResetV1ConnectionRuntime
      BY DEF ResetV1ConnectionRuntime, IInv, TypeOK
    <2>3. ASSUME NEW o \in Observations, Newer(o), state' = StateOf(o),
                 generation' = o.generation
          PROVE  /\ generation' >= generation
                 /\ state = "OFFLINE" /\ state' = "ONLINE" =>
                       generation' > generation
      BY <2>1, <2>3, ThreadObservations DEF Newer, StateOf
    <2>4. QED
      BY <2>1, <2>2, <2>3, RowStep DEF runtime
  <1>2. QED
    BY <1>1, Inductive, PTL DEF Spec, NoResurrection

\* An insert with the next sequence number is never dropped.
LEMMA InsertLatest ==
  ASSUME IInv, LatestFactIsRow, NEW s, NEW g,
         insertV1FactTx(s, g, sequence + 1), sequence' = sequence + 1
  PROVE  /\ \A f \in facts' : f.sequence <= sequence'
         /\ [state |-> s, generation |-> g, sequence |-> sequence'] \in facts'
  <1> DEFINE new == [state |-> s, generation |-> g, sequence |-> sequence + 1]
  <1>1. sequence \in Nat /\ \A f \in facts : f.sequence \in Nat
    BY DEF IInv, TypeOK
  <1>2. \A f \in facts : f.sequence # sequence + 1
    BY <1>1 DEF LatestFactIsRow
  <1>3. facts' = facts \cup {new}
    BY <1>2 DEF insertV1FactTx
  <1>4. QED
    BY <1>1, <1>3 DEF LatestFactIsRow

LEMMA NextFacts == IInv /\ LatestFactIsRow /\ [Next]_vars => LatestFactIsRow'
  <1> SUFFICES ASSUME IInv, LatestFactIsRow, [Next]_vars PROVE LatestFactIsRow'
    OBVIOUS
  <1>1. CASE UNCHANGED runtime
    BY <1>1 DEF runtime, LatestFactIsRow
  <1>2. ASSUME NEW s, NEW g, state' = s, generation' = g,
               insertV1FactTx(s, g, sequence + 1), sequence' = sequence + 1
        PROVE  LatestFactIsRow'
    BY <1>2, InsertLatest DEF LatestFactIsRow
  <1>3. CASE ResetV1ConnectionRuntime
    <2>1. CASE state \in {"ONLINE", "OFFLINE"}
      BY <1>2, <1>3, <2>1 DEF ResetV1ConnectionRuntime
    <2>2. CASE state \notin {"ONLINE", "OFFLINE"}
      BY <1>3, <2>2 DEF ResetV1ConnectionRuntime, IInv, TypeOK, RowInv, LatestFactIsRow
    <2>3. QED
      BY <2>1, <2>2
  <1>4. QED
    BY <1>1, <1>2, <1>3, RowStep

\* The fact with the highest connection_sequence is the row, across restarts:
\* every change of the row publishes a fact that the outbox does not drop.
THEOREM LatestFact == Spec => []LatestFactIsRow
  <1>1. Init => LatestFactIsRow
    BY DEF Init, LatestFactIsRow
  <1>2. QED
    BY <1>1, NextFacts, Inductive, PTL DEF Spec
=============================================================================
