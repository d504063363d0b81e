----------------------------- MODULE Connection -----------------------------
(***************************************************************************)
(* The connection state of one mapped, enabled charger: the in-memory      *)
(* tracker with its generations, the durable v1_charger_runtime row, the   *)
(* facts that tell CMS about it, and the observations that are kept for    *)
(* retry when the row cannot be written.                                   *)
(*                                                                         *)
(* The connect and the disconnect callback of each generation, the         *)
(* Heartbeat handler and the lifecycle worker run concurrently.  A         *)
(* callback thread is named by the observation it persists.                *)
(***************************************************************************)
EXTENDS Integers

CONSTANTS
    Worker,       \* the lifecycle worker, which retries failed observations
    None,
    MaxConns,     \* bound: connections in the life of one process
    MaxFaults,    \* bound: store errors
    MaxBeats,     \* bound: heartbeats
    MaxRestarts   \* bound: process restarts

ASSUME ConnectionAssumption ==
    /\ MaxConns \in Nat /\ MaxFaults \in Nat /\ MaxBeats \in Nat
    /\ MaxRestarts \in Nat

Observations == [generation : 1..MaxConns, online : BOOLEAN]
Opened(g) == [generation |-> g, online |-> TRUE]
Closed(g) == [generation |-> g, online |-> FALSE]
Threads == Observations \cup {Worker}

ASSUME WorkerAssumption == Worker \notin Observations /\ None \notin Observations

VARIABLES
    next,      \* connectionTracker.next
    active,    \* the generation of connectionTracker.active, 0 if there is none
    state, generation, sequence,  \* the v1_charger_runtime row
    facts,     \* charger.connection.updated facts in the outbox
    pending,   \* pendingRuntime of the charger
    pc,        \* each thread inside persistRuntimeProjection
    copy,      \* the observation the worker is retrying
    beat,      \* the generation a Heartbeat handler has read, 0 if none
    faults, beats, restarts

tracker == <<next, active>>
runtime == <<state, generation, sequence, facts>>
threads == <<pending, pc, copy>>
bounds == <<faults, beats, restarts>>
vars == <<tracker, runtime, threads, beat, bounds>>

Init ==
    /\ next = 0
    /\ active = 0
    /\ state = "ABSENT"
    /\ generation = 0
    /\ sequence = 0
    /\ facts = {}
    /\ pending = None
    /\ pc = [t \in Threads |-> "idle"]
    /\ copy = None
    /\ beat = 0
    /\ faults = 0
    /\ beats = 0
    /\ restarts = 0

----------------------------------------------------------------------------
(* The callbacks of the websocket server.                                   *)

\* A charger connects, perhaps before its former connection is known to be
\* gone; the callback then persists the observation.
register ==
    /\ next < MaxConns
    /\ next' = next + 1
    /\ active' = next + 1
    /\ pc' = [pc EXCEPT ![Opened(next + 1)] = "recording"]
    /\ UNCHANGED <<runtime, pending, copy, beat, bounds>>

\* Mutant: a stale disconnect is reported for the current generation.
DisconnectStale(g) ==
    /\ g \in 1..next
    /\ pc[Closed(g)] = "idle"
    /\ active' = IF active = g THEN 0 ELSE active
    /\ pc' = IF active = 0 THEN [pc EXCEPT ![Closed(g)] = "done"]
             ELSE [pc EXCEPT ![Closed(active)] = "recording"]
    /\ UNCHANGED <<next, runtime, pending, copy, beat, bounds>>

\* A connection goes down; if it is not the current one nothing happens.
unregisterIfCurrent(g) ==
    /\ g \in 1..next
    /\ pc[Closed(g)] = "idle"
    /\ active' = IF active = g THEN 0 ELSE active
    /\ pc' = [pc EXCEPT ![Closed(g)] = IF active = g THEN "recording" ELSE "done"]
    /\ UNCHANGED <<next, runtime, pending, copy, beat, bounds>>

----------------------------------------------------------------------------
(* persistRuntimeProjection: the store call, then the pending map.          *)

Observation(t) == IF t = Worker THEN copy ELSE t
StateOf(o) == IF o.online THEN "ONLINE" ELSE "OFFLINE"

\* A fact with a sequence that is already in the outbox is dropped.
insertV1FactTx(s, g, n) ==
    facts' = IF \E f \in facts : f.sequence = n THEN facts
             ELSE facts \cup {[state |-> s, generation |-> g, sequence |-> n]}

\* Mutant: only a newer generation is taken.
NewerGeneration(o) == o.generation > generation

\* The WHERE clause of the upsert.
Newer(o) ==
    \/ o.generation > generation
    \/ o.generation = generation /\ state = "ONLINE" /\ ~o.online

RecordV1ChargerConnection(t) ==
    LET o == Observation(t) IN
    /\ pc[t] = "recording"
    /\ pc' = [pc EXCEPT ![t] = "recorded"]
    /\ IF Newer(o)
       THEN /\ state' = StateOf(o)
            /\ generation' = o.generation
            /\ sequence' = sequence + 1
            /\ insertV1FactTx(StateOf(o), o.generation, sequence + 1)
       ELSE UNCHANGED runtime
    /\ UNCHANGED <<tracker, pending, copy, beat, bounds>>

RecordFails(t) ==
    /\ faults < MaxFaults
    /\ pc[t] = "recording"
    /\ pc' = [pc EXCEPT ![t] = "failed"]
    /\ faults' = faults + 1
    /\ UNCHANGED <<tracker, runtime, pending, copy, beat, beats, restarts>>

\* Success clears the charger's pending observation, whichever it is; failure
\* replaces it.
SettlePending(t) ==
    /\ pc[t] \in {"recorded", "failed"}
    /\ pc' = [pc EXCEPT ![t] = IF t = Worker THEN "idle" ELSE "done"]
    /\ pending' = IF pc[t] = "recorded" THEN None ELSE Observation(t)
    /\ copy' = IF t = Worker THEN None ELSE copy
    /\ UNCHANGED <<tracker, runtime, beat, bounds>>

persistRuntimeProjection(t) == RecordV1ChargerConnection(t) \/ SettlePending(t)

retryRuntimeProjections ==
    /\ pc[Worker] = "idle"
    /\ pending # None
    /\ copy' = pending
    /\ pc' = [pc EXCEPT ![Worker] = "recording"]
    /\ UNCHANGED <<tracker, runtime, pending, beat, bounds>>

----------------------------------------------------------------------------
(* Heartbeats and restarts.                                                 *)

\* The handler reads the current generation ...
OnHeartbeat ==
    /\ beat = 0
    /\ active # 0
    /\ beats < MaxBeats
    /\ beats' = beats + 1
    /\ beat' = active
    /\ UNCHANGED <<tracker, runtime, threads, faults, restarts>>

\* Mutant: a heartbeat is taken as proof that the charger is connected.
RenewAlways ==
    /\ beat # 0
    /\ beat' = 0
    /\ state' = "ONLINE"
    /\ generation' = beat
    /\ sequence' = sequence + 1
    /\ insertV1FactTx("ONLINE", beat, sequence + 1)
    /\ UNCHANGED <<tracker, threads, bounds>>

\* ... and then renews that generation if it is still the one that is ONLINE.
RenewCurrentV1ChargerConnection ==
    /\ beat # 0
    /\ beat' = 0
    /\ IF generation = beat /\ state = "ONLINE"
       THEN /\ sequence' = sequence + 1
            /\ insertV1FactTx(state, generation, sequence + 1)
       ELSE UNCHANGED <<sequence, facts>>
    /\ UNCHANGED <<tracker, state, generation, threads, bounds>>

\* Mutant: the reset starts the sequence anew as well.
ResetSequence ==
    /\ restarts < MaxRestarts
    /\ restarts' = restarts + 1
    /\ next' = 0 /\ active' = 0
    /\ pending' = None /\ copy' = None /\ beat' = 0
    /\ pc' = [t \in Threads |-> "idle"]
    /\ generation' = 0
    /\ IF state \in {"ONLINE", "OFFLINE"}
       THEN /\ state' = "UNKNOWN"
            /\ sequence' = 1
            /\ insertV1FactTx("UNKNOWN", 0, 1)
       ELSE UNCHANGED <<state, sequence, facts>>
    /\ UNCHANGED <<faults, beats>>

\* The process dies and starts again: nothing in memory survives, and the row
\* is reset before the first connection is accepted.
ResetV1ConnectionRuntime ==
    /\ restarts < MaxRestarts
    /\ restarts' = restarts + 1
    /\ next' = 0 /\ active' = 0
    /\ pending' = None /\ copy' = None /\ beat' = 0
    /\ pc' = [t \in Threads |-> "idle"]
    /\ generation' = 0
    /\ IF state \in {"ONLINE", "OFFLINE"}
       THEN /\ state' = "UNKNOWN"
            /\ sequence' = sequence + 1
            /\ insertV1FactTx("UNKNOWN", 0, sequence + 1)
       ELSE UNCHANGED <<state, sequence, facts>>
    /\ UNCHANGED <<faults, beats>>

----------------------------------------------------------------------------
Next ==
    \/ register
    \/ \E g \in 1..MaxConns : unregisterIfCurrent(g)
    \/ \E t \in Threads : persistRuntimeProjection(t) \/ RecordFails(t)
    \/ retryRuntimeProjections
    \/ OnHeartbeat
    \/ RenewCurrentV1ChargerConnection
    \/ ResetV1ConnectionRuntime

Spec == Init /\ [][Next]_vars

\* Callbacks run to their end and the worker retries every 2 s.
FairSpec ==
    /\ Spec
    /\ \A t \in Threads : WF_vars(persistRuntimeProjection(t))
    /\ WF_vars(retryRuntimeProjections)

----------------------------------------------------------------------------
(* Properties.                                                              *)

\* The row, the tracker and the callbacks hold values of their types.
TypeOK ==
    /\ next \in 0..MaxConns
    /\ active \in 0..next
    /\ state \in {"ABSENT", "UNKNOWN", "ONLINE", "OFFLINE"}
    /\ generation \in 0..next
    /\ sequence \in Nat
    /\ facts \subseteq [state : {"UNKNOWN", "ONLINE", "OFFLINE"},
                        generation : 0..MaxConns, sequence : Nat]
    /\ pending \in Observations \cup {None}
    /\ pc \in [Threads -> {"idle", "recording", "recorded", "failed", "done"}]
    /\ copy \in Observations \cup {None}
    /\ pc[Worker] \in {"recording", "recorded", "failed"} => copy # None
    /\ beat \in 0..next
    /\ faults \in 0..MaxFaults
    /\ beats \in 0..MaxBeats
    /\ restarts \in 0..MaxRestarts

\* "A stale disconnect must not overwrite a newer connection generation": the
\* row says OFFLINE only of a generation that is no longer connected.
OfflineMeansGone == state = "OFFLINE" => active # generation

\* Within one process the row never goes back: not to an older generation, and
\* not from OFFLINE to ONLINE of the same one, whichever callback, retry or
\* heartbeat comes last ("it never creates or resurrects a connection").
NoResurrection ==
    [][restarts' = restarts =>
          /\ generation' >= generation
          /\ state = "OFFLINE" /\ state' = "ONLINE" => generation' > generation]_vars

\* The fact with the highest connection_sequence describes the row, so a CMS
\* that applies facts by sequence ends with the row's state, across restarts.
LatestFactIsRow ==
    /\ \A f \in facts : f.sequence <= sequence
    /\ state # "ABSENT" =>
          [state |-> state, generation |-> generation, sequence |-> sequence] \in facts

\* When nothing is in progress and nothing is kept for retry, the row agrees
\* with the tracker: a failed observation is retried until it is recorded.
Agrees == IF active = 0 THEN state # "ONLINE"
          ELSE state = "ONLINE" /\ generation = active
Quiet == pending = None /\ \A t \in Threads : pc[t] \in {"idle", "done"}
QuietAgrees == Quiet => Agrees

\* Once connections stop, the row comes to agree with the tracker, unless a
\* store error intervened.
ProjectionCatchesUp == <>[](Agrees \/ faults > 0)
=============================================================================
