--------------------------- MODULE OperationTrace ---------------------------
(***************************************************************************)
(* The diagnostic evidence of the TriggerMessage operations of one         *)
(* charger: the observer that pairs OCPP answers with operations by unique *)
(* id, the trace rows it appends, and the observation window that an       *)
(* Accepted answer opens, which a later message of the charger or the      *)
(* trace worker closes.                                                    *)
(*                                                                         *)
(* Each store operation is one database transaction and one action.  The   *)
(* claim of an operation is the subject of ChargerOperation; here it is    *)
(* one step.  Trace rows are counted per kind; the row of the CALL itself  *)
(* and the delivery of the rows to CMS are left out.                       *)
(***************************************************************************)
EXTENDS Naturals, FiniteSets

CONSTANTS
    Ops,             \* TriggerMessage operations, all of the same charger
    Expected,        \* [Ops -> actions]: requested_message
    Connector,       \* [Ops -> Nat]: ocpp_connector_number, 0 for none
    Conns,           \* websocket connections, each with its read loop
    Frames,          \* charger CALLs: [action, connector]
    Null,
    Window,          \* v1TriggerMessageFollowOnWindow
    Limit,           \* windows closed in one pass of the trace worker
    MaxTime,         \* bound: the clock; answers come early enough to expire
    MaxFrames,       \* bound: charger CALLs read
    MaxDisruptions   \* bound: store errors, crashes and disconnects together

\* What a read loop does with an answer, and a row of a window.
LoopStates == [op : Ops, at : 0..MaxTime, step : {"append", "handle"}]
WindowRows == [state : {"OPEN", "OBSERVED", "CLOSED"}, accepted : 0..MaxTime,
               observed : 0..MaxTime \cup {Null}]

ASSUME TraceAssumption ==
    /\ Connector \in [Ops -> Nat]
    /\ Window \in Nat \ {0}
    /\ Limit \in Nat \ {0}
    /\ MaxTime \in Nat
    /\ Null \notin Nat \cup {"pending", "Accepted", "Rejected"}
    /\ Null \notin LoopStates /\ Null \notin WindowRows

VARIABLES
    state,       \* v1_charger_operations.state, with where its dispatcher is
    requests,    \* operations with an HTTP request on its way to EnsureV1Trace
    traced,      \* history: operations that had their trace root when claimed
    root,        \* operations with a row in v1_charging_traces
    entry,       \* operationObserver: in byRequest, in byUnique, or in none
    answer,      \* the CALL: Null before it is sent, its status once answered
    heard,       \* <<operation, connection, bound>>: answers a read loop took
    loop,        \* what each read loop is doing with an answer
    window,      \* v1_trigger_message_follow_on_windows
    events,      \* v1_charging_trace_events: rows of each kind
    inbox,       \* goroutines handling a charger CALL
    recorded,    \* history: CALLs matched against the windows
    closer,      \* the worker's "now" during a pass, Null between passes
    clock,
    dropped,     \* history: entries removed by a disconnect handler
    frames, faults, crashes, disconnects

operation == <<state, requests, traced>>
rows == <<root, window, events>>
observer == <<entry, loop, heard, dropped>>
messages == <<inbox, recorded, frames>>
env == <<clock, faults, crashes, disconnects>>
vars == <<operation, answer, rows, observer, messages, closer, env>>

Waiting == {"DISPATCHED", "QUEUED"}
States == Waiting \cup {"PERSISTED", "OCPP_CONFIRMED", "RECONCILIATION_REQUIRED"}
Kinds == {"CALLRESULT", "FOLLOW_ON", "FOLLOW_ON_CLOSED"}
V1TriggerMessageConnectorScoped(action) == action \in {"MeterValues", "StatusNotification"}
Deadline(o) == window[o].accepted + Window
Open(o) == window[o] # Null /\ window[o].state = "OPEN"

Init ==
    /\ state = [o \in Ops |-> "PERSISTED"]
    /\ requests = Ops
    /\ traced = {}
    /\ root = {}
    /\ entry = [o \in Ops |-> "none"]
    /\ answer = [o \in Ops |-> Null]
    /\ heard = {}
    /\ loop = [c \in Conns |-> Null]
    /\ window = [o \in Ops |-> Null]
    /\ events = [o \in Ops |-> [k \in Kinds |-> 0]]
    /\ inbox = {}
    /\ recorded = {}
    /\ closer = Null
    /\ clock = 0
    /\ dropped = {}
    /\ frames = 0
    /\ faults = 0
    /\ crashes = 0
    /\ disconnects = 0

CanDisrupt == faults + crashes + disconnects < MaxDisruptions
Fault == CanDisrupt /\ faults' = faults + 1

\* AppendV1TraceEvent for the operations in os.
Append(os, kind) ==
    events' = [o \in Ops |-> IF o \in os
                             THEN [events[o] EXCEPT ![kind] = @ + 1] ELSE events[o]]

----------------------------------------------------------------------------
(* Dispatch of an operation.                                                *)

\* A repeated HTTP request finds the operation PERSISTED.  (Init has the request
\* that created it; one whose trace root is there already changes nothing.)
v1ChargerOperations(o) ==
    /\ state[o] = "PERSISTED"
    /\ o \notin root
    /\ requests' = requests \cup {o}
    /\ UNCHANGED <<state, traced, answer, rows, observer, messages, closer, env>>

\* If the charger is connected, the request makes the trace root before it goes
\* on to the claim.  It does not look at the state again, which a recovery pass
\* may have changed meanwhile; an error is ignored.
EnsureV1Trace(o) ==
    /\ o \in requests
    /\ requests' = requests \ {o}
    /\ root' = root \cup {o}
    /\ UNCHANGED <<state, traced, answer, window, events, observer, messages, closer, env>>

\* The request, or a recovery pass that makes no trace root, claims the
\* operation and registers its OCPP request with the observer.
DispatchChargerOperation(o) ==
    /\ state[o] = "PERSISTED"
    /\ state' = [state EXCEPT ![o] = "DISPATCHED"]
    /\ traced' = IF o \in root THEN traced \cup {o} ELSE traced
    /\ entry' = [entry EXCEPT ![o] = "request"]
    /\ UNCHANGED <<requests, answer, rows, heard, loop, dropped, messages, closer, env>>

\* The library has given the request a unique id; it queues and writes the
\* CALL by itself.
SendRequest(o) ==
    /\ state[o] = "DISPATCHED"
    /\ state' = [state EXCEPT ![o] = "QUEUED"]
    /\ entry' = [entry EXCEPT ![o] = IF @ = "request" THEN "unique" ELSE @]
    /\ answer' = [answer EXCEPT ![o] = "pending"]
    /\ UNCHANGED <<requests, traced, rows, heard, loop, dropped, messages, closer, env>>

\* SendRequest failed: the binding is undone.
SendRequestFails(o) ==
    /\ state[o] = "DISPATCHED"
    /\ state' = [state EXCEPT ![o] = "RECONCILIATION_REQUIRED"]
    /\ entry' = [entry EXCEPT ![o] = "none"]
    /\ UNCHANGED <<requests, traced, answer, rows, heard, loop, dropped, messages, closer, env>>

\* The library reports an error to the callback (a failed write, a lost
\* connection); the entry stays.
CallFails(o) ==
    /\ state[o] = "QUEUED"
    /\ state' = [state EXCEPT ![o] = "RECONCILIATION_REQUIRED"]
    /\ UNCHANGED <<requests, traced, answer, rows, observer, messages, closer, env>>

\* The context of the dispatch ends first: forgetTrace.
DispatchTimeout(o) ==
    /\ state[o] = "QUEUED"
    /\ state' = [state EXCEPT ![o] = "RECONCILIATION_REQUIRED"]
    /\ entry' = [entry EXCEPT ![o] = "none"]
    /\ UNCHANGED <<requests, traced, answer, rows, heard, loop, dropped, messages, closer, env>>

----------------------------------------------------------------------------
(* The read loop of a connection: evidence first, then the library.         *)

\* An answer, or the same answer again on another connection.
Answer(c, o, status) ==
    /\ loop[c] = Null
    /\ \A b \in BOOLEAN : <<o, c, b>> \notin heard
    /\ answer[o] \in {"pending", status}
    /\ clock + Window <= MaxTime
    /\ answer' = [answer EXCEPT ![o] = status]
    /\ heard' = heard \cup {<<o, c, entry[o] = "unique">>}
    /\ loop' = [loop EXCEPT ![c] =
          [op |-> o, at |-> clock, step |-> IF entry[o] = "unique" THEN "append" ELSE "handle"]]
    /\ UNCHANGED <<operation, rows, entry, dropped, messages, closer, env>>

\* An Accepted answer and its window are one transaction, once per trace.
AppendV1AcceptedTriggerMessageTrace(o, at) ==
    IF window[o] = Null
    THEN /\ Append({o}, "CALLRESULT")
         /\ window' = [window EXCEPT ![o] =
                [state |-> "OPEN", accepted |-> at, observed |-> Null]]
    ELSE UNCHANGED <<events, window>>

\* The evidence of an answer, then the end of its entry.  Without a trace root
\* nothing can be stored; an error is only logged.
received(c) ==
    /\ loop[c] # Null
    /\ loop[c].step = "append"
    /\ loop' = [loop EXCEPT ![c].step = "handle"]
    /\ entry' = [entry EXCEPT ![loop[c].op] = "none"]
    /\ LET o == loop[c].op IN
       IF o \in root
       THEN \/ /\ IF answer[o] = "Accepted"
                  THEN AppendV1AcceptedTriggerMessageTrace(o, loop[c].at)
                  ELSE Append({o}, "CALLRESULT") /\ UNCHANGED window
               /\ UNCHANGED faults
            \/ Fault /\ UNCHANGED <<events, window>>
       ELSE UNCHANGED <<events, window, faults>>
    /\ UNCHANGED <<operation, answer, root, heard, dropped, messages, closer,
                   clock, crashes, disconnects>>

\* Mutant: the library sees the answer before the observer does.
ConfirmFirst(c) ==
    /\ loop[c] # Null
    /\ loop' = [loop EXCEPT ![c] = Null]
    /\ state' = [state EXCEPT ![loop[c].op] = IF @ \in Waiting THEN "OCPP_CONFIRMED" ELSE @]
    /\ UNCHANGED <<requests, traced, answer, rows, entry, heard, dropped, messages, closer, env>>

\* The library hands the answer to the waiting dispatcher, which records the
\* result; an answer nobody waits for is ignored.
Confirm(c) ==
    /\ loop[c] # Null
    /\ loop[c].step = "handle"
    /\ loop' = [loop EXCEPT ![c] = Null]
    /\ state' = [state EXCEPT ![loop[c].op] = IF @ \in Waiting THEN "OCPP_CONFIRMED" ELSE @]
    /\ UNCHANGED <<requests, traced, answer, rows, entry, heard, dropped, messages, closer, env>>

\* The end of a disconnect handler, however late: the charger's bound entries
\* are removed, those of a newer connection included.  (With none it changes
\* nothing.)
forgetCharger ==
    /\ CanDisrupt
    /\ disconnects' = disconnects + 1
    /\ LET bound == {o \in Ops : entry[o] = "unique"} IN
       /\ bound # {}
       /\ entry' = [o \in Ops |-> IF o \in bound THEN "none" ELSE entry[o]]
       /\ dropped' = dropped \cup bound
    /\ UNCHANGED <<operation, answer, rows, heard, loop, messages, closer, clock,
                   faults, crashes>>

----------------------------------------------------------------------------
(* Messages of the charger, and the end of a window.                        *)

\* Mutant: evidence is written in the background while the loop reads on.
ReadBehindEvidence(c, f) ==
    /\ frames < MaxFrames
    /\ frames' = frames + 1
    /\ inbox' = inbox \cup {[id |-> frames, frame |-> f, at |-> Null,
                             after |-> {o \in Ops : <<o, c, TRUE>> \in heard}]}
    /\ UNCHANGED <<operation, answer, rows, observer, recorded, closer, env>>

\* A read loop takes the next frame only when it is done with the last one;
\* the CALL is handled by a goroutine of its own.
Read(c, f) ==
    /\ frames < MaxFrames
    /\ loop[c] = Null
    /\ frames' = frames + 1
    /\ inbox' = inbox \cup {[id |-> frames, frame |-> f, at |-> Null,
                             after |-> {o \in Ops : <<o, c, TRUE>> \in heard}]}
    /\ UNCHANGED <<operation, answer, rows, observer, recorded, closer, env>>

\* The handler takes the time; frames that name no connector where one is
\* needed are not matched.
recordTriggerMessageFollowOn(m) ==
    /\ m.at = Null
    /\ inbox' = (inbox \ {m}) \cup
          IF V1TriggerMessageConnectorScoped(m.frame.action) /\ m.frame.connector < 1
          THEN {} ELSE {[m EXCEPT !.at = clock]}
    /\ UNCHANGED <<operation, answer, rows, observer, recorded, frames, closer, env>>

\* The window's own criteria for a message.
InTime(o, m) == window[o].accepted < m.at /\ m.at <= Deadline(o)
SameSource(o, f) ==
    /\ Expected[o] = f.action
    /\ \/ ~V1TriggerMessageConnectorScoped(f.action)
       \/ Connector[o] \in {0, f.connector}

\* Mutant: the deadline is not looked at.
MatchesLate(m) ==
    {o \in Ops : Open(o) /\ window[o].accepted < m.at /\ SameSource(o, m.frame)}

Matches(m) == {o \in Ops : Open(o) /\ InTime(o, m) /\ SameSource(o, m.frame)}

RecordV1TriggerMessageFollowOn(m) ==
    /\ m.at # Null
    /\ inbox' = inbox \ {m}
    /\ \/ /\ window' = [o \in Ops |-> IF o \in Matches(m)
                THEN [window[o] EXCEPT !.state = "OBSERVED", !.observed = m.at]
                ELSE window[o]]
          /\ Append(Matches(m), "FOLLOW_ON")
          /\ recorded' = recorded \cup {m}
          /\ UNCHANGED faults
       \/ Fault /\ UNCHANGED <<window, events, recorded>>
    /\ UNCHANGED <<operation, answer, root, observer, frames, closer, clock, crashes,
                   disconnects>>

\* A pass of the trace worker takes the time once.
RunOnce ==
    /\ closer = Null
    /\ \E o \in Ops : Open(o) /\ Deadline(o) <= clock
    /\ closer' = clock
    /\ UNCHANGED <<operation, answer, rows, observer, messages, env>>

\* Mutant: a pass that finds more than Limit windows closes none.
DueWhole ==
    LET due == {o \in Ops : Open(o) /\ Deadline(o) <= closer} IN
    IF Cardinality(due) <= Limit THEN {due} ELSE {{}}

\* The expired windows a pass may close: at most Limit, earliest deadline first.
Due ==
    LET due == {o \in Ops : Open(o) /\ Deadline(o) <= closer}
        n   == IF Cardinality(due) < Limit THEN Cardinality(due) ELSE Limit
    IN {S \in SUBSET due : /\ Cardinality(S) = n
                           /\ \A o \in S, p \in due \ S : Deadline(o) <= Deadline(p)}

CloseV1TriggerMessageFollowOnWindows ==
    /\ closer # Null
    /\ closer' = Null
    /\ \/ /\ \E S \in Due :
                /\ window' = [o \in Ops |-> IF o \in S
                      THEN [window[o] EXCEPT !.state = "CLOSED"] ELSE window[o]]
                /\ Append(S, "FOLLOW_ON_CLOSED")
          /\ UNCHANGED faults
       \/ Fault /\ UNCHANGED <<window, events>>
    /\ UNCHANGED <<operation, answer, root, observer, messages, clock, crashes,
                   disconnects>>

----------------------------------------------------------------------------
Tick ==
    /\ clock < MaxTime
    /\ clock' = clock + 1
    /\ UNCHANGED <<operation, answer, rows, observer, messages, closer, faults,
                   crashes, disconnects>>

\* The process dies; after the restart interrupted operations are ambiguous.
Crash ==
    /\ CanDisrupt
    /\ crashes' = crashes + 1
    /\ requests' = {}
    /\ state' = [o \in Ops |-> IF state[o] \in Waiting
                               THEN "RECONCILIATION_REQUIRED" ELSE state[o]]
    /\ entry' = [o \in Ops |-> "none"]
    /\ loop' = [c \in Conns |-> Null]
    /\ inbox' = {}
    /\ closer' = Null
    /\ UNCHANGED <<traced, answer, rows, heard, dropped, recorded, frames, clock, faults,
                   disconnects>>

Operate(o) ==
    \/ v1ChargerOperations(o)
    \/ EnsureV1Trace(o)
    \/ DispatchChargerOperation(o)
    \/ SendRequest(o) \/ SendRequestFails(o)
    \/ CallFails(o) \/ DispatchTimeout(o)

Worker == RunOnce \/ CloseV1TriggerMessageFollowOnWindows

Next ==
    \/ \E o \in Ops : Operate(o)
    \/ \E c \in Conns, o \in Ops, s \in {"Accepted", "Rejected"} : Answer(c, o, s)
    \/ \E c \in Conns : received(c) \/ Confirm(c)
    \/ \E c \in Conns, f \in Frames : Read(c, f)
    \/ \E m \in inbox : recordTriggerMessageFollowOn(m) \/ RecordV1TriggerMessageFollowOn(m)
    \/ forgetCharger
    \/ Worker
    \/ Tick
    \/ Crash

Spec == Init /\ [][Next]_vars

\* Time passes and the trace worker ticks every 2 s; nothing else is needed to
\* end a window.
FairSpec == Spec /\ WF_vars(Tick) /\ WF_vars(Worker)

----------------------------------------------------------------------------
(* Properties.                                                              *)

\* Every row, map and goroutine holds a value of its type.
TypeOK ==
    /\ state \in [Ops -> States]
    /\ requests \subseteq Ops
    /\ traced \subseteq Ops
    /\ root \subseteq Ops
    /\ entry \in [Ops -> {"none", "request", "unique"}]
    /\ answer \in [Ops -> {"pending", "Accepted", "Rejected", Null}]
    /\ heard \subseteq Ops \X Conns \X BOOLEAN
    /\ loop \in [Conns -> LoopStates \cup {Null}]
    /\ window \in [Ops -> WindowRows \cup {Null}]
    /\ events \in [Ops -> [Kinds -> Nat]]
    /\ closer \in 0..MaxTime \cup {Null}
    /\ clock \in 0..MaxTime
    /\ dropped \subseteq Ops

\* The verdict of a window and the trace rows sent to CMS tell one story: one
\* Accepted row when the window opens, then either one FOLLOW_ON row or one
\* FOLLOW_ON_CLOSED row, never both, whatever races with the closing worker.  An observation lies
\* after the acceptance and not after the deadline, as the table's CHECK
\* constraints demand, although its handler took the time long before.
VerdictMatchesEvidence ==
    \A o \in Ops :
        LET verdict == IF window[o] = Null THEN "NONE" ELSE window[o].state IN
        /\ verdict # "NONE" => o \in root /\ events[o]["CALLRESULT"] = 1
        /\ events[o]["FOLLOW_ON"] = IF verdict = "OBSERVED" THEN 1 ELSE 0
        /\ events[o]["FOLLOW_ON_CLOSED"] = IF verdict = "CLOSED" THEN 1 ELSE 0
        /\ verdict = "OBSERVED" => InTime(o, [at |-> window[o].observed])

\* A message the read loop took after an answer it paired, handled within the window, is
\* never missed: while the window is OPEN no such message has been recorded.
\* Needs the window to be committed before the loop reads on (received), hence a
\* trace root from the claim on: with a later one the same answer on another
\* connection may open the window behind the message.
NoMissedFollowOn ==
    faults = 0 =>
        \A o \in traced, m \in recorded :
            Open(o) /\ o \in m.after /\ SameSource(o, m.frame) => ~InTime(o, m)

\* The answer is durable evidence before the operation is confirmed, and an
\* Accepted one has its window, for every operation that had its trace root when
\* it was claimed; unless a store error ate it or a disconnect handler removed
\* the entry first.  A root that a request makes behind a recovery pass comes too
\* late for this.
EvidenceBeforeOutcome ==
    \A o \in Ops :
        state[o] = "OCPP_CONFIRMED" /\ o \in traced \ dropped /\ faults = 0 =>
            /\ events[o]["CALLRESULT"] > 0
            /\ answer[o] = "Accepted" => window[o] # Null

\* Every window ends, even when the worker closes only a batch in each pass,
\* fails once or dies with the process.
WindowsSettle ==
    \A o \in Ops : []<>~Open(o)

\* What the contract says of every accepted TriggerMessage: its Accepted trace
\* and its window are committed before the operation is completed.
AcceptedIsCommitted ==
    \A o \in Ops : state[o] = "OCPP_CONFIRMED" /\ answer[o] = "Accepted" => window[o] # Null
=============================================================================
