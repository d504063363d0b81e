---------------------------- MODULE TraceProofs ----------------------------
(***************************************************************************)
(* Proofs about the diagnostic traces: OperationTrace for any number of    *)
(* operations, connections and messages, and any bound on time and         *)
(* disruptions.                                                            *)
(***************************************************************************)
EXTENDS OperationTrace, TLAPS

Final == {"Accepted", "Rejected"}

\* A message that is handled: at is Null until the handler has taken the time.
Messages == [id : Nat, frame : Frames, at : 0..MaxTime \cup {Null}, after : SUBSET Ops]

TypeInv ==
    /\ TypeOK
    /\ inbox \subseteq Messages
    /\ traced \subseteq root
    /\ recorded \subseteq Messages /\ \A m \in recorded : m.at # Null
    /\ frames \in Nat /\ faults \in Nat

\* What an answer leaves behind comes after the answer, and an Accepted answer
\* leaves its row and its window behind together.
AnswerInv ==
    /\ \A o \in Ops :
          /\ state[o] \in {"PERSISTED", "DISPATCHED"} => answer[o] = Null
          /\ state[o] = "DISPATCHED" => entry[o] = "request"
          /\ events[o]["CALLRESULT"] > 0 => answer[o] \in Final
          /\ window[o] # Null => answer[o] = "Accepted"
          /\ answer[o] = "Accepted" /\ window[o] = Null => events[o]["CALLRESULT"] = 0
          /\ \A c \in Conns : <<o, c, TRUE>> \in heard => answer[o] \in Final
    /\ \A c \in Conns : loop[c] # Null => answer[loop[c].op] \in Final

\* The read loop whose state is l has an answer to o in hand, at this step.
Holds(l, o, step) == l # Null /\ l.op = o /\ l.step = step
Appending(c, o) == Holds(loop[c], o, "append")

\* No answer can open a window for o any more.
Sealed(o) ==
    /\ state[o] # "PERSISTED"
    /\ \/ o \notin traced
       \/ answer[o] = "Rejected"
       \/ entry[o] = "none" /\ \A c \in Conns : ~Appending(c, o)

\* While no store operation has failed: once a read loop is done with an answer
\* it paired, the window is there or will never be.
OpenedInv ==
    faults = 0 =>
        /\ \A o \in Ops, c \in Conns : <<o, c, TRUE>> \in heard /\ ~Appending(c, o) =>
              window[o] # Null \/ Sealed(o)
        /\ \A m \in inbox \cup recorded : \A o \in m.after : window[o] # Null \/ Sealed(o)

Excused(o) == o \notin traced \/ o \in dropped \/ faults > 0
Evident(o) == events[o]["CALLRESULT"] > 0 /\ (answer[o] = "Accepted" => window[o] # Null)

\* An operation that waits has its entry, or its evidence, or an excuse; and so
\* has an answer that is about to be handed to it.
OutcomeInv ==
    /\ \A o \in Ops : state[o] = "QUEUED" =>
          entry[o] = "unique" \/ Excused(o) \/ Evident(o)
    /\ \A c \in Conns : loop[c] # Null /\ loop[c].step = "handle" =>
          \/ state[loop[c].op] # "QUEUED"
          \/ Excused(loop[c].op) \/ Evident(loop[c].op)

\* VerdictMatchesEvidence, by the state of the window.
VerdictInv ==
    \A o \in Ops :
        /\ window[o] = Null => events[o]["FOLLOW_ON"] = 0 /\ events[o]["FOLLOW_ON_CLOSED"] = 0
        /\ window[o] # Null =>
              /\ o \in root /\ events[o]["CALLRESULT"] = 1
              /\ events[o]["FOLLOW_ON"] = IF window[o].state = "OBSERVED" THEN 1 ELSE 0
              /\ events[o]["FOLLOW_ON_CLOSED"] = IF window[o].state = "CLOSED" THEN 1 ELSE 0
              /\ window[o].state = "OBSERVED" =>
                    window[o].accepted < window[o].observed /\ window[o].observed <= Deadline(o)

IInv ==
    /\ TypeInv /\ AnswerInv /\ VerdictInv
    /\ OpenedInv /\ NoMissedFollowOn
    /\ OutcomeInv /\ EvidenceBeforeOutcome

----------------------------------------------------------------------------
(* Types.                                                                   *)

LEMMA NullDiffers ==
  /\ Null \notin Nat /\ Null \notin {"pending", "Accepted", "Rejected"}
  /\ Null \notin LoopStates /\ Null \notin WindowRows
  /\ MaxTime \in Nat /\ Window \in Nat
  BY TraceAssumption

LEMMA InitType == ASSUME Init PROVE TypeInv
  <1>1. events \in [Ops -> [Kinds -> Nat]]
    BY DEF Init
  <1>2. TypeOK
    BY <1>1, NullDiffers DEF Init, TypeOK, States, Waiting
  <1>3. QED
    BY <1>2 DEF Init, TypeInv

\* What Append does to the rows of an operation.
LEMMA AppendRows ==
  ASSUME events \in [Ops -> [Kinds -> Nat]], NEW os, NEW kind \in Kinds, Append(os, kind)
  PROVE  /\ events' \in [Ops -> [Kinds -> Nat]]
         /\ \A o \in Ops :
               /\ o \in os => events'[o][kind] = events[o][kind] + 1
               /\ o \notin os => events'[o] = events[o]
               /\ \A k \in Kinds : k # kind => events'[o][k] = events[o][k]
  <1>1. ASSUME NEW o \in Ops
        PROVE  /\ events'[o] \in [Kinds -> Nat]
               /\ o \in os => events'[o][kind] = events[o][kind] + 1
               /\ o \notin os => events'[o] = events[o]
               /\ \A k \in Kinds : k # kind => events'[o][k] = events[o][k]
    <2>1. events[o] \in [Kinds -> Nat]
      OBVIOUS
    <2>2. CASE o \in os
      <3>1. events'[o] = [events[o] EXCEPT ![kind] = events[o][kind] + 1]
        BY <2>2 DEF Append
      <3>2. QED
        BY <2>1, <2>2, <3>1
    <2>3. CASE o \notin os
      BY <2>1, <2>3 DEF Append
    <2>4. QED
      BY <2>2, <2>3
  <1>2. events' = [o \in Ops |-> events'[o]]
    BY DEF Append
  <1>3. QED
    BY <1>1, <1>2

LEMMA LoopDone ==
  ASSUME TypeInv, NEW c \in Conns, received(c)
  PROVE  /\ loop[c] \in LoopStates /\ loop[c].op \in Ops /\ loop[c].step = "append"
         /\ loop[c].at \in 0..MaxTime
         /\ loop' \in [Conns -> LoopStates \cup {Null}]
         /\ loop'[c] # Null /\ loop'[c].op = loop[c].op /\ loop'[c].step = "handle"
         /\ \A d \in Conns : d # c => loop'[d] = loop[d]
  <1>1. PICK r \in LoopStates : r = loop[c]
    BY DEF received, TypeInv, TypeOK
  <1>2. r.op \in Ops /\ r.at \in 0..MaxTime
    BY DEF LoopStates
  <1> DEFINE q == [r EXCEPT !.step = "handle"]
  <1>3. q \in LoopStates /\ q.op = r.op /\ q.step = "handle"
    BY DEF LoopStates
  <1>4. loop' = [loop EXCEPT ![c] = q]
    BY <1>1 DEF received, TypeInv, TypeOK
  <1> HIDE DEF q
  <1>5. QED
    BY <1>1, <1>2, <1>3, <1>4, NullDiffers, Zenon DEF received, TypeInv, TypeOK

\* What the evidence of an answer does to the rows of its operation.
LEMMA ReceivedRows ==
  ASSUME TypeInv, NEW c \in Conns, received(c), NEW o, o = loop[c].op
  PROVE  \/ /\ o \in root /\ answer[o] = "Accepted" /\ window[o] = Null /\ faults' = faults
            /\ Append({o}, "CALLRESULT")
            /\ window' = [window EXCEPT ![o] =
                  [state |-> "OPEN", accepted |-> loop[c].at, observed |-> Null]]
         \/ /\ o \in root /\ answer[o] = "Accepted" /\ window[o] # Null
            /\ UNCHANGED <<events, window, faults>>
         \/ /\ o \in root /\ answer[o] # "Accepted"
            /\ Append({o}, "CALLRESULT") /\ UNCHANGED <<window, faults>>
         \/ o \in root /\ faults' = faults + 1 /\ UNCHANGED <<events, window>>
         \/ o \notin root /\ UNCHANGED <<events, window, faults>>
  BY DEF received, AppendV1AcceptedTriggerMessageTrace, Fault

\* A matched window becomes OBSERVED, and the others stay.
LEMMA RecordedRows ==
  ASSUME TypeInv, NEW m \in Messages, m.at # Null,
         window' = [o \in Ops |-> IF o \in Matches(m)
                THEN [window[o] EXCEPT !.state = "OBSERVED", !.observed = m.at]
                ELSE window[o]]
  PROVE  /\ window' \in [Ops -> WindowRows \cup {Null}]
         /\ \A o \in Ops :
               /\ o \notin Matches(m) => window'[o] = window[o]
               /\ o \in Matches(m) =>
                     /\ window[o] \in WindowRows /\ window'[o] \in WindowRows
                     /\ window[o].state = "OPEN" /\ window'[o].state = "OBSERVED"
                     /\ window'[o].accepted = window[o].accepted
                     /\ window'[o].observed = m.at
  <1>1. ASSUME NEW o \in Ops, o \in Matches(m)
        PROVE  /\ window[o] \in WindowRows /\ window'[o] \in WindowRows
               /\ window[o].state = "OPEN" /\ window'[o].state = "OBSERVED"
               /\ window'[o].accepted = window[o].accepted
               /\ window'[o].observed = m.at
    <2>1. window[o] # Null /\ window[o].state = "OPEN"
      BY <1>1, Zenon DEF Matches, Open
    <2>2. PICK r \in WindowRows : r = window[o]
      BY <2>1, Zenon DEF TypeInv, TypeOK
    <2>3. m.at \in 0..MaxTime \cup {Null}
      BY Zenon DEF Messages
    <2> DEFINE q == [r EXCEPT !.state = "OBSERVED", !.observed = m.at]
    <2>4. /\ q \in WindowRows /\ q.state = "OBSERVED" /\ q.accepted = r.accepted
          /\ q.observed = m.at
      BY <2>3, Zenon DEF WindowRows
    <2>5. window'[o] = q
      BY <1>1, <2>2, Zenon
    <2> HIDE DEF q
    <2>6. QED
      BY <2>1, <2>2, <2>4, <2>5, Zenon
  <1>2. \A o \in Ops : o \notin Matches(m) => window'[o] = window[o]
    BY Zenon
  <1>3. \A o \in Ops : window'[o] \in WindowRows \cup {Null}
    BY <1>1, <1>2, Zenon DEF TypeInv, TypeOK
  <1>4. QED
    BY <1>1, <1>2, <1>3, Zenon

\* The windows of a pass become CLOSED, and the others stay.
LEMMA ClosedRows ==
  ASSUME TypeInv, NEW S \in Due,
         window' = [o \in Ops |-> IF o \in S
                      THEN [window[o] EXCEPT !.state = "CLOSED"] ELSE window[o]]
  PROVE  /\ window' \in [Ops -> WindowRows \cup {Null}]
         /\ \A o \in Ops :
               /\ o \notin S => window'[o] = window[o]
               /\ o \in S =>
                     /\ window[o] \in WindowRows /\ window'[o] \in WindowRows
                     /\ window[o].state = "OPEN" /\ window'[o].state = "CLOSED"
  <1>1. ASSUME NEW o \in Ops, o \in S
        PROVE  /\ window[o] \in WindowRows /\ window'[o] \in WindowRows
               /\ window[o].state = "OPEN" /\ window'[o].state = "CLOSED"
    <2>1. window[o] # Null /\ window[o].state = "OPEN"
      BY <1>1 DEF Due, Open
    <2>2. PICK r \in WindowRows : r = window[o]
      BY <2>1 DEF TypeInv, TypeOK
    <2> DEFINE q == [r EXCEPT !.state = "CLOSED"]
    <2>3. q \in WindowRows /\ q.state = "CLOSED"
      BY DEF WindowRows
    <2>4. window'[o] = q
      BY <1>1, <2>2
    <2> HIDE DEF q
    <2>5. QED
      BY <2>1, <2>2, <2>3, <2>4
  <1>2. \A o \in Ops : o \notin S => window'[o] = window[o]
    OBVIOUS
  <1>3. \A o \in Ops : window'[o] \in WindowRows \cup {Null}
    BY <1>1, <1>2 DEF TypeInv, TypeOK
  <1>4. QED
    BY <1>1, <1>2, <1>3

LEMMA NextType == ASSUME TypeInv, [Next]_vars PROVE TypeInv'
  <1> USE DEF operation, rows, observer, messages, env
  <1>0. /\ events \in [Ops -> [Kinds -> Nat]]
        /\ {"CALLRESULT", "FOLLOW_ON", "FOLLOW_ON_CLOSED"} \subseteq Kinds
    BY DEF TypeInv, TypeOK, Kinds
  <1>1. ASSUME NEW o \in Ops, Operate(o) PROVE TypeInv'
    <2>1. CASE EnsureV1Trace(o)
      BY <2>1 DEF EnsureV1Trace, TypeInv, TypeOK
    <2>2. CASE DispatchChargerOperation(o)
      BY <2>2 DEF DispatchChargerOperation, TypeInv, TypeOK, States, Waiting
    <2>3. CASE SendRequest(o)
      <3>1. entry' \in [Ops -> {"none", "request", "unique"}]
        BY <2>3 DEF SendRequest, TypeInv, TypeOK
      <3>2. QED
        BY <2>3, <3>1 DEF SendRequest, TypeInv, TypeOK, States, Waiting
    <2>4. CASE SendRequestFails(o)
      BY <2>4 DEF SendRequestFails, TypeInv, TypeOK, States, Waiting
    <2>5. CASE CallFails(o)
      BY <2>5 DEF CallFails, TypeInv, TypeOK, States, Waiting
    <2>6. CASE DispatchTimeout(o)
      BY <2>6 DEF DispatchTimeout, TypeInv, TypeOK, States, Waiting
    <2>7. CASE v1ChargerOperations(o)
      BY <2>7 DEF v1ChargerOperations, TypeInv, TypeOK
    <2>8. QED
      BY <1>1, <2>1, <2>2, <2>3, <2>4, <2>5, <2>6, <2>7 DEF Operate
  <1>2. ASSUME NEW c \in Conns, NEW o \in Ops, NEW s \in Final, Answer(c, o, s)
        PROVE  TypeInv'
    <2> DEFINE step == IF entry[o] = "unique" THEN "append" ELSE "handle"
    <2>1. [op |-> o, at |-> clock, step |-> step] \in LoopStates
      BY DEF LoopStates, TypeInv, TypeOK
    <2>2. loop' \in [Conns -> LoopStates \cup {Null}]
      <3>1. loop' = [loop EXCEPT ![c] = [op |-> o, at |-> clock, step |-> step]]
        BY <1>2 DEF Answer
      <3> HIDE DEF step
      <3>2. QED
        BY <2>1, <3>1 DEF TypeInv, TypeOK
    <2>3. heard' \subseteq Ops \X Conns \X BOOLEAN
      <3>1. <<o, c, entry[o] = "unique">> \in Ops \X Conns \X BOOLEAN
        BY Zenon
      <3>2. heard' = heard \cup {<<o, c, entry[o] = "unique">>}
        BY <1>2 DEF Answer
      <3>3. heard \subseteq Ops \X Conns \X BOOLEAN
        BY DEF TypeInv, TypeOK
      <3>4. QED
        BY <3>1, <3>2, <3>3, Zenon
    <2>4. QED
      BY <1>2, <2>2, <2>3 DEF Answer, TypeInv, TypeOK, Final
  <1>3. ASSUME NEW c \in Conns, received(c) PROVE TypeInv'
    <2>1. entry' \in [Ops -> {"none", "request", "unique"}]
      BY <1>3, LoopDone, Zenon DEF received, TypeInv, TypeOK
    <2> DEFINE o == loop[c].op
    <2>0. \/ /\ Append({o}, "CALLRESULT") /\ faults' = faults
             /\ \/ UNCHANGED window
                \/ window' = [window EXCEPT ![o] =
                      [state |-> "OPEN", accepted |-> loop[c].at, observed |-> Null]]
          \/ UNCHANGED <<events, window>> /\ faults' \in {faults, faults + 1}
      BY <1>3, ReceivedRows
    <2>2. events' \in [Ops -> [Kinds -> Nat]] /\ faults' \in Nat
      <3>1. ASSUME Append({o}, "CALLRESULT") PROVE events' \in [Ops -> [Kinds -> Nat]]
        BY <1>0, <3>1, AppendRows
      <3>2. events' \in [Ops -> [Kinds -> Nat]]
        BY <1>0, <2>0, <3>1
      <3>3. faults' \in Nat
        BY <2>0 DEF TypeInv
      <3>4. QED
        BY <3>2, <3>3
    <2>3. window' \in [Ops -> WindowRows \cup {Null}]
      <3>1. [state |-> "OPEN", accepted |-> loop[c].at, observed |-> Null] \in WindowRows
        BY <1>3, LoopDone DEF WindowRows
      <3>2. o \in Ops /\ window \in [Ops -> WindowRows \cup {Null}]
        BY <1>3, LoopDone DEF TypeInv, TypeOK
      <3> HIDE DEF o
      <3>3. QED
        BY <2>0, <3>1, <3>2
    <2>4. QED
      BY <1>3, <2>1, <2>2, <2>3, LoopDone, Zenon DEF received, TypeInv, TypeOK
  <1>4. ASSUME NEW c \in Conns, Confirm(c) PROVE TypeInv'
    <2>1. loop[c].op \in Ops
      BY <1>4 DEF Confirm, TypeInv, TypeOK, LoopStates
    <2>2. state' \in [Ops -> States]
      BY <1>4, <2>1 DEF Confirm, TypeInv, TypeOK, States
    <2>3. QED
      BY <1>4, <2>2 DEF Confirm, TypeInv, TypeOK
  <1>5. ASSUME NEW c \in Conns, NEW f \in Frames, Read(c, f) PROVE TypeInv'
    <2> DEFINE after == {o \in Ops : <<o, c, TRUE>> \in heard}
               m == [id |-> frames, frame |-> f, at |-> Null, after |-> after]
    <2>1. inbox' = inbox \cup {m}
      BY <1>5 DEF Read
    <2>2. after \in SUBSET Ops
      BY Zenon
    <2> HIDE DEF after
    <2>3. m \in Messages
      BY <2>2 DEF Messages, TypeInv
    <2> HIDE DEF m
    <2>4. inbox' \subseteq Messages /\ frames' \in Nat
      <3>1. frames' = frames + 1
        BY <1>5 DEF Read
      <3>2. QED
        BY <2>1, <2>3, <3>1 DEF TypeInv
    <2>5. TypeOK'
      BY <1>5 DEF Read, TypeInv, TypeOK
    <2>6. QED
      BY <1>5, <2>4, <2>5, Zenon DEF Read, TypeInv
  <1>6. ASSUME NEW m \in inbox, recordTriggerMessageFollowOn(m) PROVE TypeInv'
    <2>1. m \in Messages /\ clock \in 0..MaxTime
      BY DEF TypeInv, TypeOK
    <2>2. [m EXCEPT !.at = clock] \in Messages
      BY <2>1 DEF Messages
    <2>3. inbox' \subseteq Messages
      BY <1>6, <2>2 DEF recordTriggerMessageFollowOn, TypeInv
    <2>4. QED
      BY <1>6, <2>3 DEF recordTriggerMessageFollowOn, TypeInv, TypeOK
  <1>7. ASSUME NEW m \in inbox, RecordV1TriggerMessageFollowOn(m) PROVE TypeInv'
    <2>1. m \in Messages /\ m.at # Null
      BY <1>7, Zenon DEF RecordV1TriggerMessageFollowOn, TypeInv
    <2>2. /\ window' \in [Ops -> WindowRows \cup {Null}] /\ faults' \in Nat
          /\ events' \in [Ops -> [Kinds -> Nat]]
      <3>1. CASE UNCHANGED <<window, events>> /\ faults' = faults + 1
        BY <1>0, <3>1 DEF TypeInv, TypeOK
      <3>2. CASE Append(Matches(m), "FOLLOW_ON") /\ UNCHANGED faults
                 /\ window' = [o \in Ops |-> IF o \in Matches(m)
                      THEN [window[o] EXCEPT !.state = "OBSERVED", !.observed = m.at]
                      ELSE window[o]]
        <4>1. events' \in [Ops -> [Kinds -> Nat]]
          BY <1>0, <3>2, AppendRows, Zenon
        <4>2. window' \in [Ops -> WindowRows \cup {Null}]
          BY <2>1, <3>2, RecordedRows, Zenon
        <4>3. QED
          BY <3>2, <4>1, <4>2, Zenon DEF TypeInv
      <3>3. QED
        BY <1>7, <3>1, <3>2, Zenon DEF RecordV1TriggerMessageFollowOn, Fault
    <2>3. inbox' \subseteq Messages /\ recorded' \subseteq Messages
          /\ \A n \in recorded' : n.at # Null
      BY <1>7, <2>1, Zenon DEF RecordV1TriggerMessageFollowOn, TypeInv
    <2>4. QED
      BY <1>7, <2>2, <2>3, Zenon DEF RecordV1TriggerMessageFollowOn, TypeInv, TypeOK
  <1>8. CASE forgetCharger
    BY <1>8 DEF forgetCharger, TypeInv, TypeOK
  <1>9. CASE RunOnce
    BY <1>9 DEF RunOnce, TypeInv, TypeOK
  <1>10. CASE CloseV1TriggerMessageFollowOnWindows
    <2>1. /\ window' \in [Ops -> WindowRows \cup {Null}] /\ faults' \in Nat
          /\ events' \in [Ops -> [Kinds -> Nat]]
      <3>1. CASE Fault /\ UNCHANGED <<window, events>>
        BY <1>0, <3>1 DEF Fault, TypeInv, TypeOK
      <3>2. ASSUME NEW S \in Due, Append(S, "FOLLOW_ON_CLOSED"),
                   window' = [o \in Ops |-> IF o \in S
                      THEN [window[o] EXCEPT !.state = "CLOSED"] ELSE window[o]]
            PROVE  /\ window' \in [Ops -> WindowRows \cup {Null}]
                   /\ events' \in [Ops -> [Kinds -> Nat]]
        BY <1>0, <3>2, ClosedRows, AppendRows
      <3>3. faults' \in Nat
        BY <1>10 DEF CloseV1TriggerMessageFollowOnWindows, Fault, TypeInv
      <3>4. QED
        BY <1>10, <3>1, <3>2, <3>3 DEF CloseV1TriggerMessageFollowOnWindows
    <2>2. /\ UNCHANGED <<operation, answer, root, observer, messages, clock>>
          /\ closer' = Null
      BY <1>10 DEF CloseV1TriggerMessageFollowOnWindows
    <2>3. QED
      BY <2>1, <2>2 DEF TypeInv, TypeOK
  <1>11. CASE Tick
    BY <1>11, NullDiffers DEF Tick, TypeInv, TypeOK
  <1>12. CASE Crash
    BY <1>12 DEF Crash, TypeInv, TypeOK, States
  <1>13. CASE UNCHANGED vars
    BY <1>13 DEF vars, TypeInv, TypeOK
  <1>14. QED
    BY <1>1, <1>2, <1>3, <1>4, <1>5, <1>6, <1>7, <1>8, <1>9, <1>10, <1>11, <1>12,
       <1>13 DEF Next, Worker, Final

----------------------------------------------------------------------------
(* Answers.                                                                 *)

\* A step that observes or closes windows opens none, and keeps the row of the
\* answer.
Kept ==
    \A o \in Ops : /\ (window'[o] = Null) <=> (window[o] = Null)
                   /\ window'[o] = window[o] \/ window'[o].state # "OPEN"
                   /\ events'[o]["CALLRESULT"] = events[o]["CALLRESULT"]

LEMMA RecordKeeps ==
  ASSUME TypeInv, NEW m \in inbox, RecordV1TriggerMessageFollowOn(m)
  PROVE  Kept
  <1>1. m \in Messages /\ m.at # Null
    BY Zenon DEF RecordV1TriggerMessageFollowOn, TypeInv
  <1>2. CASE UNCHANGED <<window, events>>
    BY <1>2 DEF Kept
  <1>3. CASE ~UNCHANGED <<window, events>>
    <2>1. /\ Append(Matches(m), "FOLLOW_ON")
          /\ window' = [o \in Ops |-> IF o \in Matches(m)
                THEN [window[o] EXCEPT !.state = "OBSERVED", !.observed = m.at]
                ELSE window[o]]
      BY <1>3, Zenon DEF RecordV1TriggerMessageFollowOn
    <2>2. \A o \in Ops : events'[o]["CALLRESULT"] = events[o]["CALLRESULT"]
      <3>1. "FOLLOW_ON" \in Kinds /\ "CALLRESULT" \in Kinds /\ events \in [Ops -> [Kinds -> Nat]]
        BY DEF Kinds, TypeInv, TypeOK
      <3>2. QED
        BY <2>1, <3>1, AppendRows, Zenon
    <2>3. \A o \in Ops : /\ (window'[o] = Null) <=> (window[o] = Null)
                         /\ window'[o] = window[o] \/ window'[o].state # "OPEN"
      BY <1>1, <2>1, RecordedRows, NullDiffers, Zenon
    <2>4. QED
      BY <2>2, <2>3 DEF Kept
  <1>4. QED
    BY <1>2, <1>3

LEMMA CloseKeeps ==
  ASSUME TypeInv, CloseV1TriggerMessageFollowOnWindows
  PROVE  Kept
  <1>1. CASE UNCHANGED <<window, events>>
    BY <1>1 DEF Kept
  <1>2. CASE ~UNCHANGED <<window, events>>
    <2>1. PICK S \in Due :
             /\ window' = [o \in Ops |-> IF o \in S
                    THEN [window[o] EXCEPT !.state = "CLOSED"] ELSE window[o]]
             /\ Append(S, "FOLLOW_ON_CLOSED")
      BY <1>2 DEF CloseV1TriggerMessageFollowOnWindows
    <2>2. \A o \in Ops : events'[o]["CALLRESULT"] = events[o]["CALLRESULT"]
      <3>1. /\ "FOLLOW_ON_CLOSED" \in Kinds /\ "CALLRESULT" \in Kinds
            /\ events \in [Ops -> [Kinds -> Nat]]
        BY DEF Kinds, TypeInv, TypeOK
      <3>2. QED
        BY <2>1, <3>1, AppendRows
    <2>3. \A o \in Ops : /\ (window'[o] = Null) <=> (window[o] = Null)
                         /\ window'[o] = window[o] \/ window'[o].state # "OPEN"
      BY <2>1, ClosedRows, NullDiffers
    <2>4. QED
      BY <2>2, <2>3 DEF Kept
  <1>3. QED
    BY <1>1, <1>2

\* What a paired answer leaves behind for its operation and for the others.
LEMMA ReceivedKeeps ==
  ASSUME TypeInv, AnswerInv, NEW c \in Conns, received(c)
  PROVE  LET p == loop[c].op IN
         /\ \A o \in Ops : o # p => window'[o] = window[o] /\ events'[o] = events[o]
         /\ \A k \in Kinds : k # "CALLRESULT" => events'[p][k] = events[p][k]
         /\ window[p] # Null => window'[p] = window[p] /\ events'[p] = events[p]
         /\ window[p] = Null /\ window'[p] # Null =>
               /\ p \in root /\ answer[p] = "Accepted" /\ faults' = faults
               /\ window'[p].state = "OPEN" /\ events'[p]["CALLRESULT"] = 1
         /\ window[p] = Null /\ window'[p] = Null /\ answer[p] = "Accepted" =>
               events'[p] = events[p] /\ (p \in root => faults' = faults + 1)
         /\ answer[p] = "Rejected" /\ p \in root /\ faults' = faults =>
               events'[p]["CALLRESULT"] > 0
         /\ p \notin root => events' = events /\ window' = window /\ faults' = faults
  <1> DEFINE p == loop[c].op
  <1>1. p \in Ops /\ answer[p] \in Final /\ loop[c].at \in 0..MaxTime
    BY LoopDone, Zenon DEF AnswerInv, received
  <1>2. /\ events \in [Ops -> [Kinds -> Nat]] /\ "CALLRESULT" \in Kinds
        /\ window \in [Ops -> WindowRows \cup {Null}] /\ faults \in Nat
    BY DEF Kinds, TypeInv, TypeOK
  <1>3. ASSUME Append({p}, "CALLRESULT")
        PROVE  /\ \A o \in Ops : o # p => events'[o] = events[o]
               /\ \A k \in Kinds : k # "CALLRESULT" => events'[p][k] = events[p][k]
               /\ events'[p]["CALLRESULT"] = events[p]["CALLRESULT"] + 1
    BY <1>1, <1>2, <1>3, AppendRows
  <1>4. /\ answer[p] = "Accepted" /\ window[p] = Null => events[p]["CALLRESULT"] = 0
        /\ window[p] # Null => answer[p] = "Accepted"
        /\ events[p]["CALLRESULT"] \in Nat
    BY <1>1, <1>2, Zenon DEF AnswerInv
  <1> HIDE DEF p
  <1> SUFFICES
         /\ \A o \in Ops : o # p => window'[o] = window[o] /\ events'[o] = events[o]
         /\ \A k \in Kinds : k # "CALLRESULT" => events'[p][k] = events[p][k]
         /\ window[p] # Null => window'[p] = window[p] /\ events'[p] = events[p]
         /\ window[p] = Null /\ window'[p] # Null =>
               /\ p \in root /\ answer[p] = "Accepted" /\ faults' = faults
               /\ window'[p].state = "OPEN" /\ events'[p]["CALLRESULT"] = 1
         /\ window[p] = Null /\ window'[p] = Null /\ answer[p] = "Accepted" =>
               events'[p] = events[p] /\ (p \in root => faults' = faults + 1)
         /\ answer[p] = "Rejected" /\ p \in root /\ faults' = faults =>
               events'[p]["CALLRESULT"] > 0
         /\ p \notin root => events' = events /\ window' = window /\ faults' = faults
    BY DEF p
  <1>5. CASE /\ p \in root /\ answer[p] = "Accepted" /\ window[p] = Null /\ faults' = faults
             /\ Append({p}, "CALLRESULT")
             /\ window' = [window EXCEPT ![p] =
                   [state |-> "OPEN", accepted |-> loop[c].at, observed |-> Null]]
    <2> DEFINE r == [state |-> "OPEN", accepted |-> loop[c].at, observed |-> Null]
    <2>1. r \in WindowRows /\ r.state = "OPEN"
      BY <1>1 DEF WindowRows
    <2>2. window' = [window EXCEPT ![p] = r]
      BY <1>5
    <2> HIDE DEF r
    <2>3. r # Null
      BY <2>1, NullDiffers
    <2>4. window'[p] = r /\ \A o \in Ops : o # p => window'[o] = window[o]
      BY <1>1, <1>2, <2>2
    <2>5. QED
      BY <1>1, <1>3, <1>4, <1>5, <2>1, <2>3, <2>4
  <1>6. CASE /\ p \in root /\ answer[p] = "Accepted" /\ window[p] # Null
             /\ UNCHANGED <<events, window, faults>>
    BY <1>6
  <1>7. CASE /\ p \in root /\ answer[p] # "Accepted"
             /\ Append({p}, "CALLRESULT") /\ UNCHANGED <<window, faults>>
    BY <1>3, <1>4, <1>7
  <1>8. CASE p \in root /\ faults' = faults + 1 /\ UNCHANGED <<events, window>>
    BY <1>2, <1>8
  <1>9. CASE p \notin root /\ UNCHANGED <<events, window, faults>>
    BY <1>9
  <1>10. QED
    BY <1>5, <1>6, <1>7, <1>8, <1>9, ReceivedRows, Zenon DEF p

LEMMA NextAnswer == ASSUME TypeInv, AnswerInv, [Next]_vars PROVE AnswerInv'
  <1> USE DEF operation, rows, observer, messages, env
  <1>0. /\ state \in [Ops -> States] /\ answer \in [Ops -> {"pending", "Accepted", "Rejected", Null}]
        /\ entry \in [Ops -> {"none", "request", "unique"}]
        /\ loop \in [Conns -> LoopStates \cup {Null}]
        /\ \A c \in Conns : loop[c] # Null => loop[c].op \in Ops
    BY DEF TypeInv, TypeOK, LoopStates
  <1>1. ASSUME NEW o \in Ops, Operate(o) PROVE AnswerInv'
    <2>1. CASE EnsureV1Trace(o)
      BY <2>1, Zenon DEF EnsureV1Trace, AnswerInv
    <2>2. CASE DispatchChargerOperation(o)
      BY <1>0, <2>2, Zenon DEF DispatchChargerOperation, AnswerInv
    <2>3. CASE SendRequest(o)
      <3>1. answer[o] = Null /\ answer[o] \notin Final
        BY <2>3, NullDiffers, Zenon DEF SendRequest, AnswerInv, Final
      <3>2. answer[o] # "Accepted"
        BY <3>1 DEF Final
      <3>3. \A q \in Ops : q # o => /\ state'[q] = state[q] /\ answer'[q] = answer[q]
                                    /\ entry'[q] = entry[q]
        BY <1>0, <2>3 DEF SendRequest
      <3>4. state'[o] = "QUEUED" /\ answer'[o] = "pending"
        BY <1>0, <2>3 DEF SendRequest
      <3>5. UNCHANGED <<events, window, heard, loop>>
        BY <2>3 DEF SendRequest
      <3>6. QED
        BY <1>0, <3>1, <3>2, <3>3, <3>4, <3>5, Zenon DEF AnswerInv
    <2>4. CASE SendRequestFails(o)
      BY <1>0, <2>4, Zenon DEF SendRequestFails, AnswerInv
    <2>5. CASE CallFails(o)
      BY <1>0, <2>5, Zenon DEF CallFails, AnswerInv
    <2>6. CASE DispatchTimeout(o)
      BY <1>0, <2>6, Zenon DEF DispatchTimeout, AnswerInv
    <2>7. CASE v1ChargerOperations(o)
      BY <2>7, Zenon DEF v1ChargerOperations, AnswerInv
    <2>8. QED
      BY <1>1, <2>1, <2>2, <2>3, <2>4, <2>5, <2>6, <2>7 DEF Operate
  <1>2. ASSUME NEW c \in Conns, NEW o \in Ops, NEW s \in Final, Answer(c, o, s)
        PROVE  AnswerInv'
    <2>1. answer[o] \in {"pending", s} /\ answer[o] # Null
      BY <1>2, NullDiffers DEF Answer, Final
    <2>2. answer'[o] = s /\ \A q \in Ops : q # o => answer'[q] = answer[q]
      BY <1>0, <1>2 DEF Answer
    <2>3. UNCHANGED <<state, entry, events, window>>
      BY <1>2 DEF Answer
    <2>4. \A d \in Conns : loop'[d] = loop[d] \/ loop'[d].op = o
      BY <1>0, <1>2 DEF Answer
    <2>5. heard' \subseteq heard \cup {<<o, c, TRUE>>, <<o, c, FALSE>>}
      BY <1>2, Zenon DEF Answer
    <2>6. answer[o] = "pending" => window[o] = Null /\ ~(events[o]["CALLRESULT"] > 0)
      BY Zenon DEF AnswerInv, Final
    <2>7. events[o]["CALLRESULT"] \in Nat
      BY DEF TypeInv, TypeOK, Kinds
    <2>8. \A q \in Ops, d \in Conns : <<q, d, TRUE>> \in heard' => answer'[q] \in Final
      <3> SUFFICES ASSUME NEW q \in Ops, NEW d \in Conns, <<q, d, TRUE>> \in heard'
                   PROVE  answer'[q] \in Final
        BY Zenon
      <3>1. CASE q = o
        BY <2>2, <3>1
      <3>2. CASE q # o
        BY <2>2, <2>5, <3>2, Zenon DEF AnswerInv
      <3>3. QED
        BY <3>1, <3>2
    <2>9. \A d \in Conns : loop'[d] # Null => answer'[loop'[d].op] \in Final
      BY <1>0, <2>2, <2>4 DEF AnswerInv
    <2>10. \A q \in Ops :
              /\ state'[q] \in {"PERSISTED", "DISPATCHED"} => answer'[q] = Null
              /\ state'[q] = "DISPATCHED" => entry'[q] = "request"
              /\ events'[q]["CALLRESULT"] > 0 => answer'[q] \in Final
              /\ window'[q] # Null => answer'[q] = "Accepted"
              /\ answer'[q] = "Accepted" /\ window'[q] = Null => events'[q]["CALLRESULT"] = 0
      <3> SUFFICES ASSUME NEW q \in Ops
                   PROVE  /\ state[q] \in {"PERSISTED", "DISPATCHED"} => answer'[q] = Null
                          /\ state[q] = "DISPATCHED" => entry[q] = "request"
                          /\ events[q]["CALLRESULT"] > 0 => answer'[q] \in Final
                          /\ window[q] # Null => answer'[q] = "Accepted"
                          /\ answer'[q] = "Accepted" /\ window[q] = Null =>
                                events[q]["CALLRESULT"] = 0
        BY <2>3
      <3>1. CASE q = o
        <4>1. state[o] \notin {"PERSISTED", "DISPATCHED"}
          BY <2>1, Zenon DEF AnswerInv
        <4>2. CASE answer[o] = "pending"
          BY <2>2, <2>6, <2>7, <3>1, <4>1, <4>2
        <4>3. CASE answer[o] = s
          BY <2>2, <3>1, <4>1, <4>3, Zenon DEF AnswerInv
        <4>4. QED
          BY <2>1, <4>2, <4>3
      <3>2. CASE q # o
        BY <2>2, <3>2, Zenon DEF AnswerInv
      <3>3. QED
        BY <3>1, <3>2
    <2>11. QED
      BY <2>8, <2>9, <2>10, Zenon DEF AnswerInv
  <1>3. ASSUME NEW c \in Conns, received(c) PROVE AnswerInv'
    <2> DEFINE p == loop[c].op
    <2>1. /\ p \in Ops /\ answer[p] \in Final
          /\ \A d \in Conns : loop'[d] # Null => loop[d] # Null /\ loop'[d].op = loop[d].op
      BY <1>3, LoopDone, Zenon DEF AnswerInv, received
    <2>2. UNCHANGED <<state, answer, heard>> /\ entry' = [entry EXCEPT ![p] = "none"]
      BY <1>3 DEF received
    <2>3. state[p] # "DISPATCHED"
      BY <2>1, NullDiffers, Zenon DEF AnswerInv, Final
    <2>4. /\ \A o \in Ops : o # p => window'[o] = window[o] /\ events'[o] = events[o]
          /\ window[p] # Null => window'[p] = window[p] /\ events'[p] = events[p]
          /\ window[p] = Null /\ window'[p] # Null => answer[p] = "Accepted"
          /\ window[p] = Null /\ window'[p] = Null /\ answer[p] = "Accepted" =>
                events'[p] = events[p]
      BY <1>3, ReceivedKeeps
    <2> HIDE DEF p
    <2>5. \A d \in Conns : loop'[d] # Null => answer'[loop'[d].op] \in Final
      BY <2>1, <2>2 DEF AnswerInv
    <2>6. \A o \in Ops :
              /\ state[o] = "DISPATCHED" => entry'[o] = "request"
              /\ events'[o]["CALLRESULT"] > 0 => answer[o] \in Final
              /\ window'[o] # Null => answer[o] = "Accepted"
              /\ answer[o] = "Accepted" /\ window'[o] = Null => events'[o]["CALLRESULT"] = 0
      <3> SUFFICES ASSUME NEW o \in Ops
                   PROVE  /\ state[o] = "DISPATCHED" => entry'[o] = "request"
                          /\ events'[o]["CALLRESULT"] > 0 => answer[o] \in Final
                          /\ window'[o] # Null => answer[o] = "Accepted"
                          /\ answer[o] = "Accepted" /\ window'[o] = Null =>
                                events'[o]["CALLRESULT"] = 0
        OBVIOUS
      <3>1. CASE o = p
        BY <2>1, <2>3, <2>4, <3>1, Zenon DEF AnswerInv
      <3>2. CASE o # p
        BY <1>0, <2>1, <2>2, <2>4, <3>2, Zenon DEF AnswerInv
      <3>3. QED
        BY <3>1, <3>2
    <2>7. QED
      BY <2>2, <2>5, <2>6, Zenon DEF AnswerInv
  <1>4. ASSUME NEW c \in Conns, Confirm(c) PROVE AnswerInv'
    <2>1. /\ UNCHANGED <<answer, events, window, heard, entry>>
          /\ \A d \in Conns : loop'[d] # Null => loop'[d] = loop[d]
      BY <1>0, <1>4 DEF Confirm
    <2>2. loop[c].op \in Ops
      BY <1>0, <1>4 DEF Confirm
    <2>3. \A o \in Ops : state'[o] \in {state[o], "OCPP_CONFIRMED"}
      BY <1>0, <1>4, <2>2 DEF Confirm
    <2>4. QED
      BY <2>1, <2>3, Zenon DEF AnswerInv
  <1>5. CASE UNCHANGED <<state, answer, entry, heard, loop>> /\ Kept
    BY <1>5, Zenon DEF Kept, AnswerInv
  <1>6. CASE forgetCharger
    BY <1>0, <1>6, Zenon DEF forgetCharger, AnswerInv
  <1>7. CASE Crash
    <2>1. \A o \in Ops : state'[o] \in {state[o], "RECONCILIATION_REQUIRED"}
                         /\ state'[o] # "DISPATCHED"
      BY <1>7 DEF Crash, Waiting
    <2>2. \A c \in Conns : loop'[c] = Null
      BY <1>7 DEF Crash
    <2>3. UNCHANGED <<answer, events, window, heard>>
      BY <1>7 DEF Crash
    <2>4. QED
      BY <2>1, <2>2, <2>3, Zenon DEF AnswerInv
  <1>8. CASE UNCHANGED <<state, answer, entry, heard, loop, window, events>>
    BY <1>8, Zenon DEF AnswerInv
  <1>9. ASSUME NEW m \in inbox, RecordV1TriggerMessageFollowOn(m) PROVE AnswerInv'
    BY <1>5, <1>9, RecordKeeps, Zenon DEF RecordV1TriggerMessageFollowOn
  <1>10. CASE CloseV1TriggerMessageFollowOnWindows
    BY <1>5, <1>10, CloseKeeps DEF CloseV1TriggerMessageFollowOnWindows
  <1>11. QED
    BY <1>1, <1>2, <1>3, <1>4, <1>6, <1>7, <1>8, <1>9, <1>10, Zenon DEF Next, Worker, Final,
       Read, recordTriggerMessageFollowOn, RunOnce, Tick, vars

----------------------------------------------------------------------------
(* Verdicts.                                                                *)

LEMMA NextVerdict == ASSUME TypeInv, AnswerInv, VerdictInv, [Next]_vars PROVE VerdictInv'
  <1> USE DEF operation, rows, observer, messages, env
  <1>0. /\ events \in [Ops -> [Kinds -> Nat]]
        /\ {"CALLRESULT", "FOLLOW_ON", "FOLLOW_ON_CLOSED"} \subseteq Kinds
        /\ window \in [Ops -> WindowRows \cup {Null}]
    BY DEF Kinds, TypeInv, TypeOK
  <1>1. CASE UNCHANGED <<window, events>> /\ root \subseteq root'
    BY <1>1 DEF VerdictInv, Deadline
  <1>2. ASSUME NEW c \in Conns, received(c) PROVE VerdictInv'
    <2> DEFINE p == loop[c].op
    <2>1. p \in Ops /\ root' = root
      BY <1>2, LoopDone, Zenon DEF received
    <2>2. /\ \A o \in Ops : o # p => window'[o] = window[o] /\ events'[o] = events[o]
          /\ \A k \in Kinds : k # "CALLRESULT" => events'[p][k] = events[p][k]
          /\ window[p] # Null => window'[p] = window[p] /\ events'[p] = events[p]
          /\ window[p] = Null /\ window'[p] # Null =>
               /\ p \in root /\ answer[p] = "Accepted" /\ faults' = faults
               /\ window'[p].state = "OPEN" /\ events'[p]["CALLRESULT"] = 1
      BY <1>2, ReceivedKeeps
    <2> HIDE DEF p
    <2>3. CASE window[p] # Null
      <3>1. \A o \in Ops : window'[o] = window[o] /\ events'[o] = events[o]
        BY <2>2, <2>3, Zenon
      <3>2. QED
        BY <2>1, <3>1 DEF VerdictInv, Deadline
    <2>4. CASE window[p] = Null
      <3>1. events'[p]["FOLLOW_ON"] = 0 /\ events'[p]["FOLLOW_ON_CLOSED"] = 0
        BY <1>0, <2>1, <2>2, <2>4 DEF VerdictInv
      <3>2. QED
        BY <2>1, <2>2, <2>4, <3>1 DEF VerdictInv, Deadline
    <2>5. QED
      BY <2>3, <2>4
  <1>3. ASSUME NEW m \in inbox, RecordV1TriggerMessageFollowOn(m), ~UNCHANGED <<window, events>>
        PROVE  VerdictInv'
    <2>1. m \in Messages /\ m.at # Null /\ root' = root
      BY <1>3, Zenon DEF RecordV1TriggerMessageFollowOn, TypeInv
    <2>2. /\ Append(Matches(m), "FOLLOW_ON")
          /\ window' = [o \in Ops |-> IF o \in Matches(m)
                THEN [window[o] EXCEPT !.state = "OBSERVED", !.observed = m.at]
                ELSE window[o]]
      BY <1>3, Zenon DEF RecordV1TriggerMessageFollowOn
    <2>3. \A o \in Ops :
               /\ o \notin Matches(m) => window'[o] = window[o]
               /\ o \in Matches(m) =>
                     /\ window[o] \in WindowRows /\ window'[o] \in WindowRows
                     /\ window[o].state = "OPEN" /\ window'[o].state = "OBSERVED"
                     /\ window'[o].accepted = window[o].accepted
                     /\ window'[o].observed = m.at
      BY <2>1, <2>2, RecordedRows, Zenon
    <2>4. \A o \in Ops :
               /\ o \in Matches(m) => events'[o]["FOLLOW_ON"] = events[o]["FOLLOW_ON"] + 1
               /\ o \notin Matches(m) => events'[o] = events[o]
               /\ \A k \in Kinds : k # "FOLLOW_ON" => events'[o][k] = events[o][k]
      BY <1>0, <2>2, AppendRows, Zenon
    <2>5. ASSUME NEW o \in Ops, o \in Matches(m)
          PROVE  /\ o \in root /\ events'[o]["CALLRESULT"] = 1
                 /\ window'[o] # Null /\ window'[o].state = "OBSERVED"
                 /\ events'[o]["FOLLOW_ON"] = 1
                 /\ events'[o]["FOLLOW_ON_CLOSED"] = 0
                 /\ window'[o].accepted < window'[o].observed
                 /\ window'[o].observed <= window'[o].accepted + Window
      <3>1. window[o] # Null /\ window'[o] # Null
        BY <2>3, <2>5, NullDiffers
      <3>2. window[o].accepted < m.at /\ m.at <= window[o].accepted + Window
        BY <2>5 DEF Matches, InTime, Deadline
      <3>3. /\ o \in root /\ events[o]["CALLRESULT"] = 1 /\ events[o]["FOLLOW_ON"] = 0
            /\ events[o]["FOLLOW_ON_CLOSED"] = 0
        BY <2>3, <2>5, <3>1 DEF VerdictInv
      <3>4. QED
        BY <1>0, <2>3, <2>4, <2>5, <3>1, <3>2, <3>3
    <2>6. ASSUME NEW o \in Ops, o \notin Matches(m)
          PROVE  window'[o] = window[o] /\ events'[o] = events[o]
      BY <2>3, <2>4, <2>6
    <2>7. QED
      BY <2>1, <2>5, <2>6 DEF VerdictInv, Deadline
  <1>4. ASSUME CloseV1TriggerMessageFollowOnWindows, ~UNCHANGED <<window, events>>
        PROVE  VerdictInv'
    <2>1. PICK S \in Due :
             /\ window' = [o \in Ops |-> IF o \in S
                    THEN [window[o] EXCEPT !.state = "CLOSED"] ELSE window[o]]
             /\ Append(S, "FOLLOW_ON_CLOSED")
      BY <1>4 DEF CloseV1TriggerMessageFollowOnWindows
    <2>2. \A o \in Ops :
               /\ o \notin S => window'[o] = window[o]
               /\ o \in S =>
                     /\ window[o] \in WindowRows /\ window'[o] \in WindowRows
                     /\ window[o].state = "OPEN" /\ window'[o].state = "CLOSED"
      BY <2>1, ClosedRows
    <2>3. \A o \in Ops :
               /\ o \in S => events'[o]["FOLLOW_ON_CLOSED"] = events[o]["FOLLOW_ON_CLOSED"] + 1
               /\ o \notin S => events'[o] = events[o]
               /\ \A k \in Kinds : k # "FOLLOW_ON_CLOSED" => events'[o][k] = events[o][k]
      BY <1>0, <2>1, AppendRows
    <2>4. ASSUME NEW o \in Ops, o \in S
          PROVE  /\ o \in root /\ events'[o]["CALLRESULT"] = 1
                 /\ window'[o] # Null /\ window'[o].state = "CLOSED"
                 /\ events'[o]["FOLLOW_ON"] = 0
                 /\ events'[o]["FOLLOW_ON_CLOSED"] = 1
      <3>1. window[o] # Null /\ window'[o] # Null
        BY <2>2, <2>4, NullDiffers
      <3>2. /\ o \in root /\ events[o]["CALLRESULT"] = 1 /\ events[o]["FOLLOW_ON"] = 0
            /\ events[o]["FOLLOW_ON_CLOSED"] = 0
        BY <2>2, <2>4, <3>1 DEF VerdictInv
      <3>3. QED
        BY <1>0, <2>2, <2>3, <2>4, <3>1, <3>2
    <2>5. ASSUME NEW o \in Ops, o \notin S
          PROVE  window'[o] = window[o] /\ events'[o] = events[o]
      BY <2>2, <2>3, <2>5
    <2>6. root' = root
      BY <1>4 DEF CloseV1TriggerMessageFollowOnWindows
    <2>7. QED
      BY <2>4, <2>5, <2>6 DEF VerdictInv, Deadline
  <1>5. ASSUME NEW o \in Ops, Operate(o) PROVE VerdictInv'
    BY <1>1, <1>5 DEF Operate, v1ChargerOperations, EnsureV1Trace, DispatchChargerOperation,
       SendRequest, SendRequestFails, CallFails, DispatchTimeout
  <1>6. ASSUME NEW c \in Conns, NEW o \in Ops, NEW s \in Final, Answer(c, o, s)
        PROVE  VerdictInv'
    BY <1>1, <1>6, Zenon DEF Answer
  <1>7. QED
    BY <1>1, <1>2, <1>3, <1>4, <1>5, <1>6, Zenon DEF Next, Worker, Final, Confirm,
       RecordV1TriggerMessageFollowOn, CloseV1TriggerMessageFollowOnWindows,
       Read, recordTriggerMessageFollowOn, RunOnce, Tick, forgetCharger, Crash, vars

LEMMA VerdictHolds == ASSUME TypeInv, VerdictInv PROVE VerdictMatchesEvidence
  <1> SUFFICES ASSUME NEW o \in Ops
               PROVE  LET verdict == IF window[o] = Null THEN "NONE" ELSE window[o].state IN
                      /\ verdict # "NONE" => o \in root /\ events[o]["CALLRESULT"] = 1
                      /\ events[o]["FOLLOW_ON"] = IF verdict = "OBSERVED" THEN 1 ELSE 0
                      /\ events[o]["FOLLOW_ON_CLOSED"] = IF verdict = "CLOSED" THEN 1 ELSE 0
                      /\ verdict = "OBSERVED" => InTime(o, [at |-> window[o].observed])
    BY DEF VerdictMatchesEvidence
  <1>1. CASE window[o] = Null
    BY <1>1 DEF VerdictInv
  <1>2. CASE window[o] # Null
    BY <1>2 DEF VerdictInv, InTime
  <1>3. QED
    BY <1>1, <1>2

----------------------------------------------------------------------------
(* What a step does to one operation.                                       *)

\* The evidence of an answer to o is stored, or there is a reason why not.
Stored(o) ==
    \/ faults' > 0 \/ o \notin traced
    \/ answer[o] = "Rejected" /\ events'[o]["CALLRESULT"] > 0
    \/ answer[o] = "Accepted" /\ events'[o]["CALLRESULT"] > 0 /\ window'[o] # Null

LEMMA ReceivedStores ==
  ASSUME TypeInv, AnswerInv, VerdictInv, NEW c \in Conns, received(c)
  PROVE  Stored(loop[c].op)
  <1> DEFINE p == loop[c].op
  <1>1. p \in Ops /\ answer[p] \in Final /\ faults \in Nat
    BY LoopDone, Zenon DEF AnswerInv, received, TypeInv
  <1>0. p \in traced => p \in root
    BY DEF TypeInv
  <1>2. faults' = faults \/ faults' = faults + 1
    BY DEF received, Fault
  <1>3. /\ window[p] # Null => window'[p] = window[p] /\ events'[p] = events[p]
        /\ window[p] = Null /\ window'[p] # Null => events'[p]["CALLRESULT"] = 1
        /\ window[p] = Null /\ window'[p] = Null /\ answer[p] = "Accepted" =>
              (p \in root => faults' = faults + 1)
        /\ answer[p] = "Rejected" /\ p \in root /\ faults' = faults =>
              events'[p]["CALLRESULT"] > 0
    BY ReceivedKeeps
  <1>4. window[p] # Null => events[p]["CALLRESULT"] = 1
    BY <1>1 DEF VerdictInv
  <1> HIDE DEF p
  <1>5. Stored(p)
    BY <1>0, <1>1, <1>2, <1>3, <1>4 DEF Stored, Final
  <1>6. QED
    BY <1>5 DEF p

\* The rows of an operation only move forward.
RowMoves(o) ==
    /\ state[o] # "PERSISTED" => state'[o] # "PERSISTED" /\ (o \in traced' => o \in traced)
    /\ answer[o] \in Final => answer'[o] = answer[o]
    /\ window[o] # Null => window'[o] # Null
    /\ events[o]["CALLRESULT"] > 0 => events'[o]["CALLRESULT"] > 0
    /\ window'[o] # Null /\ window'[o].state = "OPEN" =>
          \/ window'[o] = window[o]
          \/ /\ window[o] = Null /\ o \in root /\ answer[o] = "Accepted"
             /\ \E c \in Conns : Appending(c, o)

LEMMA RowsMove ==
  ASSUME TypeInv, AnswerInv, [Next]_vars, NEW o \in Ops
  PROVE  RowMoves(o)
  <1> USE DEF operation, rows, observer, messages, env
  <1>0. /\ state \in [Ops -> States] /\ answer \in [Ops -> {"pending", "Accepted", "Rejected", Null}]
        /\ events[o]["CALLRESULT"] \in Nat
    BY DEF TypeInv, TypeOK, Kinds
  <1>1. ASSUME NEW q \in Ops, Operate(q) PROVE RowMoves(o)
    <2>1. CASE EnsureV1Trace(q)
      BY <2>1 DEF EnsureV1Trace, RowMoves
    <2>2. CASE SendRequest(q)
      <3>1. answer[q] = Null /\ answer[q] \notin Final
        BY <2>2, NullDiffers, Zenon DEF SendRequest, AnswerInv, Final
      <3>2. QED
        BY <1>0, <2>2, <3>1 DEF SendRequest, RowMoves
    <2>3. CASE \/ DispatchChargerOperation(q) \/ SendRequestFails(q)
               \/ CallFails(q) \/ DispatchTimeout(q) \/ v1ChargerOperations(q)
      BY <1>0, <2>3 DEF v1ChargerOperations, DispatchChargerOperation, SendRequestFails, CallFails,
         DispatchTimeout, RowMoves
    <2>4. QED
      BY <1>1, <2>1, <2>2, <2>3 DEF Operate
  <1>2. ASSUME NEW c \in Conns, NEW q \in Ops, NEW s \in Final, Answer(c, q, s)
        PROVE  RowMoves(o)
    <2>1. answer[q] = s \/ answer[q] \notin Final
      BY <1>2, Zenon DEF Answer, Final
    <2>2. QED
      BY <1>0, <1>2, <2>1 DEF Answer, RowMoves
  <1>3. ASSUME NEW c \in Conns, received(c) PROVE RowMoves(o)
    <2>1. UNCHANGED <<state, root, traced, answer>> /\ loop[c] # Null /\ loop[c].step = "append"
      BY <1>3 DEF received
    <2>2. CASE o # loop[c].op
      <3>1. window'[o] = window[o] /\ events'[o] = events[o]
        BY <1>3, <2>2, ReceivedKeeps
      <3>2. QED
        BY <2>1, <3>1 DEF RowMoves
    <2>3. CASE o = loop[c].op
      <3>1. /\ window[o] # Null => window'[o] = window[o] /\ events'[o] = events[o]
            /\ window[o] = Null /\ window'[o] # Null => o \in root /\ answer[o] = "Accepted"
        BY <1>3, <2>3, ReceivedKeeps
      <3>2. Appending(c, o)
        BY <2>1, <2>3 DEF Appending, Holds
      <3>3. events[o]["CALLRESULT"] > 0 => events'[o]["CALLRESULT"] > 0
        <4>1. CASE Append({o}, "CALLRESULT")
          <5>1. events'[o]["CALLRESULT"] = events[o]["CALLRESULT"] + 1
            BY <4>1, AppendRows DEF TypeInv, TypeOK, Kinds
          <5>2. QED
            BY <1>0, <5>1
        <4>2. CASE UNCHANGED events
          BY <4>2
        <4>3. QED
          BY <1>3, <2>3, <4>1, <4>2, ReceivedRows
      <3>4. QED
        BY <2>1, <3>1, <3>2, <3>3 DEF RowMoves
    <2>4. QED
      BY <2>2, <2>3
  <1>4. ASSUME NEW c \in Conns, Confirm(c) PROVE RowMoves(o)
    BY <1>0, <1>4 DEF Confirm, RowMoves
  <1>5. CASE UNCHANGED <<state, answer, root, traced>> /\ Kept
    BY <1>5 DEF Kept, RowMoves
  <1>6. CASE Crash
    BY <1>0, <1>6 DEF Crash, RowMoves
  <1>7. CASE UNCHANGED <<state, answer, root, traced, window, events>>
    BY <1>7 DEF RowMoves
  <1>8. ASSUME NEW m \in inbox, RecordV1TriggerMessageFollowOn(m) PROVE RowMoves(o)
    BY <1>5, <1>8, RecordKeeps, Zenon DEF RecordV1TriggerMessageFollowOn
  <1>9. CASE CloseV1TriggerMessageFollowOnWindows
    BY <1>5, <1>9, CloseKeeps DEF CloseV1TriggerMessageFollowOnWindows
  <1>10. QED
    BY <1>1, <1>2, <1>3, <1>4, <1>6, <1>7, <1>8, <1>9, Zenon DEF Next, Worker, Final,
       forgetCharger, Read, recordTriggerMessageFollowOn, RunOnce, Tick, vars

\* Store errors are counted, and the excuse of a removed entry stays.
LEMMA ExcusesStay ==
  ASSUME TypeInv, [Next]_vars
  PROVE  faults' \in {faults, faults + 1} /\ dropped \subseteq dropped'
  <1> USE DEF operation, rows, observer, messages, env
  <1>1. ASSUME NEW q \in Ops, Operate(q) PROVE UNCHANGED <<faults, dropped>>
    BY <1>1 DEF Operate, v1ChargerOperations, EnsureV1Trace, DispatchChargerOperation,
       SendRequest, SendRequestFails, CallFails, DispatchTimeout
  <1>2. ASSUME NEW c \in Conns, received(c) \/ Confirm(c)
        PROVE  faults' \in {faults, faults + 1} /\ UNCHANGED dropped
    BY <1>2 DEF received, Confirm, Fault
  <1>3. ASSUME NEW m \in inbox, RecordV1TriggerMessageFollowOn(m)
        PROVE  faults' \in {faults, faults + 1} /\ UNCHANGED dropped
    BY <1>3, Zenon DEF RecordV1TriggerMessageFollowOn, Fault
  <1>4. CASE Worker
    BY <1>4 DEF Worker, RunOnce, CloseV1TriggerMessageFollowOnWindows, Fault
  <1>5. CASE forgetCharger \/ Tick \/ Crash
    BY <1>5 DEF forgetCharger, Tick, Crash
  <1>6. QED
    BY <1>1, <1>2, <1>3, <1>4, <1>5, Zenon DEF Next, Answer, Read, recordTriggerMessageFollowOn, vars

Handling(c, o) == Holds(loop[c], o, "handle")

\* The ways of a read loop and of the entry of an operation: an entry is bound
\* once, an answer is appended only if it found its entry bound, and it is
\* handed on only after its evidence.
LoopMoves(o) ==
    /\ state[o] # "PERSISTED" /\ entry[o] = "none" => entry'[o] = "none"
    /\ \A c \in Conns :
          /\ Holds(loop'[c], o, "append") => Appending(c, o) \/ entry[o] = "unique"
          /\ Appending(c, o) /\ ~Holds(loop'[c], o, "append") =>
                \/ Stored(o)
                \/ entry'[o] = "none" /\ \A d \in Conns : ~Holds(loop'[d], o, "append")
          /\ <<o, c, TRUE>> \in heard' => <<o, c, TRUE>> \in heard \/ Holds(loop'[c], o, "append")
          /\ Holds(loop'[c], o, "handle") =>
                \/ Handling(c, o)
                \/ entry[o] # "unique" /\ state'[o] = state[o]
                \/ Stored(o)
    /\ state'[o] = "QUEUED" =>
          \/ state[o] = "QUEUED" /\ (entry[o] # "unique" \/ entry'[o] = "unique")
          \/ state[o] = "QUEUED" /\ (o \in dropped' \/ Stored(o))
          \/ state[o] = "DISPATCHED" /\ entry'[o] = "unique"
    /\ state'[o] = "OCPP_CONFIRMED" =>
          \/ state[o] = "OCPP_CONFIRMED"
          \/ state[o] \in Waiting /\ \E c \in Conns : Handling(c, o)

LEMMA LoopsMove ==
  ASSUME TypeInv, AnswerInv, VerdictInv, [Next]_vars, NEW o \in Ops
  PROVE  LoopMoves(o)
  <1> USE DEF operation, rows, observer, messages, env
  <1>0. /\ state \in [Ops -> States] /\ entry \in [Ops -> {"none", "request", "unique"}]
        /\ loop \in [Conns -> LoopStates \cup {Null}]
    BY DEF TypeInv, TypeOK
  <1>1. ASSUME NEW q \in Ops, Operate(q) PROVE LoopMoves(o)
    <2>1. CASE EnsureV1Trace(q) \/ v1ChargerOperations(q)
      BY <2>1, Zenon DEF EnsureV1Trace, v1ChargerOperations, LoopMoves, Appending, Handling, Holds
    <2>2. CASE DispatchChargerOperation(q)
      BY <1>0, <2>2, Zenon DEF DispatchChargerOperation, LoopMoves, Appending, Handling, Holds
    <2>3. CASE SendRequest(q)
      <3>1. entry[q] = "request"
        BY <2>3, Zenon DEF SendRequest, AnswerInv
      <3>2. QED
        BY <1>0, <2>3, <3>1, Zenon DEF SendRequest, LoopMoves, Appending, Handling, Holds
    <2>4. CASE SendRequestFails(q) \/ CallFails(q) \/ DispatchTimeout(q)
      BY <1>0, <2>4, Zenon DEF SendRequestFails, CallFails, DispatchTimeout, LoopMoves,
         Appending, Handling, Holds
    <2>5. QED
      BY <1>1, <2>1, <2>2, <2>3, <2>4 DEF Operate
  <1>2. ASSUME NEW c \in Conns, NEW q \in Ops, NEW s \in Final, Answer(c, q, s)
        PROVE  LoopMoves(o)
    <2>1. UNCHANGED <<state, entry, dropped>> /\ loop[c] = Null
      BY <1>2 DEF Answer
    <2>2. \A d \in Conns : d # c => loop'[d] = loop[d]
      BY <1>0, <1>2 DEF Answer
    <2>3. PICK r : /\ r \in LoopStates /\ loop'[c] = r /\ r.op = q
                   /\ entry[q] = "unique" => r.step = "append"
                   /\ entry[q] # "unique" => r.step = "handle"
      <3> DEFINE r == [op |-> q, at |-> clock,
                       step |-> IF entry[q] = "unique" THEN "append" ELSE "handle"]
      <3>1. r \in LoopStates
        BY DEF LoopStates, TypeInv, TypeOK
      <3>2. loop'[c] = r
        BY <1>0, <1>2 DEF Answer
      <3>3. QED
        BY <3>1, <3>2
    <2>4. r # Null
      BY <2>3, NullDiffers
    <2>5. ASSUME NEW d \in Conns, <<o, d, TRUE>> \in heard', <<o, d, TRUE>> \notin heard
          PROVE  d = c /\ o = q /\ entry[q] = "unique"
      BY <1>2, <2>5, Zenon DEF Answer
    <2>6. \A d \in Conns : Holds(loop'[d], o, "append") =>
             Appending(d, o) \/ (d = c /\ o = q /\ entry[q] = "unique")
      BY <2>2, <2>3, <2>4 DEF Appending, Holds
    <2>7. \A d \in Conns : Holds(loop'[d], o, "handle") =>
             Handling(d, o) \/ (d = c /\ o = q /\ entry[q] # "unique")
      BY <2>2, <2>3, <2>4 DEF Handling, Holds
    <2>8. \A d \in Conns : Appending(d, o) => Holds(loop'[d], o, "append")
      BY <2>1, <2>2 DEF Appending, Holds
    <2>9. o = q /\ entry[q] = "unique" => Holds(loop'[c], o, "append")
      BY <2>3, <2>4 DEF Appending, Holds
    <2>10. QED
      BY <2>1, <2>5, <2>6, <2>7, <2>8, <2>9, Zenon DEF LoopMoves
  <1>3. ASSUME NEW c \in Conns, received(c) PROVE LoopMoves(o)
    <2> DEFINE p == loop[c].op
    <2>1. /\ p \in Ops /\ loop[c] # Null /\ loop[c].step = "append"
          /\ loop'[c].op = p /\ loop'[c].step = "handle"
          /\ \A d \in Conns : d # c => loop'[d] = loop[d]
      BY <1>3, LoopDone, NullDiffers
    <2>2. UNCHANGED <<state, heard, dropped>> /\ entry' = [entry EXCEPT ![p] = "none"]
      BY <1>3 DEF received
    <2>3. Stored(p)
      BY <1>3, ReceivedStores
    <2>4. /\ \A d \in Conns : Holds(loop'[d], o, "append") => Appending(d, o)
          /\ \A d \in Conns : Appending(d, o) /\ ~Holds(loop'[d], o, "append") => o = p
          /\ \A d \in Conns : Holds(loop'[d], o, "handle") => Handling(d, o) \/ o = p
      BY <2>1 DEF Appending, Handling, Holds
    <2>5. /\ o # p => entry'[o] = entry[o]
          /\ o = p => entry'[o] = "none"
      BY <1>0, <2>1, <2>2
    <2> HIDE DEF p
    <2>6. QED
      BY <2>2, <2>3, <2>4, <2>5, Zenon DEF LoopMoves
  <1>4. ASSUME NEW c \in Conns, Confirm(c) PROVE LoopMoves(o)
    <2>1. /\ UNCHANGED <<entry, heard, dropped>> /\ loop[c] # Null /\ loop[c].step = "handle"
          /\ loop' = [loop EXCEPT ![c] = Null]
          /\ state' = [state EXCEPT ![loop[c].op] = IF @ \in Waiting THEN "OCPP_CONFIRMED" ELSE @]
      BY <1>4, Zenon DEF Confirm
    <2>2. \A d \in Conns : (loop'[d] # Null => loop'[d] = loop[d]) /\ (d # c => loop'[d] = loop[d])
      BY <1>0, <2>1
    <2>3. /\ \A d \in Conns : (Holds(loop'[d], o, "append") <=> Appending(d, o))
          /\ \A d \in Conns : Holds(loop'[d], o, "handle") => Handling(d, o)
      BY <2>1, <2>2 DEF Appending, Handling, Holds
    <2>4. \/ state'[o] = state[o]
          \/ state'[o] = "OCPP_CONFIRMED" /\ state[o] \in Waiting /\ Handling(c, o)
      BY <1>0, <2>1 DEF Handling, Holds
    <2>5. QED
      BY <2>1, <2>3, <2>4, Zenon DEF LoopMoves
  <1>5. CASE forgetCharger
    BY <1>0, <1>5, Zenon DEF forgetCharger, LoopMoves, Appending, Handling, Holds
  <1>6. CASE Crash
    <2>1. state'[o] # "QUEUED" /\ (state'[o] = "OCPP_CONFIRMED" => state[o] = "OCPP_CONFIRMED")
      BY <1>6 DEF Crash, Waiting
    <2>2. entry'[o] = "none" /\ heard' = heard /\ \A c \in Conns : loop'[c] = Null
      BY <1>6 DEF Crash
    <2>3. QED
      BY <2>1, <2>2, Zenon DEF LoopMoves, Appending, Handling, Holds
  <1>7. CASE UNCHANGED <<state, observer>>
    BY <1>7, Zenon DEF LoopMoves, Appending, Handling, Holds
  <1>8. QED
    BY <1>1, <1>2, <1>3, <1>4, <1>5, <1>6, <1>7, Zenon DEF Next, Worker, Final, Read,
       recordTriggerMessageFollowOn, RecordV1TriggerMessageFollowOn,
       CloseV1TriggerMessageFollowOnWindows, RunOnce, Tick, vars

----------------------------------------------------------------------------
(* Follow-on messages.                                                      *)

\* A window that is there or will never be stays so.
LEMMA SettledStays ==
  ASSUME TypeInv, AnswerInv, VerdictInv, [Next]_vars, NEW o \in Ops,
         window[o] # Null \/ Sealed(o)
  PROVE  window'[o] # Null \/ Sealed(o)'
  <1>1. RowMoves(o) /\ LoopMoves(o)
    BY RowsMove, LoopsMove
  <1>2. CASE window[o] # Null
    BY <1>1, <1>2 DEF RowMoves
  <1>3. CASE Sealed(o) /\ o \notin traced
    BY <1>1, <1>3, Zenon DEF RowMoves, Sealed
  <1>4. CASE Sealed(o) /\ answer[o] = "Rejected"
    <2>1. answer'[o] = answer[o] /\ state'[o] # "PERSISTED"
      BY <1>1, <1>4 DEF RowMoves, Sealed, Final
    <2>2. QED
      BY <1>4, <2>1, Zenon DEF Sealed
  <1>5. CASE Sealed(o) /\ entry[o] = "none" /\ \A c \in Conns : ~Appending(c, o)
    <2>1. state'[o] # "PERSISTED"
      BY <1>1, <1>5 DEF RowMoves, Sealed
    <2>2. entry'[o] = "none" /\ \A c \in Conns : ~Holds(loop'[c], o, "append")
      BY <1>1, <1>5, Zenon DEF LoopMoves, Sealed
    <2>3. QED
      BY <2>1, <2>2 DEF Sealed, Appending
  <1>6. QED
    BY <1>2, <1>3, <1>4, <1>5 DEF Sealed

\* The messages a step brings: a read loop that is free takes in one, after the
\* answers it paired; the others are known.
LEMMA NewMessages ==
  ASSUME TypeInv, [Next]_vars, NEW m \in inbox' \cup recorded'
  PROVE  \/ \E n \in inbox \cup recorded : n.after = m.after
         \/ \E c \in Conns : /\ loop[c] = Null
                             /\ m.after = {o \in Ops : <<o, c, TRUE>> \in heard}
  <1> USE DEF operation, rows, observer, messages, env
  <1>1. CASE UNCHANGED <<inbox, recorded>>
    BY <1>1, Zenon
  <1>2. ASSUME NEW c \in Conns, NEW f \in Frames, Read(c, f)
        PROVE  \/ m \in inbox \cup recorded
               \/ loop[c] = Null /\ m.after = {o \in Ops : <<o, c, TRUE>> \in heard}
    <2> DEFINE A == {o \in Ops : <<o, c, TRUE>> \in heard}
    <2>1. /\ inbox' = inbox \cup {[id |-> frames, frame |-> f, at |-> Null, after |-> A]}
          /\ recorded' = recorded /\ loop[c] = Null
      BY <1>2 DEF Read
    <2> HIDE DEF A
    <2>2. m \in inbox \cup recorded \/ (loop[c] = Null /\ m.after = A)
      BY <2>1
    <2>3. QED
      BY <2>2, Zenon DEF A
  <1>3. ASSUME NEW n \in inbox, recordTriggerMessageFollowOn(n)
        PROVE  m \in inbox \cup recorded \/ m.after = n.after
    <2>1. PICK r \in Messages : r = n
      BY DEF TypeInv
    <2>2. [r EXCEPT !.at = clock].after = r.after
      BY DEF Messages
    <2>3. m \in inbox \cup recorded \/ m = [n EXCEPT !.at = clock]
      BY <1>3 DEF recordTriggerMessageFollowOn
    <2>4. QED
      BY <2>1, <2>2, <2>3, Zenon
  <1>4. ASSUME NEW n \in inbox, RecordV1TriggerMessageFollowOn(n)
        PROVE  m \in inbox \cup recorded
    BY <1>4, Zenon DEF RecordV1TriggerMessageFollowOn
  <1>5. CASE Crash
    BY <1>5, Zenon DEF Crash
  <1>6. ASSUME NEW o \in Ops, Operate(o) PROVE UNCHANGED <<inbox, recorded>>
    BY <1>6 DEF Operate, v1ChargerOperations, EnsureV1Trace, DispatchChargerOperation,
       SendRequest, SendRequestFails, CallFails, DispatchTimeout
  <1>7. QED
    BY <1>1, <1>2, <1>3, <1>4, <1>5, <1>6, Zenon DEF Next, Worker, Answer, received, Confirm,
       CloseV1TriggerMessageFollowOnWindows, RunOnce, Tick, forgetCharger, vars

LEMMA NextOpened ==
  ASSUME TypeInv, AnswerInv, VerdictInv, OpenedInv, [Next]_vars
  PROVE  OpenedInv'
  <1> SUFFICES ASSUME faults' = 0
               PROVE  /\ \A o \in Ops, c \in Conns :
                            <<o, c, TRUE>> \in heard' /\ ~Holds(loop'[c], o, "append") =>
                               window'[o] # Null \/ Sealed(o)'
                      /\ \A m \in inbox' \cup recorded' : \A o \in m.after :
                            window'[o] # Null \/ Sealed(o)'
    BY Zenon DEF OpenedInv, Appending
  <1>1. faults = 0
    BY ExcusesStay DEF TypeInv
  <1>2. ASSUME NEW o \in Ops, NEW c \in Conns,
               <<o, c, TRUE>> \in heard', ~Holds(loop'[c], o, "append")
        PROVE  window'[o] # Null \/ Sealed(o)'
    <2>1. RowMoves(o) /\ LoopMoves(o)
      BY RowsMove, LoopsMove
    <2>2. <<o, c, TRUE>> \in heard
      BY <1>2, <2>1, Zenon DEF LoopMoves
    <2>3. answer[o] \in Final /\ answer[o] # Null
      BY <2>2, NullDiffers, Zenon DEF AnswerInv, Final
    <2>4. state[o] # "PERSISTED" /\ state'[o] # "PERSISTED"
      BY <2>1, <2>3, Zenon DEF AnswerInv, RowMoves
    <2>5. CASE ~Appending(c, o)
      BY <1>1, <2>2, <2>5, SettledStays, Zenon DEF OpenedInv
    <2>6. CASE Appending(c, o) /\ Stored(o)
      <3>1. o \notin traced \/ answer[o] = "Rejected" \/ window'[o] # Null
        BY <2>6 DEF Stored
      <3>2. o \notin traced => o \notin traced'
        BY <2>1, <2>4 DEF RowMoves
      <3>3. answer'[o] = answer[o]
        BY <2>1, <2>3 DEF RowMoves
      <3>4. QED
        BY <2>4, <3>1, <3>2, <3>3, Zenon DEF Sealed
    <2>7. CASE entry'[o] = "none" /\ \A d \in Conns : ~Holds(loop'[d], o, "append")
      BY <2>4, <2>7 DEF Sealed, Appending
    <2>8. QED
      BY <1>2, <2>1, <2>5, <2>6, <2>7, Zenon DEF LoopMoves
  <1>3. ASSUME NEW m \in inbox' \cup recorded', NEW o \in m.after
        PROVE  window'[o] # Null \/ Sealed(o)'
    <2>1. CASE \E n \in inbox \cup recorded : n.after = m.after
      <3>1. o \in Ops
        BY <2>1 DEF TypeInv, Messages
      <3>2. window[o] # Null \/ Sealed(o)
        BY <1>1, <2>1 DEF OpenedInv
      <3>3. QED
        BY <3>1, <3>2, SettledStays
    <2>2. CASE \E c \in Conns : /\ loop[c] = Null
                                /\ m.after = {p \in Ops : <<p, c, TRUE>> \in heard}
      <3>1. PICK c \in Conns : loop[c] = Null /\ <<o, c, TRUE>> \in heard /\ o \in Ops
        BY <2>2, Zenon
      <3>2. window[o] # Null \/ Sealed(o)
        BY <1>1, <3>1, Zenon DEF OpenedInv, Appending, Holds
      <3>3. QED
        BY <3>1, <3>2, SettledStays
    <2>3. QED
      BY <2>1, <2>2, NewMessages, Zenon
  <1>4. QED
    BY <1>2, <1>3, Zenon

\* A recorded message was waiting for its handler before.
LEMMA RecordsKnown ==
  ASSUME TypeInv, [Next]_vars, NEW m \in recorded'
  PROVE  m \in inbox \cup recorded
  <1> USE DEF operation, rows, observer, messages, env
  <1>1. ASSUME NEW n \in inbox, RecordV1TriggerMessageFollowOn(n)
        PROVE  m \in inbox \cup recorded
    BY <1>1, Zenon DEF RecordV1TriggerMessageFollowOn
  <1>2. ASSUME NEW o \in Ops, Operate(o) PROVE UNCHANGED recorded
    BY <1>2 DEF Operate, v1ChargerOperations, EnsureV1Trace, DispatchChargerOperation,
       SendRequest, SendRequestFails, CallFails, DispatchTimeout
  <1>3. QED
    BY <1>1, <1>2, Zenon DEF Next, Worker, Answer, received, Confirm, Read,
       recordTriggerMessageFollowOn, CloseV1TriggerMessageFollowOnWindows, RunOnce,
       Tick, forgetCharger, Crash, vars

\* A message that is recorded now leaves no window open that it matches.
LEMMA NewRecords ==
  ASSUME TypeInv, [Next]_vars, faults' = faults, NEW m \in recorded', m \notin recorded,
         NEW o \in Ops, Open(o), window'[o] = window[o]
  PROVE  ~(InTime(o, m) /\ SameSource(o, m.frame))
  <1> USE DEF operation, rows, observer, messages, env
  <1>1. ~UNCHANGED recorded
    OBVIOUS
  <1>2. ASSUME NEW q \in Ops, Operate(q) PROVE UNCHANGED recorded
    BY <1>2 DEF Operate, v1ChargerOperations, EnsureV1Trace, DispatchChargerOperation,
       SendRequest, SendRequestFails, CallFails, DispatchTimeout
  <1>3. PICK n \in inbox : RecordV1TriggerMessageFollowOn(n)
    BY <1>1, <1>2, Zenon DEF Next, Worker, Answer, received, Confirm, Read,
       recordTriggerMessageFollowOn, CloseV1TriggerMessageFollowOnWindows, RunOnce,
       Tick, forgetCharger, Crash, vars
  <1>4. /\ m = n /\ m.at # Null /\ m \in Messages
        /\ window' = [p \in Ops |-> IF p \in Matches(m)
                THEN [window[p] EXCEPT !.state = "OBSERVED", !.observed = m.at]
                ELSE window[p]]
    BY <1>1, <1>3, Zenon DEF RecordV1TriggerMessageFollowOn, TypeInv
  <1>5. o \notin Matches(m)
    <2>1. o \in Matches(m) => window[o].state = "OPEN" /\ window'[o].state = "OBSERVED"
      BY <1>4, RecordedRows, Zenon
    <2>2. QED
      BY <2>1
  <1>6. QED
    BY <1>5 DEF Matches

LEMMA NextNoMissed ==
  ASSUME TypeInv, AnswerInv, VerdictInv, OpenedInv, NoMissedFollowOn, [Next]_vars
  PROVE  NoMissedFollowOn'
  <1> SUFFICES ASSUME faults' = 0, NEW o \in traced', NEW m \in recorded',
                      window'[o] # Null, window'[o].state = "OPEN",
                      o \in m.after, SameSource(o, m.frame)
               PROVE  ~(/\ window'[o].accepted < m.at
                        /\ m.at <= window'[o].accepted + Window)
    BY Zenon DEF NoMissedFollowOn, Open, InTime, Deadline, SameSource, V1TriggerMessageConnectorScoped
  <1>1. faults = 0
    BY ExcusesStay DEF TypeInv
  <1>0. o \in Ops
    BY NextType DEF TypeInv, TypeOK
  <1>2. RowMoves(o)
    BY <1>0, RowsMove
  <1>6. o \in traced
    <2>1. answer[o] # Null
      BY <1>0, <1>2, NullDiffers, Zenon DEF RowMoves, AnswerInv
    <2>2. QED
      BY <1>0, <1>2, <2>1, Zenon DEF RowMoves, AnswerInv
  <1>3. CASE window'[o] = window[o]
    <2>1. Open(o)
      BY <1>3 DEF Open
    <2>2. ~InTime(o, m)
      <3>1. CASE m \in recorded
        BY <1>1, <1>6, <2>1, <3>1 DEF NoMissedFollowOn
      <3>2. CASE m \notin recorded
        BY <1>0, <1>1, <1>3, <2>1, <3>2, NewRecords
      <3>3. QED
        BY <3>1, <3>2
    <2>3. QED
      BY <1>3, <2>2 DEF InTime, Deadline
  <1>4. CASE /\ window[o] = Null /\ o \in root /\ answer[o] = "Accepted"
             /\ \E c \in Conns : Appending(c, o)
    <2>1. ~Sealed(o)
      BY <1>4, <1>6 DEF Sealed
    <2>2. m \in inbox \cup recorded
      BY RecordsKnown
    <2>3. window[o] # Null \/ Sealed(o)
      BY <1>1, <2>2 DEF OpenedInv
    <2>4. QED
      BY <1>4, <2>1, <2>3
  <1>5. QED
    BY <1>2, <1>3, <1>4, Zenon DEF RowMoves

----------------------------------------------------------------------------
(* Outcomes.                                                                *)

\* The evidence of an operation stays, and so does its excuse.
LEMMA EvidenceStays ==
  ASSUME TypeInv, AnswerInv, VerdictInv, [Next]_vars, NEW o \in Ops,
         state[o] # "PERSISTED", Excused(o) \/ Evident(o)
  PROVE  Excused(o)' \/ Evident(o)'
  <1>1. RowMoves(o)
    BY RowsMove
  <1>2. CASE Excused(o)
    BY <1>1, <1>2, ExcusesStay DEF RowMoves, Excused, TypeInv
  <1>3. CASE Evident(o)
    <2>1. answer'[o] = answer[o]
      BY <1>1, <1>3, Zenon DEF Evident, AnswerInv, RowMoves
    <2>2. QED
      BY <1>1, <1>3, <2>1 DEF RowMoves, Evident
  <1>4. QED
    BY <1>2, <1>3

LEMMA StoredIsEvident ==
  ASSUME TypeInv, AnswerInv, [Next]_vars, NEW o \in Ops, state[o] # "PERSISTED", Stored(o)
  PROVE  Excused(o)' \/ Evident(o)'
  <1>1. RowMoves(o)
    BY RowsMove
  <1>2. CASE faults' > 0
    BY <1>2 DEF Excused
  <1>3. CASE o \notin traced
    BY <1>1, <1>3 DEF RowMoves, Excused
  <1>4. CASE answer[o] = "Rejected" /\ events'[o]["CALLRESULT"] > 0
    <2>1. answer'[o] = "Rejected"
      BY <1>1, <1>4 DEF RowMoves, Final
    <2>2. QED
      BY <1>4, <2>1 DEF Evident
  <1>5. CASE answer[o] = "Accepted" /\ events'[o]["CALLRESULT"] > 0 /\ window'[o] # Null
    BY <1>5 DEF Evident
  <1>6. QED
    BY <1>2, <1>3, <1>4, <1>5, Zenon DEF Stored

\* The answer a read loop has in hand belongs to an operation that was sent.
LEMMA HandedState ==
  ASSUME TypeInv, AnswerInv, NEW o \in Ops, NEW c \in Conns, Handling(c, o)
  PROVE  state[o] \notin {"PERSISTED", "DISPATCHED"}
  <1>1. answer[o] \in Final
    BY DEF Handling, Holds, AnswerInv
  <1>2. QED
    BY <1>1, NullDiffers, Zenon DEF AnswerInv, Final

LEMMA NextOutcome ==
  ASSUME TypeInv, AnswerInv, VerdictInv, OutcomeInv, [Next]_vars
  PROVE  OutcomeInv'
  <1>1. ASSUME NEW o \in Ops, state'[o] = "QUEUED"
        PROVE  entry'[o] = "unique" \/ Excused(o)' \/ Evident(o)'
    <2>1. LoopMoves(o)
      BY LoopsMove
    <2>2. CASE state[o] = "QUEUED" /\ (entry[o] # "unique" \/ entry'[o] = "unique")
      <3>1. CASE entry'[o] = "unique"
        BY <3>1
      <3>2. CASE entry[o] # "unique"
        <4>1. Excused(o) \/ Evident(o)
          BY <2>2, <3>2 DEF OutcomeInv
        <4>2. QED
          BY <2>2, <4>1, EvidenceStays
      <3>3. QED
        BY <2>2, <3>1, <3>2
    <2>3. CASE state[o] = "QUEUED" /\ o \in dropped'
      BY <2>3 DEF Excused
    <2>4. CASE state[o] = "QUEUED" /\ Stored(o)
      BY <2>4, StoredIsEvident
    <2>5. QED
      BY <1>1, <2>1, <2>2, <2>3, <2>4, Zenon DEF LoopMoves
  <1>2. ASSUME NEW o \in Ops, NEW c \in Conns, Holds(loop'[c], o, "handle"), state'[o] = "QUEUED"
        PROVE  Excused(o)' \/ Evident(o)'
    <2>1. LoopMoves(o)
      BY LoopsMove
    <2>2. CASE Handling(c, o)
      <3>1. state[o] = "QUEUED"
        BY <1>2, <2>1, <2>2, HandedState, Zenon DEF LoopMoves
      <3>2. Excused(o) \/ Evident(o)
        BY <2>2, <3>1 DEF OutcomeInv, Handling, Holds
      <3>3. QED
        BY <3>1, <3>2, EvidenceStays
    <2>3. CASE entry[o] # "unique" /\ state'[o] = state[o]
      <3>1. Excused(o) \/ Evident(o)
        BY <1>2, <2>3 DEF OutcomeInv
      <3>2. QED
        BY <1>2, <2>3, <3>1, EvidenceStays
    <2>4. CASE Stored(o)
      <3>1. state[o] # "PERSISTED"
        BY <1>2, <2>1, Zenon DEF LoopMoves
      <3>2. QED
        BY <2>4, <3>1, StoredIsEvident
    <2>5. QED
      BY <1>2, <2>1, <2>2, <2>3, <2>4, Zenon DEF LoopMoves
  <1>3. \A c \in Conns : loop'[c] # Null => loop'[c].op \in Ops
    BY NextType, Zenon DEF TypeInv, TypeOK, LoopStates
  <1>4. QED
    BY <1>1, <1>2, <1>3 DEF OutcomeInv, Holds

LEMMA NextEvidence ==
  ASSUME TypeInv, AnswerInv, VerdictInv, OutcomeInv, EvidenceBeforeOutcome, [Next]_vars
  PROVE  EvidenceBeforeOutcome'
  <1>1. ASSUME NEW o \in Ops, state'[o] = "OCPP_CONFIRMED"
        PROVE  Excused(o)' \/ Evident(o)'
    <2>1. LoopMoves(o)
      BY LoopsMove
    <2>2. CASE state[o] = "OCPP_CONFIRMED"
      <3>1. Excused(o) \/ Evident(o)
        BY <2>2 DEF EvidenceBeforeOutcome, Excused, Evident, TypeInv
      <3>2. QED
        BY <2>2, <3>1, EvidenceStays
    <2>3. CASE state[o] \in Waiting /\ \E c \in Conns : Handling(c, o)
      <3>1. PICK c \in Conns : Handling(c, o)
        BY <2>3
      <3>2. state[o] = "QUEUED"
        BY <2>3, <3>1, HandedState DEF Waiting
      <3>3. Excused(o) \/ Evident(o)
        BY <3>1, <3>2 DEF OutcomeInv, Handling, Holds
      <3>4. QED
        BY <3>2, <3>3, EvidenceStays
    <2>4. QED
      BY <1>1, <2>1, <2>2, <2>3, Zenon DEF LoopMoves
  <1>2. ASSUME NEW o \in Ops, state'[o] = "OCPP_CONFIRMED", o \in traced' \ dropped', faults' = 0
        PROVE  Evident(o)'
    <2>1. ~Excused(o)'
      BY <1>2 DEF Excused
    <2>2. QED
      BY <1>1, <1>2, <2>1, Zenon
  <1>3. QED
    BY <1>2, Zenon DEF EvidenceBeforeOutcome, Evident

----------------------------------------------------------------------------
(* Theorems.                                                                *)

LEMMA InitInv == ASSUME Init PROVE IInv
  <1>1. TypeInv
    BY InitType
  <1>2. \A o \in Ops : events[o]["CALLRESULT"] = 0 /\ events[o]["FOLLOW_ON"] = 0
                       /\ events[o]["FOLLOW_ON_CLOSED"] = 0
    BY DEF Init, Kinds
  <1>3. AnswerInv
    BY <1>2 DEF Init, AnswerInv
  <1>4. VerdictInv
    BY <1>2 DEF Init, VerdictInv
  <1>5. OpenedInv /\ NoMissedFollowOn
    BY Zenon DEF Init, OpenedInv, NoMissedFollowOn
  <1>6. OutcomeInv /\ EvidenceBeforeOutcome
    BY DEF Init, OutcomeInv, EvidenceBeforeOutcome
  <1>7. QED
    BY <1>1, <1>3, <1>4, <1>5, <1>6 DEF IInv

LEMMA Inductive == Spec => []IInv
  <1>1. IInv /\ [Next]_vars => IInv'
    BY NextType, NextAnswer, NextVerdict, NextOpened, NextNoMissed, NextOutcome, NextEvidence
       DEF IInv
  <1>2. QED
    BY <1>1, InitInv, PTL DEF Spec

\* For any number of operations and messages, the window of a TriggerMessage
\* and the trace rows sent to CMS tell one story: one Accepted row, then one
\* FOLLOW_ON row or one FOLLOW_ON_CLOSED row, never both, and an observation
\* lies inside the window (RecordV1TriggerMessageFollowOn and
\* CloseV1TriggerMessageFollowOnWindows race on OPEN rows).
THEOREM Verdicts == Spec => []VerdictMatchesEvidence
  <1>1. IInv => VerdictMatchesEvidence
    BY VerdictHolds DEF IInv
  <1>2. QED
    BY <1>1, Inductive, PTL

\* While no store operation fails, no message that was read behind a paired
\* answer to an operation claimed with its trace root, and handled inside its window is missed, whatever connections,
\* disconnect handlers and restarts do: the read loop stores the evidence of an
\* answer before it reads on.
THEOREM FollowOns == Spec => []NoMissedFollowOn
  <1>1. IInv => NoMissedFollowOn
    BY DEF IInv
  <1>2. QED
    BY <1>1, Inductive, PTL

\* An operation that had its trace root when it was claimed is confirmed only
\* after the evidence of its answer is stored (received before Confirm), unless
\* a store operation failed or a disconnect handler removed the entry.
THEOREM Evidence == Spec => []EvidenceBeforeOutcome
  <1>1. IInv => EvidenceBeforeOutcome
    BY DEF IInv
  <1>2. QED
    BY <1>1, Inductive, PTL
=============================================================================
