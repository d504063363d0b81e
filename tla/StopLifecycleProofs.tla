------------------------ MODULE StopLifecycleProofs ------------------------
(***************************************************************************)
(* Proofs about StopLifecycle for every set of handlers, commands and      *)
(* evidence and every bound on faults and crashes.                         *)
(***************************************************************************)
EXTENDS StopLifecycle, TLAPS

\* Where a goroutine is in DispatchV1Stop determines what the workflow row,
\* the attempt counter and the wire can look like.
DispatchInv ==
    /\ \A p \in Procs :
         /\ pc[p] = "claimed" => workflow \in {"PENDING_DELIVERY", "COMPLETED"}
         /\ pc[p] \in {"begun", "calling", "awaiting", "failed"} =>
               workflow \in {"DELIVERY_ATTEMPTED", "COMPLETED"}
         /\ pc[p] \in {"claimed", "begun", "calling", "failed"} => calls = 0
         /\ pc[p] = "claimed" => attempts = 0
         /\ pc[p] = "calling" => attempts = 1
         /\ phase = "down" => pc[p] = "idle"
    /\ workflow \in {"NONE", "PERSISTED", "PENDING_DELIVERY"} =>
          attempts = 0 /\ calls = 0
    /\ workflow = "DELIVERY_ATTEMPTED" => attempts = 1
    /\ workflow = "COMPLETED" => ~Active
    /\ ~Active => workflow \in {"NONE", "COMPLETED"}
    /\ attempts \in {0, 1}
    /\ calls <= attempts

IInv == TypeOK /\ OneDispatcher /\ DispatchInv

----------------------------------------------------------------------------
(* Type correctness.                                                        *)

LEMMA InitType == Init => TypeOK
  <1> SUFFICES ASSUME Init PROVE TypeOK
    OBVIOUS
  <1>1. overdue \in BOOLEAN
    BY Zenon DEF Init
  <1>2. 0 \in 0..MaxFaults /\ 0 \in 0..MaxCrashes
    BY StopAssumption
  <1>3. QED
    BY <1>1, <1>2 DEF Init, TypeOK, WorkflowStates, CommandStates

LEMMA FactTypes ==
  ASSUME NEW c \in StopCommands, NEW s \in CommandStates
  PROVE  CommandFact(c, s) \in Facts
  BY DEF CommandFact, Facts

LEMMA CompletedFactType ==
  ASSUME NEW e \in Evidence, NEW c \in StopCommands \cup {Null}
  PROVE  CompletedFact(e, c) \in Facts
  BY DEF CompletedFact, Facts

\* Marking an outcome keeps the rows in their types.
LEMMA MarkRowsType ==
  ASSUME TypeOK, NEW s \in Outcomes, MarkRows(s)
  PROVE  /\ workflow' \in WorkflowStates
         /\ stopState' \in WorkflowStates
         /\ command' \in [StopCommands -> CommandStates]
         /\ facts' \subseteq Facts
  <1> s \in WorkflowStates /\ s \in CommandStates
    BY DEF WorkflowStates, CommandStates
  <1>1. CASE Active /\ workflow \notin {"NONE", "COMPLETED"}
    <2> DEFINE linked == {c \in StopCommands : command[c] \notin {"ABSENT", "SUPERSEDED"}}
    <2>1. facts' = facts \cup {CommandFact(c, s) : c \in linked}
      BY <1>1 DEF MarkRows
    <2>2. facts' \subseteq Facts
      BY <2>1, FactTypes DEF TypeOK
    <2>3. QED
      BY <1>1, <2>2 DEF MarkRows, TypeOK
  <1>2. CASE ~(Active /\ workflow \notin {"NONE", "COMPLETED"})
    BY <1>2 DEF MarkRows, TypeOK
  <1>3. QED
    BY <1>1, <1>2

LEMMA CompleteRowsType ==
  ASSUME TypeOK, NEW e \in Evidence, CompleteRows(e)
  PROVE  /\ completed' \in Evidence \cup {Null}
         /\ stopState' \in WorkflowStates
         /\ workflow' \in WorkflowStates
         /\ command' \in [StopCommands -> CommandStates]
         /\ facts' \subseteq Facts
  <1>1. facts' \subseteq Facts
    BY CompletedFactType DEF CompleteRows, TypeOK
  <1>2. QED
    BY <1>1 DEF CompleteRows, TypeOK, WorkflowStates, CommandStates

LEMMA GotoType ==
  ASSUME TypeOK, NEW p \in Procs, NEW from,
         NEW to \in {"idle", "ready", "claimed", "begun", "calling", "awaiting", "failed"},
         Goto(p, from, to)
  PROVE  pc' \in [Procs -> {"idle", "ready", "claimed", "begun", "calling",
                           "awaiting", "failed"}]
  BY DEF Goto, TypeOK

LEMMA EnsureType ==
  ASSUME TypeOK, ensureV1StopWorkflowTx
  PROVE  workflow' \in WorkflowStates /\ stopState' \in WorkflowStates
  BY DEF TypeOK, ensureV1StopWorkflowTx, WorkflowStates

\* Every step of the stop lifecycle keeps every row and process in its type.
LEMMA NextType == TypeOK /\ [Next]_vars => TypeOK'
  <1> SUFFICES ASSUME TypeOK, [Next]_vars PROVE TypeOK'
    OBVIOUS
  <1> USE DEF rows, history, env
  <1>1. ASSUME NEW p \in Handlers, NEW c \in StopCommands, V1Stop(p, c)
        PROVE  TypeOK'
    <2>1. p \in Procs
      BY DEF Procs
    <2>2. facts' \subseteq Facts
      BY <1>1, FactTypes DEF V1Stop, TypeOK, CommandStates
    <2>3. command' \in [StopCommands -> CommandStates]
      BY <1>1 DEF V1Stop, TypeOK, CommandStates
    <2>4. QED
      BY <1>1, <2>1, <2>2, <2>3, GotoType, EnsureType DEF V1Stop, TypeOK
  <1>2. ASSUME NEW p \in Handlers, HandleV1MeterValues(p) PROVE TypeOK'
    <2>1. p \in Procs
      BY DEF Procs
    <2>2. QED
      BY <1>2, <2>1, GotoType, EnsureType DEF HandleV1MeterValues, TypeOK
  <1>3. CASE EnforceV1Deadlines
    <2>1. Worker \in Procs
      BY DEF Procs
    <2>2. QED
      BY <1>3, <2>1, GotoType, EnsureType DEF EnforceV1Deadlines, TypeOK
  <1>4. CASE DispatchPendingV1Stops
    <2>1. Worker \in Procs
      BY DEF Procs
    <2>2. QED
      BY <1>4, <2>1, GotoType DEF DispatchPendingV1Stops, TypeOK
  <1>5. ASSUME NEW p \in Procs, Dispatch(p) PROVE TypeOK'
    <2>1. CASE ClaimV1StopDelivery(p)
      BY <2>1, GotoType, Zenon DEF ClaimV1StopDelivery, TypeOK, WorkflowStates
    <2>2. CASE ClaimRefused(p)
      BY <2>2, GotoType DEF ClaimRefused, TypeOK
    <2>3. CASE BeginV1StopDelivery(p)
      BY <2>3, GotoType DEF BeginV1StopDelivery, TypeOK, WorkflowStates
    <2>4. CASE CheckCompleted(p)
      BY <2>4, GotoType DEF CheckCompleted, TypeOK
    <2>5. CASE RemoteStopTransaction(p)
      BY <2>5, GotoType DEF RemoteStopTransaction, TypeOK
    <2>6. CASE RemoteStopUnsent(p)
      BY <2>6, GotoType DEF RemoteStopUnsent, TypeOK
    <2>7. CASE MarkV1StopDelivery(p)
      <3>1. PICK s \in Outcomes : MarkRows(s)
        BY <2>7 DEF MarkV1StopDelivery, MarkedState, Outcomes
      <3>2. pc' \in [Procs -> {"idle", "ready", "claimed", "begun", "calling",
                              "awaiting", "failed"}]
        BY <2>7, GotoType DEF MarkV1StopDelivery
      <3>3. QED
        BY <2>7, <3>1, <3>2, MarkRowsType DEF MarkV1StopDelivery, TypeOK
    <2>8. QED
      BY <1>5, <2>1, <2>2, <2>3, <2>4, <2>5, <2>6, <2>7 DEF Dispatch
  <1>6. ASSUME NEW p \in Procs, DispatchFails(p) PROVE TypeOK'
    BY <1>6, GotoType, StopAssumption DEF DispatchFails, TypeOK
  <1>7. ASSUME NEW e \in Evidence, HandleV1StopTransaction(e) PROVE TypeOK'
    BY <1>7, CompleteRowsType DEF HandleV1StopTransaction, TypeOK
  <1>8. ASSUME NEW e \in Evidence, ConfirmationLost(e) PROVE TypeOK'
    BY <1>8, CompleteRowsType DEF ConfirmationLost, TypeOK
  <1>9. CASE DeadlinePasses
    BY <1>9 DEF DeadlinePasses, TypeOK
  <1>10. CASE Crash
    BY <1>10, StopAssumption DEF Crash, TypeOK
  <1>11. CASE RecoverV1StopDelivery
    BY <1>11 DEF RecoverV1StopDelivery, TypeOK, WorkflowStates, Outcomes
  <1>12. CASE Serve
    BY <1>12 DEF Serve, TypeOK
  <1>13. CASE UNCHANGED vars
    BY <1>13 DEF vars, TypeOK
  <1>14. QED
    BY <1>1, <1>2, <1>3, <1>4, <1>5, <1>6, <1>7, <1>8, <1>9, <1>10, <1>11,
       <1>12, <1>13 DEF Next

\* Every reachable state of the stop lifecycle is well typed.
THEOREM TypeCorrect == Spec => []TypeOK
  BY InitType, NextType, PTL DEF Spec

----------------------------------------------------------------------------
(* The dispatch invariant.                                                  *)

LEMMA InitInv == Init => IInv
  BY InitType DEF Init, IInv, OneDispatcher, Busy, DispatchInv, Active

\* A goroutine that moves between "idle" and "ready", while the workflow row is
\* at most created, disturbs nothing.
LEMMA AskKeepsInv ==
  ASSUME IInv, TypeOK', NEW p \in Procs, Goto(p, "idle", "ready"), Active,
         ensureV1StopWorkflowTx \/ UNCHANGED <<workflow, stopState>>,
         UNCHANGED <<completed, attempts, calls, phase>>
  PROVE  IInv'
  <1>1. \A q \in Procs : Busy(q)' = Busy(q) /\ (Busy(q) => pc'[q] = pc[q])
    BY DEF IInv, TypeOK, Goto, Busy
  <1>2. OneDispatcher'
    BY <1>1 DEF IInv, OneDispatcher
  <1>3. DispatchInv'
    <2>1. workflow' = workflow \/ (workflow = "NONE" /\ workflow' = "PERSISTED")
      BY DEF ensureV1StopWorkflowTx
    <2>2. QED
      BY <2>1 DEF IInv, TypeOK, DispatchInv, Goto, Running, Active
  <1>4. QED
    BY <1>2, <1>3 DEF IInv

LEMMA DispatchKeepsInv ==
  ASSUME IInv, TypeOK', NEW p \in Procs, Dispatch(p)
  PROVE  OneDispatcher' /\ DispatchInv'
  <1> USE DEF IInv, TypeOK, OneDispatcher, Busy, DispatchInv, Goto, Running,
              Active, rows, history, env
  <1>1. CASE ClaimV1StopDelivery(p)
    BY <1>1 DEF ClaimV1StopDelivery
  <1>2. CASE ClaimRefused(p)
    BY <1>2 DEF ClaimRefused
  <1>3. CASE BeginV1StopDelivery(p)
    BY <1>3 DEF BeginV1StopDelivery
  <1>4. CASE CheckCompleted(p)
    BY <1>4 DEF CheckCompleted
  <1>5. CASE RemoteStopTransaction(p)
    BY <1>5 DEF RemoteStopTransaction
  <1>6. CASE RemoteStopUnsent(p)
    BY <1>6 DEF RemoteStopUnsent
  <1>7. CASE MarkV1StopDelivery(p)
    <2>1. PICK s \in Outcomes : MarkRows(s)
      BY <1>7 DEF MarkV1StopDelivery, MarkedState, Outcomes
    <2>2. workflow' = workflow \/ (workflow' \in Outcomes /\ completed = Null)
      BY <2>1 DEF MarkRows
    <2>3. \A q \in Procs : q # p => ~Busy(q)'
      BY <1>7 DEF MarkV1StopDelivery
    <2>4. pc'[p] = "idle"
      BY <1>7 DEF MarkV1StopDelivery
    <2>5. UNCHANGED <<completed, attempts, calls, phase>>
      BY <1>7 DEF MarkV1StopDelivery
    <2>6. phase' # "down"
      BY <1>7 DEF MarkV1StopDelivery
    <2>7. QED
      BY <2>2, <2>3, <2>4, <2>5, <2>6 DEF Outcomes
  <1>8. QED
    BY <1>1, <1>2, <1>3, <1>4, <1>5, <1>6, <1>7 DEF Dispatch

\* The completion moves the workflow to COMPLETED under every goroutine.
LEMMA CompleteKeepsInv ==
  ASSUME IInv, TypeOK', NEW e \in Evidence, CompleteRows(e),
         UNCHANGED <<attempts, pc, calls, phase>>
  PROVE  OneDispatcher' /\ DispatchInv'
  <1>1. completed' # Null
    BY StopAssumption DEF CompleteRows
  <1>2. QED
    BY <1>1 DEF IInv, TypeOK, OneDispatcher, Busy, DispatchInv, CompleteRows, Active

LEMMA NextInv == IInv /\ [Next]_vars => IInv'
  <1> SUFFICES ASSUME IInv, [Next]_vars PROVE IInv'
    OBVIOUS
  <1> TypeOK'
    BY NextType DEF IInv
  <1> SUFFICES OneDispatcher' /\ DispatchInv'
    BY DEF IInv
  <1> USE DEF rows, history, env
  <1>1. ASSUME NEW p \in Handlers, NEW c \in StopCommands, V1Stop(p, c)
        PROVE  IInv'
    BY <1>1, AskKeepsInv DEF V1Stop, Procs
  <1>2. ASSUME NEW p \in Handlers, HandleV1MeterValues(p) PROVE IInv'
    BY <1>2, AskKeepsInv DEF HandleV1MeterValues, Procs
  <1>3. CASE EnforceV1Deadlines
    BY <1>3, AskKeepsInv DEF EnforceV1Deadlines, Procs, IInv
  <1>4. CASE DispatchPendingV1Stops
    BY <1>4, AskKeepsInv DEF DispatchPendingV1Stops, Procs, IInv
  <1>5. ASSUME NEW p \in Procs, Dispatch(p) PROVE OneDispatcher' /\ DispatchInv'
    BY <1>5, DispatchKeepsInv
  <1>6. ASSUME NEW p \in Procs, DispatchFails(p) PROVE OneDispatcher' /\ DispatchInv'
    BY <1>6 DEF DispatchFails, IInv, TypeOK, OneDispatcher, Busy, DispatchInv,
                Goto, Running, Active
  <1>7. ASSUME NEW e \in Evidence, HandleV1StopTransaction(e)
        PROVE  OneDispatcher' /\ DispatchInv'
    <2>1. CASE Active
      BY <1>7, <2>1, CompleteKeepsInv DEF HandleV1StopTransaction
    <2>2. CASE ~Active
      BY <1>7, <2>2 DEF HandleV1StopTransaction, IInv, OneDispatcher, Busy,
                        DispatchInv, Active
    <2>3. QED
      BY <2>1, <2>2
  <1>8. ASSUME NEW e \in Evidence, ConfirmationLost(e)
        PROVE  OneDispatcher' /\ DispatchInv'
    BY <1>8, CompleteKeepsInv DEF ConfirmationLost
  <1>9. CASE Crash
    BY <1>9 DEF Crash, IInv, TypeOK, OneDispatcher, Busy, DispatchInv, Active
  <1>10. CASE RecoverV1StopDelivery
    BY <1>10 DEF RecoverV1StopDelivery, IInv, TypeOK, OneDispatcher, Busy,
                 DispatchInv, Active
  <1>11. CASE Serve
    BY <1>11 DEF Serve, IInv, OneDispatcher, Busy, DispatchInv, Active
  <1>12. CASE DeadlinePasses
    BY <1>12 DEF DeadlinePasses, IInv, OneDispatcher, Busy, DispatchInv, Active
  <1>13. CASE UNCHANGED vars
    BY <1>13 DEF vars, IInv, OneDispatcher, Busy, DispatchInv, Active
  <1>14. QED
    BY <1>1, <1>2, <1>3, <1>4, <1>5, <1>6, <1>7, <1>8, <1>9, <1>10, <1>11,
       <1>12, <1>13 DEF Next, IInv

LEMMA Inductive == Spec => []IInv
  BY InitInv, NextInv, PTL DEF Spec

\* For any number of handlers, faults and crashes, one transaction gets at most
\* one RemoteStopTransaction, recorded as attempted before it is sent.
THEOREM AtMostOnce == Spec => []AtMostOneRemoteStop
  <1>1. IInv => AtMostOneRemoteStop
    BY DEF IInv, TypeOK, DispatchInv, AtMostOneRemoteStop
  <1>2. QED
    BY <1>1, Inductive, PTL

\* No two goroutines are ever between the claim and the mark of one stop.
THEOREM SingleDispatcher == Spec => []OneDispatcher
  <1>1. IInv => OneDispatcher
    BY DEF IInv
  <1>2. QED
    BY <1>1, Inductive, PTL

----------------------------------------------------------------------------
(* The dispatch implements WriteAheadDelivery.                              *)

\* What one step may do to the two variables of the abstract specification.
LEMMA StepDelivers ==
  ASSUME IInv, [Next]_vars
  PROVE  \/ UNCHANGED <<attempts, calls>>
         \/ attempts = 0 /\ attempts' = 1 /\ calls' = calls
         \/ attempts = 1 /\ attempts' = 1 /\ calls = 0 /\ calls' = 1
  <1> DEFINE Goal == \/ UNCHANGED <<attempts, calls>>
                     \/ attempts = 0 /\ attempts' = 1 /\ calls' = calls
                     \/ attempts = 1 /\ attempts' = 1 /\ calls = 0 /\ calls' = 1
  <1>1. ASSUME NEW p \in Procs, BeginV1StopDelivery(p) PROVE Goal
    BY <1>1 DEF BeginV1StopDelivery, IInv, DispatchInv, TypeOK, Goto, history
  <1>2. ASSUME NEW p \in Procs, RemoteStopTransaction(p) PROVE Goal
    BY <1>2 DEF RemoteStopTransaction, IInv, DispatchInv, TypeOK, Goto, rows
  <1>3. ASSUME NEW p \in Procs, Dispatch(p) PROVE Goal
    BY <1>1, <1>2, <1>3 DEF Dispatch, ClaimV1StopDelivery, ClaimRefused,
       CheckCompleted, RemoteStopUnsent, MarkV1StopDelivery, rows, history
  <1>4. QED
    BY <1>3 DEF Next, vars, rows, history, V1Stop,
       HandleV1MeterValues, EnforceV1Deadlines, DispatchPendingV1Stops,
       DispatchFails, HandleV1StopTransaction, ConfirmationLost, DeadlinePasses,
       Crash, RecoverV1StopDelivery, Serve

\* DispatchV1Stop is an implementation of write-ahead delivery, across every
\* interleaving, store error, crash and restart.
THEOREM Refinement == Spec => WriteAhead
  <1>1. Init => Delivery!Init
    BY DEF Init, Delivery!Init
  <1>2. IInv /\ [Next]_vars => [Delivery!Next]_<<attempts > 0, calls>>
    <2> SUFFICES ASSUME IInv, [Next]_vars
                 PROVE  [Delivery!Next]_<<attempts > 0, calls>>
      OBVIOUS
    <2>1. CASE UNCHANGED <<attempts, calls>>
      BY <2>1
    <2>2. CASE attempts = 0 /\ attempts' = 1 /\ calls' = calls
      BY <2>2 DEF Delivery!Next, Delivery!Attempt
    <2>3. CASE attempts = 1 /\ attempts' = 1 /\ calls = 0 /\ calls' = 1
      BY <2>3 DEF Delivery!Next, Delivery!Send
    <2>4. QED
      BY StepDelivers, <2>1, <2>2, <2>3
  <1>3. QED
    BY <1>1, <1>2, Inductive, PTL DEF Spec, WriteAhead, Delivery!Spec

----------------------------------------------------------------------------
(* What CompleteV1Transaction closes stays closed, and what a mark writes it *)
(* writes to every row.                                                     *)

\* No operation touches a row of a completed transaction: each re-reads
\* completed_at, or finds the workflow already COMPLETED.
LEMMA CompletedStep == IInv /\ [Next]_vars /\ ~Active => UNCHANGED rows
  <1> SUFFICES ASSUME IInv, [Next]_vars, ~Active PROVE UNCHANGED rows
    OBVIOUS
  <1>1. workflow \in {"NONE", "COMPLETED"}
    BY DEF IInv, DispatchInv
  <1>2. ASSUME NEW p \in Procs, Dispatch(p) PROVE UNCHANGED rows
    BY <1>1, <1>2 DEF Dispatch, ClaimV1StopDelivery, ClaimRefused,
       BeginV1StopDelivery, CheckCompleted, RemoteStopTransaction,
       RemoteStopUnsent, MarkV1StopDelivery, MarkRows, rows
  <1>3. CASE RecoverV1StopDelivery
    BY <1>1, <1>3 DEF RecoverV1StopDelivery, rows
  <1>4. QED
    BY <1>1, <1>2, <1>3 DEF Next, vars, rows, V1Stop,
       HandleV1MeterValues, EnforceV1Deadlines, DispatchPendingV1Stops,
       DispatchFails, HandleV1StopTransaction, ConfirmationLost, DeadlinePasses,
       Crash, Serve

\* Once a transaction is completed none of its durable rows changes again.
THEOREM CompletedFrozen == Spec => CompletedRowsFrozen
  <1>1. IInv /\ [Next]_vars => [~Active => UNCHANGED rows]_vars
    BY CompletedStep
  <1>2. QED
    BY <1>1, Inductive, PTL DEF Spec, CompletedRowsFrozen

\* While the transaction is active a step either leaves completed,
\* transaction.completed facts and confirmations alone, or completes it.
LEMMA ActiveStep ==
  ASSUME IInv, [Next]_vars, Active
  PROVE  \/ /\ completed' = completed /\ acked' = acked
            /\ \A f \in facts' \ facts : f.type = "command.updated"
            /\ facts \subseteq facts'
         \/ \E e \in Evidence : /\ CompleteRows(e)
                              /\ firstCommand' = firstCommand
                              /\ acked' \in {acked, acked \cup {e}}
  <1> DEFINE Quiet == /\ completed' = completed /\ acked' = acked
                      /\ \A f \in facts' \ facts : f.type = "command.updated"
                      /\ facts \subseteq facts'
  <1> USE DEF rows, history, vars
  <1>1. ASSUME NEW p \in Procs, MarkV1StopDelivery(p) PROVE Quiet
    <2>1. PICK s : MarkRows(s)
      BY <1>1 DEF MarkV1StopDelivery
    <2>2. \A f \in facts' \ facts : f.type = "command.updated"
      BY <2>1 DEF MarkRows, CommandFact
    <2>3. facts \subseteq facts'
      BY <2>1 DEF MarkRows
    <2>4. QED
      BY <1>1, <2>2, <2>3 DEF MarkV1StopDelivery
  <1>2. ASSUME NEW p \in Procs, Dispatch(p) PROVE Quiet
    BY <1>1, <1>2 DEF Dispatch, ClaimV1StopDelivery, ClaimRefused,
       BeginV1StopDelivery, CheckCompleted, RemoteStopTransaction,
       RemoteStopUnsent
  <1>3. ASSUME NEW p \in Handlers, NEW c \in StopCommands, V1Stop(p, c) PROVE Quiet
    BY <1>3 DEF V1Stop, CommandFact
  <1>4. ASSUME NEW e \in Evidence, HandleV1StopTransaction(e) \/ ConfirmationLost(e)
        PROVE  CompleteRows(e) /\ firstCommand' = firstCommand
               /\ acked' \in {acked, acked \cup {e}}
    BY <1>4 DEF HandleV1StopTransaction, ConfirmationLost
  <1>5. QED
    BY <1>2, <1>3, <1>4 DEF Next, HandleV1MeterValues,
       EnforceV1Deadlines, DispatchPendingV1Stops, DispatchFails, DeadlinePasses,
       Crash, RecoverV1StopDelivery, Serve

CInv == IInv /\ CompletionClosesStop /\ AckedIsDurable

LEMMA NextCompletion == CInv /\ [Next]_vars => CInv'
  <1> SUFFICES ASSUME CInv, [Next]_vars PROVE CInv'
    OBVIOUS
  <1>0. IInv /\ IInv'
    BY NextInv DEF CInv
  <1>1. CASE ~Active
    <2>1. UNCHANGED rows
      BY <1>0, <1>1, CompletedStep
    <2>2. \A e \in acked' : completed = e
      BY <1>1, <2>1 DEF CInv, AckedIsDurable, Next, vars, history, V1Stop,
         HandleV1MeterValues, EnforceV1Deadlines,
         DispatchPendingV1Stops, Dispatch, ClaimV1StopDelivery, ClaimRefused,
         BeginV1StopDelivery, CheckCompleted, RemoteStopTransaction,
         RemoteStopUnsent, MarkV1StopDelivery, DispatchFails,
         HandleV1StopTransaction, ConfirmationLost, DeadlinePasses, Crash,
         RecoverV1StopDelivery, Serve
    <2>3. QED
      BY <1>0, <2>1, <2>2 DEF CInv, CompletionClosesStop, AckedIsDurable, rows, Active
  <1>2. CASE Active
    <2>1. acked = {}
      BY <1>0, <1>2, StopAssumption DEF CInv, IInv, TypeOK, AckedIsDurable, Active
    <2>2. {f \in facts : f.type = "transaction.completed"} = {}
      BY <1>2 DEF CInv, CompletionClosesStop
    <2>3. CASE /\ completed' = completed /\ acked' = acked
               /\ \A f \in facts' \ facts : f.type = "command.updated"
               /\ facts \subseteq facts'
      BY <1>0, <1>2, <2>1, <2>2, <2>3 DEF CInv, CompletionClosesStop, AckedIsDurable, Active
    <2>4. ASSUME NEW e \in Evidence, CompleteRows(e), firstCommand' = firstCommand,
                 acked' \in {acked, acked \cup {e}}
          PROVE  CInv'
      <3>1. ~Active' /\ completed' = e
        BY <2>4, StopAssumption DEF CompleteRows, Active
      <3>2. CompletedFact(e, firstCommand).type = "transaction.completed"
        BY DEF CompletedFact
      <3>3. {f \in facts' : f.type = "transaction.completed"}
               = {CompletedFact(e, firstCommand)}
        BY <2>2, <2>4, <3>2 DEF CompleteRows
      <3>4. CompletionClosesStop'
        BY <2>4, <3>1, <3>3 DEF CompletionClosesStop, CompleteRows
      <3>5. AckedIsDurable'
        BY <2>1, <2>4, <3>1 DEF AckedIsDurable
      <3>6. QED
        BY <1>0, <3>4, <3>5 DEF CInv
    <2>5. QED
      BY <1>0, <1>2, <2>3, <2>4, ActiveStep
  <1>3. QED
    BY <1>1, <1>2

LEMMA InductiveCompletion == Spec => []CInv
  <1>1. Init => CInv
    BY InitInv DEF Init, CInv, CompletionClosesStop, AckedIsDurable, Active
  <1>2. QED
    BY <1>1, NextCompletion, PTL DEF Spec

\* The completion closes workflow and commands and is published exactly once.
THEOREM CompletionCloses == Spec => []CompletionClosesStop
  <1>1. CInv => CompletionClosesStop
    BY DEF CInv
  <1>2. QED
    BY <1>1, InductiveCompletion, PTL

\* The evidence that was confirmed to the charger is the evidence that is
\* durable, whatever crashes and other evidence came in between.
THEOREM Acked == Spec => []AckedIsDurable
  <1>1. CInv => AckedIsDurable
    BY DEF CInv
  <1>2. QED
    BY <1>1, InductiveCompletion, PTL

----------------------------------------------------------------------------
(* Outcomes.                                                                *)

\* What an outcome is marked over: until then the transaction shows PERSISTED,
\* and a command is superseded only by the completion.
OInv ==
    /\ OutcomesAgree
    /\ phase = "down" => crashes > 0
    /\ Active => /\ workflow \notin Outcomes \cup {"NONE"} => stopState = "PERSISTED"
                 /\ \A c \in StopCommands : command[c] # "SUPERSEDED"

LEMMA FactsDiffer ==
  ASSUME NEW c, NEW s, NEW d, NEW u, CommandFact(c, s) = CommandFact(d, u)
  PROVE  c = d /\ s = u
  BY DEF CommandFact

LEMMA CompletedDiffers ==
  ASSUME NEW c, NEW s, NEW e, NEW d
  PROVE  CommandFact(c, s) # CompletedFact(e, d)
  <1>1. CommandFact(c, s).type # CompletedFact(e, d).type
    BY DEF CommandFact, CompletedFact
  <1>2. QED
    BY <1>1

\* An outcome is marked on an active transaction only while the delivery is
\* DELIVERY_ATTEMPTED, when no command has one.
LEMMA MarkOutcomes ==
  ASSUME IInv, OInv, NEW p \in Procs, MarkV1StopDelivery(p)
  PROVE  OInv'
  <1>1. PICK s \in Outcomes : MarkRows(s)
    BY DEF MarkV1StopDelivery, MarkedState, Outcomes
  <1>2. UNCHANGED <<completed, phase, crashes>>
    BY DEF MarkV1StopDelivery, env
  <1>3. workflow \in {"DELIVERY_ATTEMPTED", "COMPLETED"}
    BY DEF MarkV1StopDelivery, Goto, IInv, DispatchInv
  <1>4. CASE Active /\ workflow \notin {"NONE", "COMPLETED"}
    <2> DEFINE linked == {c \in StopCommands : command[c] \notin {"ABSENT", "SUPERSEDED"}}
    <2>1. /\ workflow' = s /\ stopState' = s
          /\ command' = [c \in StopCommands |-> IF c \in linked THEN s ELSE command[c]]
          /\ facts' = facts \cup {CommandFact(c, s) : c \in linked}
      BY <1>1, <1>4 DEF MarkRows
    <2>2. \A c \in StopCommands : command[c] \notin Outcomes
      BY <1>3, <1>4 DEF OInv, OutcomesAgree, Outcomes
    <2>3. \A c \in StopCommands, u \in Outcomes : CommandFact(c, u) \notin facts
      BY <1>4, <2>2 DEF OInv, OutcomesAgree
    <2>4. \A c \in StopCommands, u \in Outcomes :
             CommandFact(c, u) \in facts' => c \in linked /\ u = s
      BY <2>1, <2>3, FactsDiffer
    <2>5. \A c \in StopCommands : /\ c \in linked => /\ command'[c] = s
                                                     /\ CommandFact(c, s) \in facts'
                                  /\ c \notin linked => command'[c] = command[c]
      BY <2>1
    <2>6. s # "SUPERSEDED" /\ s \in Outcomes
      BY DEF Outcomes
    <2> HIDE DEF linked
    <2>7. OutcomesAgree'
      BY <2>1, <2>2, <2>4, <2>5, <2>6 DEF OutcomesAgree
    <2>8. QED
      BY <1>2, <1>4, <2>1, <2>5, <2>6, <2>7 DEF OInv, Active
  <1>5. CASE ~(Active /\ workflow \notin {"NONE", "COMPLETED"})
    <2>1. UNCHANGED <<workflow, stopState, command, facts>>
      BY <1>1, <1>5 DEF MarkRows
    <2>2. QED
      BY <1>2, <2>1 DEF OInv, OutcomesAgree, Active
  <1>6. QED
    BY <1>4, <1>5

\* The completion ends every outcome.
LEMMA CompleteOutcomes ==
  ASSUME IInv, OInv, NEW e \in Evidence, CompleteRows(e), UNCHANGED <<phase, crashes>>
  PROVE  OInv'
  <1>1. ~Active'
    BY StopAssumption DEF CompleteRows, Active
  <1>2. \A c \in StopCommands : /\ command'[c] \notin Outcomes
                                /\ command[c] # "ABSENT" => command'[c] = "SUPERSEDED"
    BY DEF CompleteRows, Outcomes
  <1>3. \A c \in StopCommands, s \in Outcomes :
           CommandFact(c, s) \in facts' => CommandFact(c, s) \in facts
    BY CompletedDiffers DEF CompleteRows
  <1>4. \A c \in StopCommands, s \in Outcomes :
           CommandFact(c, s) \in facts => command[c] # "ABSENT"
    BY DEF OInv, OutcomesAgree, Outcomes
  <1>5. OutcomesAgree'
    BY <1>1, <1>2, <1>3, <1>4 DEF OutcomesAgree
  <1>6. QED
    BY <1>1, <1>5 DEF OInv

LEMMA NextOutcomes == IInv /\ OInv /\ [Next]_vars => OInv'
  <1> SUFFICES ASSUME IInv, OInv, [Next]_vars PROVE OInv'
    OBVIOUS
  <1> USE DEF rows, history, env, vars
  <1>1. CASE UNCHANGED <<completed, workflow, stopState, command, facts, phase, crashes>>
    BY <1>1 DEF OInv, OutcomesAgree, Active
  <1>2. ASSUME ensureV1StopWorkflowTx, UNCHANGED <<completed, command, facts, phase, crashes>>
        PROVE  OInv'
    BY <1>2 DEF ensureV1StopWorkflowTx, OInv, OutcomesAgree, Active, Outcomes
  <1>3. ASSUME NEW p \in Procs, Dispatch(p) PROVE OInv'
    <2>1. ASSUME workflow \notin Outcomes \cup {"NONE"}, workflow' \notin Outcomes \cup {"NONE"},
                 UNCHANGED <<completed, stopState, command, facts, phase, crashes>>
          PROVE  OInv'
      BY <2>1 DEF OInv, OutcomesAgree, Active
    <2>2. CASE ClaimV1StopDelivery(p)
      BY <2>1, <2>2 DEF ClaimV1StopDelivery, Outcomes
    <2>3. CASE BeginV1StopDelivery(p)
      BY <1>1, <2>1, <2>3 DEF BeginV1StopDelivery, Outcomes
    <2>4. QED
      BY <1>1, <1>3, <2>2, <2>3, MarkOutcomes DEF Dispatch, ClaimRefused, CheckCompleted,
         RemoteStopTransaction, RemoteStopUnsent
  <1>4. ASSUME NEW p \in Handlers, NEW c \in StopCommands, V1Stop(p, c) PROVE OInv'
    <2>1. \A d \in StopCommands, s \in Outcomes :
             CommandFact(d, s) \in facts' => CommandFact(d, s) \in facts
      BY <1>4, FactsDiffer DEF V1Stop, Outcomes
    <2>2. \A d \in StopCommands : \/ command'[d] = command[d]
                                  \/ command[d] = "ABSENT" /\ command'[d] = "PERSISTED"
      BY <1>4 DEF V1Stop, IInv, TypeOK
    <2>3. \/ UNCHANGED <<workflow, stopState>>
          \/ workflow = "NONE" /\ workflow' = "PERSISTED" /\ stopState' = "PERSISTED"
      BY <1>4 DEF V1Stop, ensureV1StopWorkflowTx
    <2>4. UNCHANGED <<completed, phase, crashes>> /\ facts \subseteq facts'
      BY <1>4 DEF V1Stop
    <2>5. OutcomesAgree'
      BY <2>1, <2>2, <2>3, <2>4 DEF OInv, OutcomesAgree, Active, Outcomes
    <2>6. QED
      BY <2>2, <2>3, <2>4, <2>5 DEF OInv, Active
  <1>5. ASSUME NEW e \in Evidence, HandleV1StopTransaction(e) \/ ConfirmationLost(e)
        PROVE  OInv'
    BY <1>1, <1>5, CompleteOutcomes DEF HandleV1StopTransaction, ConfirmationLost
  <1>6. CASE RecoverV1StopDelivery
    <2>1. /\ UNCHANGED <<completed, stopState, command, facts, crashes>>
          /\ phase = "down" /\ phase' = "recovering"
      BY <1>6 DEF RecoverV1StopDelivery
    <2>2. \/ workflow' = workflow
          \/ workflow = "PENDING_DELIVERY" /\ workflow' = "PERSISTED"
          \/ workflow = "DELIVERY_ATTEMPTED" /\ workflow' = "AMBIGUOUS"
      BY <1>6 DEF RecoverV1StopDelivery
    <2>3. CASE workflow' = workflow
      BY <2>1, <2>3 DEF OInv, OutcomesAgree, Active
    <2>4. ASSUME workflow' # workflow, workflow \in {"PENDING_DELIVERY", "DELIVERY_ATTEMPTED"}
          PROVE  OInv'
      <3>1. Active /\ stopState = "PERSISTED"
        BY <2>4 DEF IInv, DispatchInv, OInv, Outcomes
      <3>2. \A c \in StopCommands : command[c] \notin Outcomes
        BY <2>4 DEF OInv, OutcomesAgree, Outcomes
      <3>3. \A c \in StopCommands, s \in Outcomes : CommandFact(c, s) \notin facts
        BY <3>1, <3>2 DEF OInv, OutcomesAgree
      <3>4. workflow' \in {"PERSISTED", "AMBIGUOUS"}
        BY <2>2, <2>4
      <3>5. OutcomesAgree'
        BY <2>1, <3>1, <3>2, <3>3, <3>4 DEF OInv, OutcomesAgree, Active, Outcomes
      <3>6. QED
        BY <2>1, <3>1, <3>5 DEF OInv, Active
    <2>5. QED
      BY <2>2, <2>3, <2>4
  <1>7. CASE Crash
    <2>1. UNCHANGED <<completed, workflow, stopState, command, facts>>
          /\ crashes' = crashes + 1 /\ crashes \in Nat
      BY <1>7, StopAssumption DEF Crash, IInv, TypeOK
    <2>2. QED
      BY <2>1 DEF OInv, OutcomesAgree, Active
  <1>8. CASE Serve
    BY <1>8 DEF Serve, OInv, OutcomesAgree, Active
  <1>9. QED
    BY <1>1, <1>2, <1>3, <1>4, <1>5, <1>6, <1>7, <1>8 DEF Next, HandleV1MeterValues,
       EnforceV1Deadlines, DispatchPendingV1Stops, DispatchFails, DeadlinePasses

\* A STOP command that shows an outcome shows the workflow's and the
\* transaction's, and CMS was sent it; CMS is sent at most one outcome of a
\* command, the one its row shows; and an outcome the transaction does not show
\* is the AMBIGUOUS of a restart, of which no command is told
\* (MarkV1StopDelivery, RecoverV1StopDelivery).  That every linked command gets
\* the outcome is not claimed: a later one, and those of a restart, do not.
THEOREM Outcome == Spec => []OutcomesAgree
  <1>1. Init => OInv
    BY DEF Init, OInv, OutcomesAgree, Outcomes
  <1>2. OInv => OutcomesAgree
    BY DEF OInv
  <1>3. QED
    BY <1>1, <1>2, NextOutcomes, Inductive, PTL DEF Spec
=============================================================================
