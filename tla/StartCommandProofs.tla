------------------------- MODULE StartCommandProofs -------------------------
(***************************************************************************)
(* Proofs about StartCommand for every set of handlers, meters and         *)
(* transaction ids and every bound on faults and crashes.                  *)
(***************************************************************************)
EXTENDS StartCommand, TLAPS

PCs == {"idle", "ready", "claimed", "calling", "awaiting", "failed"}
Transactions == [id : TxIds, meter : Meters]
Facts == [type : {"command.updated"}, state : States]
            \cup [type : {"transaction.started"}, tx : Transactions]

\* Between the claim and the mark of the command's delivery.
Busy(h) == pc[h] \in {"claimed", "calling", "awaiting", "failed"}

\* Where a handler is in v1Start determines what the command row, the attempt
\* counter and the wire can look like; only a command on the wire can have
\* been overtaken by its StartTransaction.
DispatchInv ==
    /\ \A h \in Handlers :
         /\ pc[h] = "claimed" => command = "PENDING_DELIVERY"
         /\ pc[h] \in {"calling", "failed"} =>
               command = "DELIVERY_ATTEMPTED" /\ calls = 0
         /\ pc[h] = "awaiting" => command \in {"DELIVERY_ATTEMPTED", "MATERIALIZED"}
         /\ ~up => pc[h] = "idle"
    /\ \A g, h \in Handlers : Busy(g) /\ Busy(h) => g = h
    /\ attempts = IF command \in {"ABSENT", "PERSISTED", "PENDING_DELIVERY"}
                  THEN 0 ELSE 1
    /\ calls <= attempts
    /\ command = "MATERIALIZED" <=> tx # Null

IInv == TypeOK /\ DispatchInv

----------------------------------------------------------------------------
(* Type correctness.                                                        *)

LEMMA InitType == Init => TypeOK
  <1>1. 0 \in 0..MaxFaults /\ 0 \in 0..MaxCrashes
    BY StartAssumption
  <1>2. Init => up \in BOOLEAN /\ expired \in BOOLEAN
    BY Zenon DEF Init
  <1>3. QED
    BY <1>1, <1>2 DEF Init, TypeOK, States

LEMMA GotoType ==
  ASSUME TypeOK, NEW h \in Handlers, NEW from, NEW to \in PCs, Goto(h, from, to)
  PROVE  pc' \in [Handlers -> PCs]
  BY DEF Goto, TypeOK, PCs

LEMMA CommandFactType ==
  ASSUME NEW s \in States
  PROVE  CommandFact(s) \in Facts
  BY DEF CommandFact, Facts

LEMMA StartedFactType ==
  ASSUME NEW t \in Transactions
  PROVE  StartedFact(t) \in Facts
  BY DEF StartedFact, Facts

\* The mark of an outcome is one of three and keeps command and facts typed.
LEMMA MarkOutcome ==
  ASSUME NEW h \in Handlers, MarkV1CommandDelivery(h)
  PROVE  \E s \in Outcomes : MarkRows(s)
  BY DEF MarkV1CommandDelivery, MarkedState, Outcomes

\* Every step of the START command keeps every row and handler in its type.
LEMMA NextType == TypeOK /\ [Next]_vars => TypeOK'
  <1> SUFFICES ASSUME TypeOK, [Next]_vars PROVE TypeOK'
    OBVIOUS
  <1> USE DEF rows, bounds
  <1>1. ASSUME NEW h \in Handlers, V1Start(h) PROVE TypeOK'
    BY <1>1, GotoType DEF V1Start, TypeOK, PCs, States
  <1>2. ASSUME NEW h \in Handlers, Dispatch(h) PROVE TypeOK'
    <2>1. CASE ClaimV1StartDelivery(h)
      BY <2>1, GotoType DEF ClaimV1StartDelivery, TypeOK, PCs, States
    <2>2. CASE ClaimRefused(h)
      BY <2>2, GotoType DEF ClaimRefused, TypeOK, PCs
    <2>3. CASE BeginV1CommandDelivery(h)
      BY <2>3, GotoType DEF BeginV1CommandDelivery, TypeOK, PCs, States
    <2>4. CASE RemoteStartTransaction(h)
      BY <2>4, GotoType DEF RemoteStartTransaction, TypeOK, PCs
    <2>5. CASE RemoteStartUnsent(h)
      BY <2>5, GotoType DEF RemoteStartUnsent, TypeOK, PCs
    <2>6. CASE MarkV1CommandDelivery(h)
      <3>1. PICK s \in Outcomes : MarkRows(s)
        BY <2>6, MarkOutcome
      <3>2. s \in States
        BY DEF States
      <3>3. command' \in States /\ facts' \subseteq Facts
        BY <3>1, <3>2, CommandFactType DEF MarkRows, TypeOK, Facts, Transactions
      <3>4. pc' \in [Handlers -> PCs]
        BY <2>6, GotoType DEF MarkV1CommandDelivery, PCs
      <3>5. QED
        BY <2>6, <3>3, <3>4 DEF MarkV1CommandDelivery, TypeOK, Facts, Transactions, PCs
    <2>7. QED
      BY <1>2, <2>1, <2>2, <2>3, <2>4, <2>5, <2>6 DEF Dispatch
  <1>3. ASSUME NEW h \in Handlers, HandlerFails(h) PROVE TypeOK'
    BY <1>3, GotoType, StartAssumption DEF HandlerFails, TypeOK, PCs
  <1>4. ASSUME NEW m \in Meters, NEW id \in TxIds, MaterializeV1Start(m, id)
        PROVE  TypeOK'
    <2>1. CASE tx = Null
      <3> DEFINE t == [id |-> id, meter |-> m]
      <3>1. t \in Transactions /\ t.id = id
        BY DEF Transactions
      <3>2. MaterializeRows(t)
        BY <1>4, <2>1 DEF MaterializeV1Start
      <3>3. facts' \subseteq Facts
        BY <3>1, <3>2, StartedFactType, CommandFactType
           DEF MaterializeRows, TypeOK, Facts, Transactions, States
      <3>4. confirmed' \subseteq TxIds
        BY <1>4, <3>1, <3>2 DEF MaterializeV1Start, MaterializeRows, TypeOK
      <3>5. QED
        BY <1>4, <3>1, <3>2, <3>3, <3>4
           DEF MaterializeV1Start, MaterializeRows, TypeOK, Facts, Transactions, States
    <2>2. CASE tx # Null
      BY <1>4, <2>2 DEF MaterializeV1Start, TypeOK
    <2>3. QED
      BY <2>1, <2>2
  <1>5. CASE Expire
    BY <1>5 DEF Expire, TypeOK
  <1>6. CASE Crash
    <2>1. up' \in BOOLEAN
      BY <1>6, Zenon DEF Crash
    <2>2. QED
      BY <1>6, <2>1, StartAssumption DEF Crash, TypeOK
  <1>7. CASE RecoverV1CommandDelivery
    <2>1. command' \in {"PERSISTED", "AMBIGUOUS", command}
      BY <1>7 DEF RecoverV1CommandDelivery
    <2>2. up' \in BOOLEAN
      BY <1>7, Zenon DEF RecoverV1CommandDelivery
    <2>3. QED
      BY <1>7, <2>1, <2>2 DEF RecoverV1CommandDelivery, TypeOK, States, Outcomes
  <1>8. CASE UNCHANGED vars
    BY <1>8 DEF vars, TypeOK
  <1>9. QED
    BY <1>1, <1>2, <1>3, <1>4, <1>5, <1>6, <1>7, <1>8 DEF Next

\* Every reachable state of the START command is well typed.
THEOREM TypeCorrect == Spec => []TypeOK
  BY InitType, NextType, PTL DEF Spec

----------------------------------------------------------------------------
(* The dispatch invariant.                                                  *)

LEMMA InitInv == Init => IInv
  BY InitType DEF Init, IInv, DispatchInv, Busy

LEMMA DispatchKeepsInv ==
  ASSUME IInv, TypeOK', NEW h \in Handlers, Dispatch(h)
  PROVE  DispatchInv'
  <1> USE DEF IInv, TypeOK, DispatchInv, Busy, Goto, rows, bounds
  <1>1. CASE ClaimV1StartDelivery(h)
    BY <1>1 DEF ClaimV1StartDelivery
  <1>2. CASE ClaimRefused(h)
    BY <1>2 DEF ClaimRefused
  <1>3. CASE BeginV1CommandDelivery(h)
    BY <1>3 DEF BeginV1CommandDelivery
  <1>4. CASE RemoteStartTransaction(h)
    BY <1>4 DEF RemoteStartTransaction
  <1>5. CASE RemoteStartUnsent(h)
    BY <1>5 DEF RemoteStartUnsent
  <1>6. CASE MarkV1CommandDelivery(h)
    <2>1. PICK s \in Outcomes : MarkRows(s)
      BY <1>6, MarkOutcome
    <2>2. command \in {"DELIVERY_ATTEMPTED", "MATERIALIZED"}
      BY <1>6 DEF MarkV1CommandDelivery
    <2>3. command' = command \/ (command' \in Outcomes /\ command # "MATERIALIZED")
      BY <2>1 DEF MarkRows
    <2>4. /\ pc'[h] = "idle"
          /\ \A g \in Handlers : g # h => pc'[g] = pc[g] /\ ~Busy(g)
      BY <1>6 DEF MarkV1CommandDelivery
    <2>5. UNCHANGED <<attempts, calls, tx, up>> /\ up
      BY <1>6 DEF MarkV1CommandDelivery
    <2>6. QED
      BY <2>2, <2>3, <2>4, <2>5 DEF Outcomes
  <1>7. QED
    BY <1>1, <1>2, <1>3, <1>4, <1>5, <1>6 DEF Dispatch

LEMMA NextInv == IInv /\ [Next]_vars => IInv'
  <1> SUFFICES ASSUME IInv, [Next]_vars PROVE IInv'
    OBVIOUS
  <1> TypeOK'
    BY NextType DEF IInv
  <1> SUFFICES DispatchInv'
    BY DEF IInv
  <1> USE DEF rows, bounds
  <1>1. ASSUME NEW h \in Handlers, V1Start(h) PROVE DispatchInv'
    BY <1>1 DEF V1Start, IInv, TypeOK, DispatchInv, Busy, Goto
  <1>2. ASSUME NEW h \in Handlers, Dispatch(h) PROVE DispatchInv'
    BY <1>2, DispatchKeepsInv
  <1>3. ASSUME NEW h \in Handlers, HandlerFails(h) PROVE DispatchInv'
    BY <1>3 DEF HandlerFails, IInv, TypeOK, DispatchInv, Busy, Goto
  <1>4. ASSUME NEW m \in Meters, NEW id \in TxIds, MaterializeV1Start(m, id)
        PROVE  DispatchInv'
    <2>1. CASE tx = Null
      <3>1. tx' # Null /\ command' = "MATERIALIZED"
        BY <1>4, <2>1, StartAssumption DEF MaterializeV1Start, MaterializeRows
      <3>2. calls = 1 /\ attempts = 1
        BY <1>4 DEF MaterializeV1Start, IInv, TypeOK, DispatchInv
      <3>3. UNCHANGED <<pc, up, calls, attempts>>
        BY <1>4 DEF MaterializeV1Start
      <3>4. \A h \in Handlers : pc[h] \notin {"claimed", "calling", "failed"}
        BY <3>2 DEF IInv, DispatchInv
      <3>5. QED
        BY <3>1, <3>2, <3>3, <3>4 DEF IInv, DispatchInv, Busy
    <2>2. CASE tx # Null
      BY <1>4, <2>2 DEF MaterializeV1Start, IInv, DispatchInv, Busy
    <2>3. QED
      BY <2>1, <2>2
  <1>5. CASE Expire
    BY <1>5 DEF Expire, IInv, DispatchInv, Busy
  <1>6. CASE Crash
    BY <1>6 DEF Crash, IInv, TypeOK, DispatchInv, Busy
  <1>7. CASE RecoverV1CommandDelivery
    BY <1>7 DEF RecoverV1CommandDelivery, IInv, TypeOK, DispatchInv, Busy
  <1>8. CASE UNCHANGED vars
    BY <1>8 DEF vars, IInv, DispatchInv, Busy
  <1>9. QED
    BY <1>1, <1>2, <1>3, <1>4, <1>5, <1>6, <1>7, <1>8 DEF Next

LEMMA Inductive == Spec => []IInv
  BY InitInv, NextInv, PTL DEF Spec

----------------------------------------------------------------------------
(* v1Start implements WriteAheadDelivery.                                   *)

\* What one step may do to the two variables of the abstract specification.
LEMMA StepDelivers ==
  ASSUME IInv, [Next]_vars
  PROVE  \/ UNCHANGED <<attempts, calls>>
         \/ attempts = 0 /\ attempts' = 1 /\ calls' = calls
         \/ attempts = 1 /\ attempts' = 1 /\ calls = 0 /\ calls' = 1
  <1> DEFINE Goal == \/ UNCHANGED <<attempts, calls>>
                     \/ attempts = 0 /\ attempts' = 1 /\ calls' = calls
                     \/ attempts = 1 /\ attempts' = 1 /\ calls = 0 /\ calls' = 1
  <1> USE DEF rows
  <1>1. ASSUME NEW h \in Handlers, BeginV1CommandDelivery(h) PROVE Goal
    BY <1>1 DEF BeginV1CommandDelivery, IInv, DispatchInv
  <1>2. ASSUME NEW h \in Handlers, RemoteStartTransaction(h) PROVE Goal
    BY <1>2 DEF RemoteStartTransaction, IInv, DispatchInv, Goto
  <1>3. ASSUME NEW h \in Handlers, Dispatch(h) PROVE Goal
    BY <1>1, <1>2, <1>3 DEF Dispatch, ClaimV1StartDelivery, ClaimRefused,
       RemoteStartUnsent, MarkV1CommandDelivery
  <1>4. QED
    BY <1>3, Zenon DEF Next, vars, V1Start, HandlerFails, MaterializeV1Start, Expire,
       Crash, RecoverV1CommandDelivery

\* v1Start is an implementation of write-ahead delivery, across any number of
\* duplicate requests, store errors, crashes and restarts.
THEOREM Refinement == Spec => WriteAhead
  <1>1. Init => Delivery!Init
    BY DEF Init, Delivery!Init
  <1>2. IInv /\ [Next]_vars => [Delivery!Next]_<<attempts > 0, calls>>
    <2> SUFFICES ASSUME IInv, [Next]_vars
                 PROVE  [Delivery!Next]_<<attempts > 0, calls>>
      OBVIOUS
    <2>1. CASE UNCHANGED <<attempts, calls>>
      BY <2>1
    <2>2. CASE attempts = 0 /\ attempts' = 1 /\ calls' = calls
      BY <2>2 DEF Delivery!Next, Delivery!Attempt
    <2>3. CASE attempts = 1 /\ attempts' = 1 /\ calls = 0 /\ calls' = 1
      BY <2>3 DEF Delivery!Next, Delivery!Send
    <2>4. QED
      BY StepDelivers, <2>1, <2>2, <2>3
  <1>3. QED
    BY <1>1, <1>2, Inductive, PTL DEF Spec, WriteAhead, Delivery!Spec

----------------------------------------------------------------------------
(* The materialized transaction.                                            *)

\* Every write to the command re-reads its state and finds MATERIALIZED.
LEMMA MaterializedStep == IInv /\ [Next]_vars /\ tx # Null => UNCHANGED rows
  <1> SUFFICES ASSUME IInv, [Next]_vars, tx # Null PROVE UNCHANGED rows
    OBVIOUS
  <1>1. command = "MATERIALIZED"
    BY DEF IInv, DispatchInv
  <1> USE DEF rows
  <1>2. ASSUME NEW h \in Handlers, Dispatch(h) PROVE UNCHANGED rows
    BY <1>1, <1>2 DEF Dispatch, ClaimV1StartDelivery, ClaimRefused,
       BeginV1CommandDelivery, RemoteStartTransaction, RemoteStartUnsent,
       MarkV1CommandDelivery, MarkRows
  <1>3. CASE RecoverV1CommandDelivery
    BY <1>1, <1>3 DEF RecoverV1CommandDelivery
  <1>4. QED
    BY <1>1, <1>2, <1>3, Zenon DEF Next, vars, V1Start, HandlerFails,
       MaterializeV1Start, Expire, Crash

\* Once a transaction exists no operation changes its command, its facts or
\* the transaction itself.
THEOREM Final == Spec => MaterializedIsFinal
  <1>1. IInv /\ [Next]_vars => [tx # Null => UNCHANGED rows]_vars
    BY MaterializedStep
  <1>2. QED
    BY <1>1, Inductive, PTL DEF Spec, MaterializedIsFinal

\* Until the transaction exists, a step leaves transactions and confirmations
\* alone, publishing at most the command's new state, or materializes it.
LEMMA StartStep ==
  ASSUME IInv, [Next]_vars, tx = Null
  PROVE  \/ /\ tx' = tx /\ confirmed' = confirmed
            /\ \/ /\ facts' = facts
                  /\ \/ command' = command
                     \/ command' \in {"PERSISTED", "PENDING_DELIVERY",
                                      "DELIVERY_ATTEMPTED", "AMBIGUOUS"}
               \/ /\ facts' = facts \cup {CommandFact(command')}
                  /\ command' # "MATERIALIZED"
         \/ \E t \in Transactions : /\ MaterializeRows(t)
                                    /\ confirmed' \in {confirmed, confirmed \cup {t.id}}
  <1> DEFINE Quiet == /\ tx' = tx /\ confirmed' = confirmed
                      /\ \/ /\ facts' = facts
                            /\ \/ command' = command
                               \/ command' \in {"PERSISTED", "PENDING_DELIVERY",
                                                "DELIVERY_ATTEMPTED", "AMBIGUOUS"}
                         \/ /\ facts' = facts \cup {CommandFact(command')}
                            /\ command' # "MATERIALIZED"
  <1> USE DEF rows
  <1>1. ASSUME NEW h \in Handlers, MarkV1CommandDelivery(h) PROVE Quiet
    <2>1. PICK s \in Outcomes : MarkRows(s)
      BY <1>1, MarkOutcome
    <2>2. QED
      BY <1>1, <2>1 DEF MarkV1CommandDelivery, MarkRows, Outcomes
  <1>2. ASSUME NEW h \in Handlers, Dispatch(h) PROVE Quiet
    BY <1>1, <1>2 DEF Dispatch, ClaimV1StartDelivery, ClaimRefused,
       BeginV1CommandDelivery, RemoteStartTransaction, RemoteStartUnsent
  <1>3. ASSUME NEW m \in Meters, NEW id \in TxIds, MaterializeV1Start(m, id)
        PROVE  \E t \in Transactions :
                  /\ MaterializeRows(t)
                  /\ confirmed' \in {confirmed, confirmed \cup {t.id}}
    <2> DEFINE t == [id |-> id, meter |-> m]
    <2>1. t \in Transactions /\ MaterializeRows(t)
      BY <1>3 DEF MaterializeV1Start, Transactions
    <2>2. confirmed' \in {confirmed, confirmed \cup {t.id}}
      BY <1>3, <2>1 DEF MaterializeV1Start, MaterializeRows
    <2>3. QED
      BY <2>1, <2>2
  <1>4. ASSUME NEW h \in Handlers, V1Start(h) PROVE Quiet
    BY <1>4 DEF V1Start
  <1>5. CASE RecoverV1CommandDelivery
    BY <1>5 DEF RecoverV1CommandDelivery
  <1>6. QED
    BY <1>2, <1>3, <1>4, <1>5 DEF Next, vars, HandlerFails, Expire, Crash

MInv == IInv /\ ConfirmedIsDurable /\ FactsMatchRows

LEMMA NextMaterialized == MInv /\ [Next]_vars => MInv'
  <1> SUFFICES ASSUME MInv, [Next]_vars PROVE MInv'
    OBVIOUS
  <1>0. IInv /\ IInv'
    BY NextInv DEF MInv
  <1>1. CASE tx # Null
    <2>1. UNCHANGED rows
      BY <1>0, <1>1, MaterializedStep
    <2>2. \A id \in confirmed' : tx.id = id
      BY <1>1, <2>1, Zenon DEF MInv, ConfirmedIsDurable, rows, Next, vars, V1Start,
         Dispatch, ClaimV1StartDelivery, ClaimRefused, BeginV1CommandDelivery,
         RemoteStartTransaction, RemoteStartUnsent, MarkV1CommandDelivery,
         HandlerFails, MaterializeV1Start, Expire, Crash, RecoverV1CommandDelivery
    <2>3. QED
      BY <1>0, <1>1, <2>1, <2>2 DEF MInv, ConfirmedIsDurable, FactsMatchRows, rows
  <1>2. CASE tx = Null
    <2>1. confirmed = {}
      BY <1>2 DEF MInv, ConfirmedIsDurable
    <2>2. {f \in facts : f.type = "transaction.started"} = {}
      BY <1>2 DEF MInv, FactsMatchRows
    <2>3. \A s : CommandFact(s).type = "command.updated"
      BY DEF CommandFact
    <2>4. CASE /\ tx' = tx /\ confirmed' = confirmed
               /\ \/ /\ facts' = facts
                     /\ \/ command' = command
                        \/ command' \in {"PERSISTED", "PENDING_DELIVERY",
                                         "DELIVERY_ATTEMPTED", "AMBIGUOUS"}
                  \/ /\ facts' = facts \cup {CommandFact(command')}
                     /\ command' # "MATERIALIZED"
      <3>1. {f \in facts' : f.type = "transaction.started"} = {}
        BY <2>2, <2>3, <2>4
      <3>2. command' \in {"OCPP_ACCEPTED", "OCPP_REJECTED", "MATERIALIZED"}
               => CommandFact(command') \in facts'
        BY <2>4 DEF MInv, FactsMatchRows
      <3>3. QED
        BY <1>0, <1>2, <2>1, <2>4, <3>1, <3>2
           DEF MInv, IInv, DispatchInv, ConfirmedIsDurable, FactsMatchRows
    <2>5. ASSUME NEW t \in Transactions, MaterializeRows(t),
                 confirmed' \in {confirmed, confirmed \cup {t.id}}
          PROVE  MInv'
      <3>1. tx' = t /\ t # Null
        BY <2>5, StartAssumption DEF MaterializeRows, Transactions
      <3>2. ConfirmedIsDurable'
        BY <2>1, <2>5, <3>1 DEF ConfirmedIsDurable
      <3>3. StartedFact(t).type = "transaction.started"
        BY DEF StartedFact
      <3>4. {f \in facts' : f.type = "transaction.started"} = {StartedFact(t)}
        BY <2>2, <2>3, <2>5, <3>3 DEF MaterializeRows
      <3>5. FactsMatchRows'
        BY <2>5, <3>1, <3>4 DEF FactsMatchRows, MaterializeRows
      <3>6. QED
        BY <1>0, <3>2, <3>5 DEF MInv
    <2>6. QED
      BY <1>0, <1>2, <2>4, <2>5, StartStep
  <1>3. QED
    BY <1>1, <1>2

LEMMA Materialized == Spec => []MInv
  <1>1. Init => MInv
    BY InitInv DEF Init, MInv, ConfirmedIsDurable, FactsMatchRows
  <1>2. QED
    BY <1>1, NextMaterialized, PTL DEF Spec

\* However often StartTransaction is repeated, the charger is told Accepted
\* only with the id of the one durable transaction.
THEOREM Confirmed == Spec => []ConfirmedIsDurable
  <1>1. MInv => ConfirmedIsDurable
    BY DEF MInv
  <1>2. QED
    BY <1>1, Materialized, PTL

\* What CMS is told of the command is what its rows say.
THEOREM Announced == Spec => []FactsMatchRows
  <1>1. MInv => FactsMatchRows
    BY DEF MInv
  <1>2. QED
    BY <1>1, Materialized, PTL
=============================================================================
