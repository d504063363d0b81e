----------------------- MODULE ChargerOperationProofs -----------------------
(***************************************************************************)
(* Proofs about ChargerOperation for any number of operations, chargers,   *)
(* handlers and connections, and every bound on faults and crashes.        *)
(***************************************************************************)
EXTENDS ChargerOperation, FiniteSetTheorems, TLAPS

PCs == {"idle", "ready", "claiming", "claimed", "awaiting", "confirmed", "ambiguous"}

\* Goroutine t has claimed operation o and not yet marked it.
Holds(t, o) == /\ pc[t] \in {"claimed", "awaiting", "confirmed", "ambiguous"}
               /\ o \in todo[t]
               /\ \A p \in todo[t] : o <= p

\* What a goroutine that holds an operation knows of its row and of the wire.
HolderInv ==
    /\ \A t \in Threads, o \in Operations : Holds(t, o) =>
          /\ state[o] = "DELIVERY_ATTEMPTED"
          /\ pc[t] = "claimed" => calls[o] = 0
          /\ pc[t] = "confirmed" => o \in answered
    /\ \A t, u \in Threads, o \in Operations : Holds(t, o) /\ Holds(u, o) => t = u
    /\ ~up => \A t \in Threads : pc[t] = "idle"

\* What the row of an operation says about its delivery.
LedgerInv ==
    \A o \in Operations :
        /\ attempts[o] = IF state[o] \in {"ABSENT", "PERSISTED"} THEN 0 ELSE 1
        /\ calls[o] <= attempts[o]
        /\ state[o] = "OCPP_CONFIRMED" => o \in answered

IInv == TypeOK /\ HolderInv /\ LedgerInv

----------------------------------------------------------------------------
(* A pass takes at most a batch.                                            *)

LEMMA OperationsInt == Operations \subseteq Int
  <1>1. NumOps \in Nat
    BY OperationAssumption
  <1>2. QED
    BY <1>1 DEF Operations

LEMMA OperationsFinite ==
  ASSUME NEW S \in SUBSET Operations
  PROVE  IsFiniteSet(S) /\ Cardinality(S) \in Nat
  <1>1. IsFiniteSet(Operations)
    BY FS_Interval, OperationAssumption DEF Operations
  <1>2. QED
    BY <1>1, FS_Subset, FS_CardinalityType

\* Of two operations of a set, the later one has more before it.
LEMMA RankGrows ==
  ASSUME NEW all \in SUBSET Operations, NEW o \in all, NEW q \in all, o < q
  PROVE  Cardinality({p \in all : p < o}) < Cardinality({p \in all : p < q})
  <1> DEFINE below(x) == {p \in all : p < x}
  <1>1. o \in Int /\ q \in Int /\ \A p \in all : p \in Int
    BY OperationsInt
  <1>2. below(o) \in SUBSET below(q)
    <2>1. \A p \in all : p < o => p < q
      BY <1>1
    <2>2. QED
      BY <2>1
  <1>3. o \in below(q) /\ o \notin below(o)
    BY <1>1
  <1>4. /\ IsFiniteSet(below(q)) /\ Cardinality(below(q)) \in Nat
        /\ IsFiniteSet(below(o)) /\ Cardinality(below(o)) \in Nat
    BY OperationsFinite
  <1>5. below(q) # below(o)
    BY <1>3
  <1> HIDE DEF below
  <1>6. Cardinality(below(o)) <= Cardinality(below(q))
        /\ Cardinality(below(q)) # Cardinality(below(o))
    BY <1>2, <1>4, <1>5, FS_Subset
  <1>7. Cardinality(below(o)) < Cardinality(below(q))
    BY <1>4, <1>6
  <1>8. QED
    BY <1>7 DEF below

\* LIMIT: the operations with fewer than Batch before them are at most Batch.
LEMMA BatchBound ==
  ASSUME NEW c
  PROVE  /\ ListV1DispatchableChargerOperations(c) \in SUBSET Operations
         /\ Cardinality(ListV1DispatchableChargerOperations(c)) <= Batch
  <1> DEFINE all == {o \in Operations : state[o] = "PERSISTED" /\ chargerOf[o] = c}
             rank(o) == Cardinality({p \in all : p < o})
             S == {o \in all : rank(o) < Batch}
             f == [o \in S |-> rank(o)]
  <1>1. S = ListV1DispatchableChargerOperations(c)
    BY DEF ListV1DispatchableChargerOperations
  <1>2. S \in SUBSET Operations /\ S \in SUBSET all /\ all \in SUBSET Operations
    OBVIOUS
  <1>3. Batch \in Nat /\ IsFiniteSet(0..(Batch - 1)) /\ Cardinality(0..(Batch - 1)) = Batch
    BY FS_Interval, OperationAssumption
  <1>4. IsFiniteSet(S) /\ Cardinality(S) \in Nat
    BY <1>2, OperationsFinite, Zenon
  <1>5. \A o \in S : rank(o) \in 0..(Batch - 1)
    <2> TAKE o \in S
    <2>1. {p \in all : p < o} \in SUBSET Operations
      OBVIOUS
    <2>2. rank(o) \in Nat
      BY <2>1, OperationsFinite
    <2>3. rank(o) < Batch
      OBVIOUS
    <2>4. QED
      BY <1>3, <2>2, <2>3
  <1>6. \A x, y \in S : x # y => rank(x) # rank(y)
    <2> SUFFICES ASSUME NEW x \in S, NEW y \in S, x # y PROVE rank(x) # rank(y)
      OBVIOUS
    <2>1. x \in Int /\ y \in Int
      BY <1>2, OperationsInt
    <2>2. rank(x) \in Int /\ rank(y) \in Int
      BY <1>5
    <2>3. x < y \/ y < x
      BY <2>1
    <2>4. x \in all /\ y \in all
      OBVIOUS
    <2> HIDE DEF all, S
    <2>5. CASE x < y
      <3>1. rank(x) < rank(y)
        BY <1>2, <2>4, <2>5, RankGrows
      <3>2. QED
        BY <2>2, <3>1
    <2>6. CASE y < x
      <3>1. rank(y) < rank(x)
        BY <1>2, <2>4, <2>6, RankGrows
      <3>2. QED
        BY <2>2, <3>1
    <2>7. QED
      BY <2>3, <2>5, <2>6
  <1>7. Cardinality(S) <= Batch
    <2> SUFFICES ASSUME Cardinality(S) > Batch PROVE FALSE
      BY <1>3, <1>4
    <2> HIDE DEF rank, S
    <2>1. f \in [S -> 0..(Batch - 1)]
      BY <1>5
    <2>2. Cardinality(0..(Batch - 1)) < Cardinality(S)
      BY <1>3, <1>4
    <2> HIDE DEF f
    <2>3. \E x, y \in S : x # y /\ f[x] = f[y]
      BY <1>3, <1>4, <2>1, <2>2, FS_PigeonHole
    <2>4. QED
      BY <1>6, <2>3 DEF f
  <1>8. QED
    BY <1>1, <1>2, <1>7, Zenon

----------------------------------------------------------------------------
(* Type correctness.                                                        *)

LEMMA InitType == Init => TypeOK
  <1> SUFFICES ASSUME Init PROVE TypeOK
    OBVIOUS
  <1>1. 0 \in 0..MaxFaults /\ 0 \in 0..MaxCrashes /\ 0 \in 0..MaxConnects
        /\ 0 \in 0..(Cycle - 1)
    BY OperationAssumption
  <1>2. up \in BOOLEAN
    BY Zenon DEF Init
  <1>3. Cardinality({}) <= Batch
    BY FS_EmptySet, OperationAssumption
  <1>4. QED
    BY <1>1, <1>2, <1>3 DEF Init, TypeOK, States

LEMMA GotoType ==
  ASSUME TypeOK, NEW t \in Threads, NEW l \in PCs, Goto(t, l)
  PROVE  /\ pc' \in [Threads -> PCs]
         /\ todo' = todo /\ up' = up
  BY DEF Goto, TypeOK, PCs

LEMMA StartType ==
  ASSUME TypeOK, NEW t \in Threads, NEW S \in SUBSET Operations,
         Cardinality(S) <= Batch, Start(t, S)
  PROVE  /\ pc' \in [Threads -> PCs]
         /\ todo' \in [Threads -> SUBSET Operations]
         /\ \A u \in Threads : Cardinality(todo'[u]) <= Batch
         /\ up' = up
  BY DEF Start, TypeOK, PCs

LEMMA AdvanceType ==
  ASSUME TypeOK, NEW t \in Threads, NEW o \in Operations, Advance(t, o)
  PROVE  /\ pc' \in [Threads -> PCs]
         /\ todo' \in [Threads -> SUBSET Operations]
         /\ \A u \in Threads : Cardinality(todo'[u]) <= Batch
         /\ up' = up
  <1>1. todo[t] \in SUBSET Operations /\ Cardinality(todo[t]) <= Batch
    BY DEF TypeOK
  <1>2. Cardinality(todo[t] \ {o}) <= Cardinality(todo[t])
    BY <1>1, OperationsFinite, FS_Subset
  <1>3. Cardinality(todo[t] \ {o}) \in Nat /\ Cardinality(todo[t]) \in Nat
    BY <1>1, OperationsFinite
  <1>4. Cardinality(todo[t] \ {o}) <= Batch
    BY <1>1, <1>2, <1>3, OperationAssumption
  <1>5. QED
    BY <1>4 DEF Advance, TypeOK, PCs

LEMMA DispatchType ==
  ASSUME TypeOK, NEW t \in Threads, NEW o \in Operations, Dispatch(t, o)
  PROVE  TypeOK'
  <1> USE DEF ledger, process, links, wire, bounds
  <1>1. CASE Preflight(t, o)
    <2>1. CASE Goto(t, "claiming")
      BY <1>1, <2>1, GotoType DEF Preflight, TypeOK, PCs
    <2>2. CASE Advance(t, o)
      BY <1>1, <2>2, AdvanceType DEF Preflight, TypeOK, PCs
    <2>3. QED
      BY <1>1, <2>1, <2>2 DEF Preflight
  <1>2. CASE ClaimV1ChargerOperationDelivery(t, o)
    <2>1. CASE state[o] = "PERSISTED"
      BY <1>2, <2>1, GotoType DEF ClaimV1ChargerOperationDelivery, TypeOK, PCs, States
    <2>2. CASE state[o] # "PERSISTED"
      BY <1>2, <2>2, AdvanceType DEF ClaimV1ChargerOperationDelivery, TypeOK, PCs
    <2>3. QED
      BY <2>1, <2>2
  <1>3. CASE DispatchChargerOperation(t, o)
    BY <1>3, GotoType DEF DispatchChargerOperation, TypeOK, PCs
  <1>4. CASE DispatchRefused(t, o)
    BY <1>4, GotoType DEF DispatchRefused, TypeOK, PCs
  <1>5. CASE Confirmation(t, o)
    BY <1>5, GotoType DEF Confirmation, TypeOK, PCs
  <1>6. CASE NoConfirmation(t, o)
    BY <1>6, GotoType DEF NoConfirmation, TypeOK, PCs
  <1>7. CASE MarkV1ChargerOperationDelivery(t, o)
    BY <1>7, AdvanceType
       DEF MarkV1ChargerOperationDelivery, MarkedState, TypeOK, PCs, States, Settled
  <1>8. QED
    BY <1>1, <1>2, <1>3, <1>4, <1>5, <1>6, <1>7 DEF Dispatch

\* Every step keeps every row and goroutine in its type.
LEMMA NextType == TypeOK /\ [Next]_vars => TypeOK'
  <1> SUFFICES ASSUME TypeOK, [Next]_vars PROVE TypeOK'
    OBVIOUS
  <1> USE DEF ledger, process, links, wire, bounds
  <1>1. ASSUME NEW h \in Handlers, NEW o \in Operations, v1ChargerOperations(h, o)
        PROVE  TypeOK'
    <2>1. h \in Threads
      BY DEF Threads
    <2>2. Cardinality({o}) <= Batch
      <3>1. Cardinality({o}) = 1
        BY FS_Singleton
      <3>2. Batch \in Nat \ {0}
        BY OperationAssumption
      <3>3. QED
        BY <3>1, <3>2
    <2>3. state' \in [Operations -> States]
      BY <1>1 DEF v1ChargerOperations, CreateV1ChargerOperation, TypeOK, States
    <2>4. QED
      BY <1>1, <2>1, <2>2, <2>3, StartType
         DEF v1ChargerOperations, CreateV1ChargerOperation, TypeOK, PCs
  <1>2. ASSUME NEW c \in Chargers, Connect(c) PROVE TypeOK'
    <2>1. connects' \in Passes /\ connects' \in 0..MaxConnects
      BY <1>2, OperationAssumption DEF Connect, TypeOK, Passes
    <2>2. connects' \in Threads
      BY <2>1 DEF Threads
    <2>3. QED
      BY <1>2, <2>1, <2>2, StartType, BatchBound DEF Connect, TypeOK, PCs
  <1>3. ASSUME NEW c \in Chargers, Disconnect(c) PROVE TypeOK'
    BY <1>3 DEF Disconnect, TypeOK
  <1>4. ASSUME NEW c \in Chargers, DispatchPendingV1ChargerOperations(c) PROVE TypeOK'
    <2>1. Worker \in Threads
      BY DEF Threads
    <2>2. rotation' \in 0..(Cycle - 1)
      <3>1. Cycle \in Int /\ Cycle > 0
        BY OperationAssumption
      <3>2. rotation + 1 \in Int
        BY DEF TypeOK
      <3>3. (rotation + 1) % Cycle \in 0..(Cycle - 1)
        BY <3>1, <3>2
      <3>4. QED
        BY <1>4, <3>3 DEF DispatchPendingV1ChargerOperations
    <2>3. QED
      BY <1>4, <2>1, <2>2, StartType, BatchBound
         DEF DispatchPendingV1ChargerOperations, TypeOK, PCs
  <1>5. ASSUME NEW t \in Threads, NEW o \in Operations, Dispatch(t, o) PROVE TypeOK'
    BY <1>5, DispatchType
  <1>6. ASSUME NEW t \in Threads, NEW o \in Operations, StoreFails(t, o) PROVE TypeOK'
    <2>1. faults' \in 0..MaxFaults
      BY <1>6, OperationAssumption DEF StoreFails, TypeOK
    <2>2. QED
      BY <1>6, <2>1, AdvanceType DEF StoreFails, TypeOK, PCs
  <1>7. CASE Crash
    <2>1. crashes' \in 0..MaxCrashes /\ 0 \in 0..(Cycle - 1)
      BY <1>7, OperationAssumption DEF Crash, TypeOK
    <2>2. up' \in BOOLEAN
      BY <1>7, Zenon DEF Crash
    <2>3. Cardinality({}) <= Batch
      BY FS_EmptySet, OperationAssumption
    <2>4. QED
      BY <1>7, <2>1, <2>2, <2>3 DEF Crash, TypeOK
  <1>8. CASE RecoverV1ChargerOperationDelivery
    <2>1. up' \in BOOLEAN
      BY <1>8, Zenon DEF RecoverV1ChargerOperationDelivery
    <2>2. QED
      BY <1>8, <2>1 DEF RecoverV1ChargerOperationDelivery, TypeOK, States, Settled
  <1>9. CASE UNCHANGED vars
    BY <1>9 DEF vars, TypeOK
  <1>10. QED
    BY <1>1, <1>2, <1>3, <1>4, <1>5, <1>6, <1>7, <1>8, <1>9 DEF Next

\* Every reachable state is well typed; in particular no goroutine ever has
\* more than a batch of operations to dispatch.
THEOREM TypeCorrect == Spec => []TypeOK
  BY InitType, NextType, PTL DEF Spec

----------------------------------------------------------------------------
(* The claim.                                                               *)

LEMMA InitInv == Init => IInv
  BY InitType DEF Init, IInv, HolderInv, Holds, LedgerInv

\* The first operation of a todo is unique.
LEMMA FirstUnique ==
  ASSUME NEW S \in SUBSET Operations, NEW o \in S, NEW q \in S,
         \A p \in S : o <= p, \A p \in S : q <= p
  PROVE  o = q
  BY OperationsInt

\* A goroutine that starts or goes on holds nothing; the others hold what they
\* held.
LEMMA IdleHolds ==
  ASSUME TypeOK, NEW t \in Threads, pc'[t] \in {"idle", "ready", "claiming"},
         \A u \in Threads : u # t => pc'[u] = pc[u] /\ todo'[u] = todo[u]
  PROVE  \A u \in Threads, o \in Operations :
            Holds(u, o)' => u # t /\ Holds(u, o) /\ pc'[u] = pc[u]
  BY DEF Holds

LEMMA StartStep ==
  ASSUME TypeOK, NEW t \in Threads, NEW S, Start(t, S)
  PROVE  /\ up /\ up' /\ pc'[t] \in {"idle", "ready"}
         /\ \A u \in Threads : u # t => pc'[u] = pc[u] /\ todo'[u] = todo[u]
  BY DEF Start, TypeOK

LEMMA AdvanceStep ==
  ASSUME TypeOK, NEW t \in Threads, NEW o, Advance(t, o)
  PROVE  /\ up' = up /\ pc'[t] \in {"idle", "ready"}
         /\ \A u \in Threads : u # t => pc'[u] = pc[u] /\ todo'[u] = todo[u]
  BY DEF Advance, TypeOK

LEMMA GotoStep ==
  ASSUME TypeOK, NEW t \in Threads, NEW l, Goto(t, l)
  PROVE  /\ up' = up /\ pc'[t] = l /\ todo' = todo
         /\ \A u \in Threads : u # t => pc'[u] = pc[u]
  BY DEF Goto, TypeOK

\* Such a step keeps the invariant if it changes no row but from ABSENT to
\* PERSISTED and nothing on the wire.
LEMMA IdleKeepsInv ==
  ASSUME IInv, NEW t \in Threads, pc'[t] \in {"idle", "ready", "claiming"},
         \A u \in Threads : u # t => pc'[u] = pc[u] /\ todo'[u] = todo[u],
         up, up', UNCHANGED <<attempts, calls, answered>>,
         \A o \in Operations : \/ state'[o] = state[o]
                               \/ state[o] = "ABSENT" /\ state'[o] = "PERSISTED"
  PROVE  HolderInv' /\ LedgerInv'
  <1>1. \A u \in Threads, o \in Operations :
            Holds(u, o)' => u # t /\ Holds(u, o) /\ pc'[u] = pc[u]
    BY IdleHolds DEF IInv
  <1>2. HolderInv'
    BY <1>1 DEF IInv, HolderInv
  <1>3. LedgerInv'
    BY DEF IInv, LedgerInv
  <1>4. QED
    BY <1>2, <1>3

\* The holder goes on to the label l without changing any row.
LEMMA GotoKeepsInv ==
  ASSUME IInv, NEW t \in Threads, NEW o \in Operations, Holds(t, o), up,
         NEW l \in {"awaiting", "confirmed", "ambiguous"}, Goto(t, l),
         UNCHANGED <<state, attempts>>,
         \A p \in Operations : calls'[p] = calls[p] \/ (p = o /\ calls'[p] = 1),
         answered \subseteq answered',
         l = "confirmed" => o \in answered'
  PROVE  HolderInv' /\ LedgerInv'
  <1>1. /\ up' = up /\ pc'[t] = l /\ todo' = todo
        /\ \A u \in Threads : u # t => pc'[u] = pc[u]
    BY GotoStep, Zenon DEF IInv
  <1>2. \A u \in Threads, p \in Operations : Holds(u, p)' => Holds(u, p)
    BY <1>1 DEF Holds
  <1>3. \A p \in Operations : Holds(t, p) => p = o
    BY FirstUnique DEF Holds, IInv, TypeOK
  <1>4. \A u \in Threads : u # t => ~Holds(u, o)
    BY DEF IInv, HolderInv
  <1>5. HolderInv'
    <2>1. ASSUME NEW u \in Threads, NEW p \in Operations, Holds(u, p)'
          PROVE  /\ state'[p] = "DELIVERY_ATTEMPTED"
                 /\ pc'[u] = "claimed" => calls'[p] = 0
                 /\ pc'[u] = "confirmed" => p \in answered'
      <3>1. CASE u = t
        BY <1>1, <1>2, <1>3, <2>1, <3>1 DEF IInv, HolderInv
      <3>2. CASE u # t
        BY <1>1, <1>2, <1>4, <2>1, <3>2 DEF IInv, HolderInv
      <3>3. QED
        BY <3>1, <3>2
    <2>2. QED
      BY <1>1, <1>2, <2>1 DEF IInv, HolderInv
  <1>6. LedgerInv'
    <2>1. attempts[o] = 1
      BY DEF IInv, HolderInv, LedgerInv
    <2>2. QED
      BY <2>1 DEF IInv, LedgerInv
  <1>7. QED
    BY <1>5, <1>6

LEMMA DispatchKeepsInv ==
  ASSUME IInv, NEW t \in Threads, NEW o \in Operations, Dispatch(t, o)
  PROVE  HolderInv' /\ LedgerInv'
  <1> USE DEF ledger, process, links, wire, bounds
  <1>0. TypeOK
    BY DEF IInv
  <1>1. CASE Preflight(t, o)
    <2>1. /\ up /\ up' /\ pc'[t] \in {"idle", "ready", "claiming"}
          /\ \A u \in Threads : u # t => pc'[u] = pc[u] /\ todo'[u] = todo[u]
      BY <1>0, <1>1, GotoStep, AdvanceStep, Zenon DEF Preflight, At
    <2>2. QED
      BY <1>1, <2>1, IdleKeepsInv DEF Preflight
  <1>2. CASE ClaimV1ChargerOperationDelivery(t, o)
    <2>1. CASE state[o] = "PERSISTED"
      <3>1. /\ up' = up /\ pc'[t] = "claimed" /\ todo' = todo /\ up
            /\ \A u \in Threads : u # t => pc'[u] = pc[u]
        BY <1>0, <1>2, <2>1, GotoStep, Zenon DEF ClaimV1ChargerOperationDelivery, At
      <3>2. \A u \in Threads, p \in Operations :
               Holds(u, p)' => (u = t /\ p = o) \/ (u # t /\ Holds(u, p))
        BY <1>2, <3>1, FirstUnique
           DEF Holds, ClaimV1ChargerOperationDelivery, At, IInv, TypeOK
      <3>3. \A u \in Threads : ~Holds(u, o)
        BY <2>1 DEF IInv, HolderInv
      <3>4. attempts[o] = 0 /\ calls[o] = 0
        BY <2>1 DEF IInv, TypeOK, LedgerInv
      <3>5. /\ state'[o] = "DELIVERY_ATTEMPTED" /\ attempts'[o] = 1
            /\ \A p \in Operations : p # o => state'[p] = state[p]
                                              /\ attempts'[p] = attempts[p]
            /\ calls' = calls /\ answered' = answered
        BY <1>2, <2>1, <3>4 DEF ClaimV1ChargerOperationDelivery, IInv, TypeOK
      <3>6. HolderInv'
        BY <3>1, <3>2, <3>3, <3>4, <3>5 DEF IInv, HolderInv
      <3>7. LedgerInv'
        BY <3>4, <3>5 DEF IInv, LedgerInv
      <3>8. QED
        BY <3>6, <3>7
    <2>2. CASE state[o] # "PERSISTED"
      <3>1. /\ up /\ up' /\ pc'[t] \in {"idle", "ready", "claiming"}
            /\ \A u \in Threads : u # t => pc'[u] = pc[u] /\ todo'[u] = todo[u]
        BY <1>0, <1>2, <2>2, AdvanceStep, Zenon DEF ClaimV1ChargerOperationDelivery, At
      <3>2. QED
        BY <1>2, <2>2, <3>1, IdleKeepsInv DEF ClaimV1ChargerOperationDelivery
    <2>3. QED
      BY <2>1, <2>2
  <1>3. CASE DispatchChargerOperation(t, o)
    <2>1. Holds(t, o) /\ up
      BY <1>3 DEF DispatchChargerOperation, At, Holds
    <2>2. calls[o] = 0
      BY <1>3, <2>1 DEF DispatchChargerOperation, At, IInv, HolderInv
    <2>3. \A p \in Operations : calls'[p] = calls[p] \/ (p = o /\ calls'[p] = 1)
      BY <1>0, <1>3, <2>2 DEF DispatchChargerOperation, TypeOK
    <2>4. QED
      BY <1>3, <2>1, <2>3, GotoKeepsInv DEF DispatchChargerOperation
  <1>4. CASE DispatchRefused(t, o)
    <2>1. Holds(t, o) /\ up
      BY <1>4 DEF DispatchRefused, At, Holds
    <2>2. QED
      BY <1>4, <2>1, GotoKeepsInv DEF DispatchRefused
  <1>5. CASE Confirmation(t, o)
    <2>1. Holds(t, o) /\ up
      BY <1>5 DEF Confirmation, At, Holds
    <2>2. QED
      BY <1>5, <2>1, GotoKeepsInv DEF Confirmation
  <1>6. CASE NoConfirmation(t, o)
    <2>1. Holds(t, o) /\ up
      BY <1>6 DEF NoConfirmation, At, Holds
    <2>2. QED
      BY <1>6, <2>1, GotoKeepsInv DEF NoConfirmation
  <1>7. CASE MarkV1ChargerOperationDelivery(t, o)
    <2>1. Holds(t, o) /\ up
      BY <1>7 DEF MarkV1ChargerOperationDelivery, At, Holds
    <2>2. /\ up' = up /\ pc'[t] \in {"idle", "ready", "claiming"}
          /\ \A u \in Threads : u # t => pc'[u] = pc[u] /\ todo'[u] = todo[u]
      BY <1>0, <1>7, AdvanceStep DEF MarkV1ChargerOperationDelivery
    <2>3. \A u \in Threads, p \in Operations :
             Holds(u, p)' => u # t /\ Holds(u, p) /\ pc'[u] = pc[u]
      BY <1>0, <2>2, IdleHolds
    <2>4. /\ state'[o] = MarkedState(pc[t])
          /\ \A p \in Operations : p # o => state'[p] = state[p]
          /\ UNCHANGED <<attempts, calls, answered>>
      BY <1>0, <1>7, <2>1 DEF MarkV1ChargerOperationDelivery, TypeOK, IInv, HolderInv
    <2>5. attempts[o] = 1 /\ (pc[t] = "confirmed" => o \in answered)
      BY <2>1 DEF IInv, HolderInv, LedgerInv
    <2>6. \A u \in Threads : u # t => ~Holds(u, o)
      BY <2>1 DEF IInv, HolderInv
    <2>7. HolderInv'
      BY <2>1, <2>2, <2>3, <2>4, <2>6 DEF IInv, HolderInv
    <2>8. LedgerInv'
      BY <2>4, <2>5 DEF IInv, LedgerInv, MarkedState
    <2>9. QED
      BY <2>7, <2>8
  <1>8. QED
    BY <1>1, <1>2, <1>3, <1>4, <1>5, <1>6, <1>7 DEF Dispatch

LEMMA NextInv == IInv /\ [Next]_vars => IInv'
  <1> SUFFICES ASSUME IInv, [Next]_vars PROVE IInv'
    OBVIOUS
  <1>0. TypeOK
    BY DEF IInv
  <1> SUFFICES HolderInv' /\ LedgerInv'
    BY <1>0, NextType DEF IInv
  <1> USE DEF ledger, process, links, wire, bounds
  <1>1. ASSUME NEW h \in Handlers, NEW o \in Operations, v1ChargerOperations(h, o)
        PROVE  HolderInv' /\ LedgerInv'
    <2>1. h \in Threads
      BY DEF Threads
    <2>2. \A p \in Operations : \/ state'[p] = state[p]
                                \/ state[p] = "ABSENT" /\ state'[p] = "PERSISTED"
      BY <1>0, <1>1 DEF v1ChargerOperations, CreateV1ChargerOperation, TypeOK
    <2>3. QED
      BY <1>0, <1>1, <2>1, <2>2, StartStep, IdleKeepsInv
         DEF v1ChargerOperations, CreateV1ChargerOperation
  <1>2. ASSUME NEW c \in Chargers, Connect(c) PROVE HolderInv' /\ LedgerInv'
    <2>1. connects' \in Threads
      BY <1>0, <1>2, OperationAssumption DEF Connect, TypeOK, Passes, Threads
    <2>2. QED
      BY <1>0, <1>2, <2>1, StartStep, IdleKeepsInv DEF Connect
  <1>3. ASSUME NEW c \in Chargers, Disconnect(c) PROVE HolderInv' /\ LedgerInv'
    BY <1>3 DEF Disconnect, IInv, HolderInv, Holds, LedgerInv
  <1>4. ASSUME NEW c \in Chargers, DispatchPendingV1ChargerOperations(c)
        PROVE  HolderInv' /\ LedgerInv'
    <2>1. Worker \in Threads
      BY DEF Threads
    <2>2. QED
      BY <1>0, <1>4, <2>1, StartStep, IdleKeepsInv
         DEF DispatchPendingV1ChargerOperations
  <1>5. ASSUME NEW t \in Threads, NEW o \in Operations, StoreFails(t, o)
        PROVE  HolderInv' /\ LedgerInv'
    <2>1. up
      BY <1>5 DEF StoreFails, At
    <2>2. QED
      BY <1>0, <1>5, <2>1, AdvanceStep, IdleKeepsInv, Zenon DEF StoreFails
  <1>6. CASE Crash
    BY <1>6 DEF Crash, IInv, HolderInv, Holds, LedgerInv
  <1>7. CASE RecoverV1ChargerOperationDelivery
    <2>1. \A t \in Threads : pc'[t] = "idle"
      BY <1>7 DEF RecoverV1ChargerOperationDelivery, IInv, HolderInv
    <2>2. HolderInv'
      BY <2>1 DEF HolderInv, Holds
    <2>3. LedgerInv'
      BY <1>7 DEF RecoverV1ChargerOperationDelivery, IInv, LedgerInv
    <2>4. QED
      BY <2>2, <2>3
  <1>8. CASE UNCHANGED vars
    BY <1>8 DEF vars, IInv, HolderInv, Holds, LedgerInv
  <1>9. QED
    BY <1>1, <1>2, <1>3, <1>4, <1>5, <1>6, <1>7, <1>8, DispatchKeepsInv DEF Next

LEMMA Inductive == Spec => []IInv
  BY InitInv, NextInv, PTL DEF Spec

\* A PERSISTED operation was never sent, and a confirmed one was answered.
THEOREM LedgerTrue == Spec => []StateTellsDelivery
  <1>1. IInv => StateTellsDelivery
    BY DEF IInv, TypeOK, LedgerInv, StateTellsDelivery
  <1>2. QED
    BY <1>1, Inductive, PTL

----------------------------------------------------------------------------
(* What a step may do to one operation.                                     *)

\* An operation's attempt and call counters move as WriteAheadDelivery says,
\* and a settled row does not move.
LEMMA OperationStep ==
  ASSUME IInv, [Next]_vars, NEW o \in Operations
  PROVE  /\ \/ attempts'[o] = attempts[o] /\ calls'[o] = calls[o]
            \/ attempts[o] = 0 /\ attempts'[o] = 1 /\ calls'[o] = calls[o]
            \/ attempts[o] = 1 /\ attempts'[o] = 1 /\ calls[o] = 0 /\ calls'[o] = 1
         /\ state[o] \in Settled => /\ state'[o] = state[o]
                                    /\ attempts'[o] = attempts[o]
  <1> DEFINE Same == UNCHANGED <<attempts, calls>>
             Kept == state[o] \in Settled => state'[o] = state[o]
             Goal == /\ \/ attempts'[o] = attempts[o] /\ calls'[o] = calls[o]
                        \/ attempts[o] = 0 /\ attempts'[o] = 1 /\ calls'[o] = calls[o]
                        \/ /\ attempts[o] = 1 /\ attempts'[o] = 1
                           /\ calls[o] = 0 /\ calls'[o] = 1
                     /\ state[o] \in Settled => /\ state'[o] = state[o]
                                                /\ attempts'[o] = attempts[o]
  <1> USE DEF ledger, process, links, wire, bounds
  <1>0. TypeOK
    BY DEF IInv
  <1>1. ASSUME NEW t \in Threads, NEW p \in Operations,
               ClaimV1ChargerOperationDelivery(t, p)
        PROVE  Goal
    BY <1>0, <1>1 DEF ClaimV1ChargerOperationDelivery, TypeOK, IInv, LedgerInv, Settled
  <1>2. ASSUME NEW t \in Threads, NEW p \in Operations, DispatchChargerOperation(t, p)
        PROVE  Goal
    <2>1. Holds(t, p) /\ pc[t] = "claimed"
      BY <1>2 DEF DispatchChargerOperation, At, Holds
    <2>2. calls[p] = 0 /\ attempts[p] = 1
      BY <2>1 DEF IInv, HolderInv, LedgerInv
    <2>3. QED
      BY <1>0, <1>2, <2>2 DEF DispatchChargerOperation, TypeOK
  <1>3. ASSUME NEW t \in Threads, NEW p \in Operations,
               MarkV1ChargerOperationDelivery(t, p)
        PROVE  Goal
    BY <1>0, <1>3 DEF MarkV1ChargerOperationDelivery, TypeOK, Settled
  <1>4. ASSUME NEW t \in Threads, NEW p \in Operations, Dispatch(t, p) PROVE Goal
    BY <1>1, <1>2, <1>3, <1>4, Zenon DEF Dispatch, Preflight, DispatchRefused,
       Confirmation, NoConfirmation
  <1>5. ASSUME NEW h \in Handlers, NEW p \in Operations, v1ChargerOperations(h, p)
        PROVE  Goal
    BY <1>0, <1>5 DEF v1ChargerOperations, CreateV1ChargerOperation, TypeOK, Settled
  <1>6. CASE RecoverV1ChargerOperationDelivery
    BY <1>0, <1>6 DEF RecoverV1ChargerOperationDelivery, TypeOK, Settled
  <1>7. QED
    BY <1>4, <1>5, <1>6 DEF Next, vars, Connect, Disconnect,
       DispatchPendingV1ChargerOperations, StoreFails, Crash

\* A settled operation never changes again.
THEOREM Final == Spec => SettledIsFinal
  <1> DEFINE Step == \A o \in Operations : state[o] \in Settled =>
                        state'[o] = state[o] /\ attempts'[o] = attempts[o]
  <1>1. IInv /\ [Next]_vars => Step
    BY OperationStep
  <1>2. QED
    BY <1>1, Inductive, PTL DEF Spec, SettledIsFinal

\* The ledger implements write-ahead delivery for every operation at once,
\* whichever handlers, connection passes and worker passes compete for it.
THEOREM Refinement == Spec => WriteAhead
  <1> DEFINE Step == \A o \in Operations :
                        [Delivery(o)!Next]_<<attempts[o] > 0, calls[o]>>
             Start0 == \A o \in Operations : Delivery(o)!Init
  <1>1. Init => Start0
    BY DEF Init, Delivery!Init
  <1>2. IInv /\ [Next]_vars => Step
    <2> SUFFICES ASSUME IInv, [Next]_vars, NEW o \in Operations
                 PROVE  [Delivery(o)!Next]_<<attempts[o] > 0, calls[o]>>
      OBVIOUS
    <2>1. CASE attempts'[o] = attempts[o] /\ calls'[o] = calls[o]
      BY <2>1
    <2>2. CASE attempts[o] = 0 /\ attempts'[o] = 1 /\ calls'[o] = calls[o]
      BY <2>2 DEF Delivery!Next, Delivery!Attempt
    <2>3. CASE attempts[o] = 1 /\ attempts'[o] = 1 /\ calls[o] = 0 /\ calls'[o] = 1
      BY <2>3 DEF Delivery!Next, Delivery!Send
    <2>4. QED
      BY OperationStep, <2>1, <2>2, <2>3
  <1>3. QED
    BY <1>1, <1>2, Inductive, PTL DEF Spec, WriteAhead
=============================================================================
