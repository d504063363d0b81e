-------------------------- MODULE FactOutboxProofs --------------------------
(***************************************************************************)
(* Proofs about FactOutbox for any number of facts and workers, any lease  *)
(* that is not shorter than the HTTP timeout and the time lost before the  *)
(* POST together, and every bound on faults and requeues.                  *)
(***************************************************************************)
EXTENDS FactOutbox, TLAPS

\* A worker that is posting still holds its claim: the row carries its token,
\* and the lease and the age of the POST have shared the ticks so far.
ClaimHeld(w) ==
    /\ status[wfact[w]] = "DELIVERING"
    /\ token[wfact[w]] = wtoken[w]
    /\ lease[wfact[w]] + age[w] = Lease

PostingHolds == \A w \in Workers : wpc[w] = "posting" => ClaimHeld(w)

\* No two workers have the same token.
TokensDiffer ==
    /\ \A w \in Workers : IF wpc[w] = "idle" THEN wtoken[w] = Null
                          ELSE wtoken[w] \in Tokens
    /\ \A v, w \in Workers : wtoken[v] = wtoken[w] /\ wtoken[v] # Null => v = w

\* Only an answer of CMS makes a worker record DELIVERED.
ResultsTrue ==
    /\ \A w \in Workers : wpc[w] = "marking" /\ result[w] = "DELIVERED" =>
                             wfact[w] \in received
    /\ DeliveredWasReceived

IInv == TypeOK /\ PostingHolds /\ TokensDiffer /\ ResultsTrue

----------------------------------------------------------------------------
(* Type correctness.                                                        *)

LEMMA InitType == Init => TypeOK
  <1>1. 0 \in 0..MaxFaults /\ 0 \in 0..MaxRequeues /\ 0 \in 0..(MaxStall + Timeout)
        /\ Expired \in Expired..Lease
    BY OutboxAssumption DEF Expired
  <1>2. QED
    BY <1>1 DEF Init, TypeOK, Statuses, Results

\* The smaller of two integers is one of them.
LEMMA MinOfTwo ==
  ASSUME NEW a \in Int, NEW b \in Int
  PROVE  Min({a, b}) \in {a, b}
  <1>1. \E x \in {a, b} : \A y \in {a, b} : x <= y
    OBVIOUS
  <1>2. QED
    BY <1>1 DEF Min

\* A retry delay is an integer, however many retries there have been.
LEMMA RetryType ==
  ASSUME NEW n \in Nat
  PROVE  retryAt(n) \in Int
  <1>1. Min({n, 6}) \in Nat
    BY MinOfTwo
  <1>2. 2 ^ Min({n, 6}) \in Int
    BY <1>1
  <1>3. MaxDelay \in Int
    BY OutboxAssumption
  <1>4. QED
    BY <1>2, <1>3, MinOfTwo DEF retryAt

LEMMA AnswerType ==
  ASSUME TypeOK, NEW w \in Workers, NEW r \in Results, NEW d \in Int,
         Answer(w, r, d), faults' \in 0..MaxFaults,
         received' \in {received, received \cup {wfact[w]}}
  PROVE  TypeOK'
  <1>1. wfact[w] \in Facts
    BY DEF TypeOK, Answer
  <1>2. received' \subseteq Facts
    BY <1>1 DEF TypeOK
  <1>3. 0 \in 0..(MaxStall + Timeout)
    BY OutboxAssumption
  <1>4. QED
    BY <1>2, <1>3 DEF TypeOK, Answer, row

LEMMA DeliverType ==
  ASSUME TypeOK, NEW w \in Workers, Deliver(w)
  PROVE  TypeOK'
  <1>1. CASE Accepted(w)
    BY <1>1, AnswerType DEF Accepted, Results, Settled, TypeOK
  <1>2. CASE Refused(w)
    BY <1>2, AnswerType DEF Refused, Results, Settled, TypeOK
  <1>3. CASE Transient(w)
    <2>1. retryAt(retries[wfact[w]]) \in Int
      BY <1>3, RetryType DEF Transient, Answer, TypeOK
    <2>2. faults' \in 0..MaxFaults
      BY <1>3, OutboxAssumption DEF Transient, TypeOK
    <2>3. QED
      BY <1>3, <2>1, <2>2, AnswerType DEF Transient, Results
  <1>4. QED
    BY <1>1, <1>2, <1>3 DEF Deliver

LEMMA ReleaseType ==
  ASSUME TypeOK, NEW w \in Workers, Release(w)
  PROVE  /\ wpc' \in [Workers -> {"idle", "posting", "marking"}]
         /\ wfact' \in [Workers -> Facts \cup {Null}]
         /\ wtoken' \in [Workers -> Tokens \cup {Null}]
         /\ age' \in [Workers -> 0..(MaxStall + Timeout)]
         /\ result' \in [Workers -> Results]
         /\ next' \in [Workers -> Int]
         /\ \A v \in Workers : wpc'[v] # "idle" => wfact'[v] \in Facts
  <1>1. 0 \in 0..(MaxStall + Timeout)
    BY OutboxAssumption
  <1>2. QED
    BY <1>1 DEF Release, TypeOK, Results

LEMMA MarkType ==
  ASSUME TypeOK, NEW w \in Workers, MarkV1FactDelivery(w)
  PROVE  TypeOK'
  <1> DEFINE f == wfact[w]
  <1>1. CASE status[f] = "DELIVERING" /\ token[f] = wtoken[w]
    <2>1. Expired \in Expired..Lease
      BY OutboxAssumption DEF Expired
    <2>2. \A n \in Nat : n + 1 \in Nat
      OBVIOUS
    <2>3. QED
      BY <1>1, <2>1, <2>2, ReleaseType DEF MarkV1FactDelivery, TypeOK, Statuses
  <1>2. CASE ~(status[f] = "DELIVERING" /\ token[f] = wtoken[w])
    BY <1>2, ReleaseType DEF MarkV1FactDelivery, TypeOK, row
  <1>3. QED
    BY <1>1, <1>2

LEMMA TickType ==
  ASSUME TypeOK, Tick
  PROVE  TypeOK'
  <1>1. wait' \in [Facts -> Int]
    BY DEF Tick, TypeOK
  <1>2. lease' \in [Facts -> Expired..Lease]
    BY OutboxAssumption DEF Tick, TypeOK, Expired
  <1>3. age' \in [Workers -> 0..(MaxStall + Timeout)]
    BY OutboxAssumption DEF Tick, TypeOK
  <1>4. next' \in [Workers -> Int]
    BY DEF Tick, TypeOK
  <1>5. QED
    BY <1>1, <1>2, <1>3, <1>4 DEF Tick, TypeOK

\* Every step of the outbox keeps every row and worker in its type.
LEMMA NextType == TypeOK /\ [Next]_vars => TypeOK'
  <1> SUFFICES ASSUME TypeOK, [Next]_vars PROVE TypeOK'
    OBVIOUS
  <1> USE DEF row, worker
  <1>1. ASSUME NEW f \in Facts, insertV1FactTx(f) PROVE TypeOK'
    <2>1. PICK ahead \in 0..MaxSkew : wait' = [wait EXCEPT ![f] = ahead]
      BY <1>1, Zenon DEF insertV1FactTx
    <2>2. ahead \in Int
      BY OutboxAssumption
    <2>3. QED
      BY <1>1, <2>1, <2>2 DEF insertV1FactTx, TypeOK, Statuses
  <1>2. ASSUME NEW f \in Facts, RequeueV1Fact(f) PROVE TypeOK'
    <2>1. Expired \in Expired..Lease /\ requeues' \in 0..MaxRequeues
      BY <1>2, OutboxAssumption DEF RequeueV1Fact, TypeOK, Expired
    <2>2. QED
      BY <1>2, <2>1 DEF RequeueV1Fact, TypeOK, Statuses
  <1>3. ASSUME NEW w \in Workers, NEW f \in Facts, NEW stall \in 0..MaxStall,
               ClaimV1Facts(w, f, stall)
        PROVE  TypeOK'
    <2>1. PICK t \in Tokens : /\ token' = [token EXCEPT ![f] = t]
                              /\ wtoken' = [wtoken EXCEPT ![w] = t]
      BY <1>3, Zenon DEF ClaimV1Facts, FreshTokens, UnusedTokens
    <2>2. Lease - stall \in Expired..Lease /\ stall \in 0..(MaxStall + Timeout)
      BY OutboxAssumption DEF Expired
    <2>3. QED
      BY <1>3, <2>1, <2>2 DEF ClaimV1Facts, TypeOK, Statuses
  <1>4. ASSUME NEW w \in Workers, Deliver(w) PROVE TypeOK'
    BY <1>4, DeliverType
  <1>5. ASSUME NEW w \in Workers, MarkV1FactDelivery(w) PROVE TypeOK'
    BY <1>5, MarkType
  <1>6. ASSUME NEW w \in Workers, Abandon(w) PROVE TypeOK'
    <2>1. received' \subseteq Facts
      BY <1>6 DEF Abandon, TypeOK
    <2>2. faults' \in 0..MaxFaults
      BY <1>6, OutboxAssumption DEF Abandon, TypeOK
    <2>3. QED
      BY <1>6, <2>1, <2>2, ReleaseType DEF Abandon, TypeOK
  <1>7. CASE Tick
    BY <1>7, TickType
  <1>8. CASE UNCHANGED vars
    BY <1>8 DEF vars, TypeOK
  <1>9. QED
    BY <1>1, <1>2, <1>3, <1>4, <1>5, <1>6, <1>7, <1>8 DEF Next

\* Every reachable state of the outbox is well typed.
THEOREM TypeCorrect == Spec => []TypeOK
  BY InitType, NextType, PTL DEF Spec

----------------------------------------------------------------------------
(* The claim.                                                               *)

LEMMA InitInv == Init => IInv
  BY InitType DEF Init, IInv, PostingHolds, TokensDiffer, ResultsTrue,
                  DeliveredWasReceived

\* A worker that holds a fact keeps it: while it is posting, the lease has not
\* run out, so the fact is not due.
LEMMA PostingNotDue ==
  ASSUME IInv, NEW w \in Workers, wpc[w] = "posting"
  PROVE  wfact[w] \in Facts /\ \A stall \in 0..MaxStall : ~Due(wfact[w], stall)
  <1>1. wfact[w] \in Facts
    BY DEF IInv, TypeOK
  <1>2. lease[wfact[w]] + age[w] = Lease
    BY DEF IInv, PostingHolds, ClaimHeld
  <1>3. age[w] \in Int /\ age[w] <= Lease /\ lease[wfact[w]] \in Int
    BY <1>1, OutboxAssumption DEF IInv, TypeOK, Expired
  <1>4. QED
    BY <1>1, <1>2, <1>3, OutboxAssumption DEF Due

LEMMA ClaimKeepsInv ==
  ASSUME IInv, NEW w \in Workers, NEW f \in Facts, NEW stall \in 0..MaxStall,
         ClaimV1Facts(w, f, stall)
  PROVE  PostingHolds' /\ TokensDiffer' /\ ResultsTrue'
  <1>1. PICK t \in UnusedTokens : /\ token' = [token EXCEPT ![f] = t]
                                  /\ wtoken' = [wtoken EXCEPT ![w] = t]
    BY Zenon DEF ClaimV1Facts, FreshTokens
  <1>2. t \in Tokens /\ t # Null /\ \A v \in Workers : wtoken[v] # t
    BY OutboxAssumption DEF UnusedTokens
  <1>3. TokensDiffer'
    BY <1>1, <1>2 DEF ClaimV1Facts, IInv, TypeOK, TokensDiffer
  <1>4. ASSUME NEW v \in Workers, wpc'[v] = "posting" PROVE ClaimHeld(v)'
    <2>1. CASE v = w
      BY <1>1, <2>1, OutboxAssumption DEF ClaimV1Facts, IInv, TypeOK, ClaimHeld
    <2>2. CASE v # w
      <3>1. wpc[v] = "posting" /\ ClaimHeld(v) /\ wfact'[v] = wfact[v]
            /\ age'[v] = age[v] /\ wtoken'[v] = wtoken[v]
        BY <1>1, <1>4, <2>2 DEF ClaimV1Facts, IInv, TypeOK, PostingHolds
      <3>2. wfact[v] \in Facts /\ wfact[v] # f
        BY <3>1, PostingNotDue DEF ClaimV1Facts
      <3>3. QED
        BY <1>1, <3>1, <3>2 DEF ClaimV1Facts, IInv, TypeOK, ClaimHeld
    <2>3. QED
      BY <2>1, <2>2
  <1>5. ResultsTrue'
    BY DEF ClaimV1Facts, IInv, TypeOK, ResultsTrue, DeliveredWasReceived
  <1>6. QED
    BY <1>3, <1>4, <1>5 DEF PostingHolds

\* The answer to a POST changes no row; DELIVERED is the answer of CMS.
LEMMA AnswerKeepsInv ==
  ASSUME IInv, NEW w \in Workers, NEW r, NEW d, Answer(w, r, d),
         received' \in {received, received \cup {wfact[w]}},
         r = "DELIVERED" => wfact[w] \in received'
  PROVE  PostingHolds' /\ TokensDiffer' /\ ResultsTrue'
  <1>1. /\ wpc'[w] = "marking"
        /\ \A v \in Workers : v # w => wpc'[v] = wpc[v] /\ age'[v] = age[v]
                                       /\ result'[v] = result[v]
        /\ result'[w] = r
    BY DEF Answer, IInv, TypeOK
  <1>2. UNCHANGED <<status, lease, token, wfact, wtoken>>
    BY DEF Answer, row
  <1>3. PostingHolds'
    BY <1>1, <1>2 DEF IInv, PostingHolds, ClaimHeld
  <1>4. TokensDiffer'
    BY <1>1, <1>2 DEF IInv, TokensDiffer, Answer
  <1>5. ResultsTrue'
    BY <1>1, <1>2 DEF IInv, ResultsTrue, DeliveredWasReceived
  <1>6. QED
    BY <1>3, <1>4, <1>5

LEMMA DeliverKeepsInv ==
  ASSUME IInv, NEW w \in Workers, Deliver(w)
  PROVE  PostingHolds' /\ TokensDiffer' /\ ResultsTrue'
  <1>1. CASE Accepted(w)
    BY <1>1, AnswerKeepsInv DEF Accepted
  <1>2. CASE Refused(w)
    BY <1>2, AnswerKeepsInv DEF Refused
  <1>3. CASE Transient(w)
    BY <1>3, AnswerKeepsInv DEF Transient
  <1>4. QED
    BY <1>1, <1>2, <1>3 DEF Deliver

\* A worker that lets go of its fact leaves the tokens of the others alone.
LEMMA ReleaseKeepsTokens ==
  ASSUME IInv, NEW w \in Workers, Release(w)
  PROVE  /\ TokensDiffer'
         /\ wpc'[w] = "idle"
         /\ \A v \in Workers : v # w =>
               /\ wpc'[v] = wpc[v] /\ wfact'[v] = wfact[v] /\ age'[v] = age[v]
               /\ wtoken'[v] = wtoken[v] /\ result'[v] = result[v]
  BY DEF Release, IInv, TypeOK, TokensDiffer

LEMMA MarkKeepsInv ==
  ASSUME IInv, NEW w \in Workers, MarkV1FactDelivery(w)
  PROVE  PostingHolds' /\ TokensDiffer' /\ ResultsTrue'
  <1> DEFINE f == wfact[w]
  <1>1. f \in Facts /\ wtoken[w] \in Tokens /\ wtoken[w] # Null
    BY OutboxAssumption DEF MarkV1FactDelivery, IInv, TypeOK, TokensDiffer
  <1>2. Release(w) /\ received' = received
    BY DEF MarkV1FactDelivery
  <1>3. CASE status[f] = "DELIVERING" /\ token[f] = wtoken[w]
    <2>1. ASSUME NEW v \in Workers, wpc'[v] = "posting" PROVE ClaimHeld(v)'
      <3>1. v # w /\ wpc[v] = "posting" /\ ClaimHeld(v) /\ wfact[v] \in Facts
        BY <1>2, <2>1, ReleaseKeepsTokens DEF IInv, TypeOK, PostingHolds
      <3>2. wfact[v] # f
        BY <1>1, <1>3, <3>1 DEF IInv, TokensDiffer, ClaimHeld
      <3>3. QED
        BY <1>2, <1>3, <3>1, <3>2, ReleaseKeepsTokens
           DEF MarkV1FactDelivery, IInv, TypeOK, ClaimHeld
    <2>2. DeliveredWasReceived'
      BY <1>1, <1>3 DEF MarkV1FactDelivery, IInv, TypeOK, ResultsTrue,
                        DeliveredWasReceived
    <2>3. QED
      BY <1>2, <2>1, <2>2, ReleaseKeepsTokens
         DEF PostingHolds, ResultsTrue, IInv
  <1>4. CASE ~(status[f] = "DELIVERING" /\ token[f] = wtoken[w])
    <2>1. UNCHANGED <<status, lease, token>>
      BY <1>4 DEF MarkV1FactDelivery, row
    <2>2. QED
      BY <1>2, <2>1, ReleaseKeepsTokens
         DEF IInv, PostingHolds, ClaimHeld, ResultsTrue, DeliveredWasReceived
  <1>5. QED
    BY <1>3, <1>4

LEMMA TickKeepsInv ==
  ASSUME IInv, Tick
  PROVE  PostingHolds' /\ TokensDiffer' /\ ResultsTrue'
  <1>1. ASSUME NEW w \in Workers, wpc'[w] = "posting" PROVE ClaimHeld(w)'
    <2>1. wpc[w] = "posting" /\ ClaimHeld(w) /\ wfact[w] \in Facts
      BY <1>1 DEF Tick, IInv, TypeOK, PostingHolds
    <2>2. age[w] \in Int /\ age[w] < MaxStall + Timeout /\ lease[wfact[w]] \in Int
      BY <2>1, OutboxAssumption DEF Tick, IInv, TypeOK, Expired
    <2>3. lease[wfact[w]] > Expired
      BY <2>1, <2>2, OutboxAssumption DEF ClaimHeld, Expired
    <2>4. lease'[wfact[w]] = lease[wfact[w]] - 1 /\ age'[w] = age[w] + 1
      BY <2>1, <2>3 DEF Tick, IInv, TypeOK
    <2>5. QED
      BY <2>1, <2>2, <2>4, OutboxAssumption DEF Tick, ClaimHeld
  <1>2. QED
    BY <1>1 DEF Tick, IInv, PostingHolds, TokensDiffer, ResultsTrue,
                DeliveredWasReceived

LEMMA NextInv == IInv /\ [Next]_vars => IInv'
  <1> SUFFICES ASSUME IInv, [Next]_vars PROVE IInv'
    OBVIOUS
  <1> SUFFICES PostingHolds' /\ TokensDiffer' /\ ResultsTrue'
    BY NextType DEF IInv
  <1> USE DEF row, worker
  <1>1. ASSUME NEW f \in Facts, insertV1FactTx(f)
        PROVE  PostingHolds' /\ TokensDiffer' /\ ResultsTrue'
    <2>1. \A w \in Workers : wpc[w] = "posting" => wfact[w] \in Facts /\ wfact[w] # f
      BY <1>1 DEF insertV1FactTx, IInv, TypeOK, PostingHolds, ClaimHeld
    <2>2. QED
      BY <1>1, <2>1 DEF insertV1FactTx, IInv, TypeOK, PostingHolds, ClaimHeld,
         TokensDiffer, ResultsTrue, DeliveredWasReceived
  <1>2. ASSUME NEW f \in Facts, RequeueV1Fact(f)
        PROVE  PostingHolds' /\ TokensDiffer' /\ ResultsTrue'
    <2>1. \A w \in Workers : wpc[w] = "posting" => wfact[w] \in Facts /\ wfact[w] # f
      BY <1>2 DEF RequeueV1Fact, IInv, TypeOK, PostingHolds, ClaimHeld
    <2>2. QED
      BY <1>2, <2>1 DEF RequeueV1Fact, IInv, TypeOK, PostingHolds, ClaimHeld,
         TokensDiffer, ResultsTrue, DeliveredWasReceived
  <1>3. ASSUME NEW w \in Workers, Abandon(w)
        PROVE  PostingHolds' /\ TokensDiffer' /\ ResultsTrue'
    <2>1. Release(w) /\ UNCHANGED <<status, lease, token>> /\ received \subseteq received'
      BY <1>3 DEF Abandon
    <2>2. QED
      BY <2>1, ReleaseKeepsTokens
         DEF IInv, PostingHolds, ClaimHeld, ResultsTrue, DeliveredWasReceived
  <1>4. CASE UNCHANGED vars
    BY <1>4 DEF vars, IInv, PostingHolds, ClaimHeld, TokensDiffer, ResultsTrue,
                DeliveredWasReceived
  <1>5. QED
    BY <1>1, <1>2, <1>3, <1>4, ClaimKeepsInv, DeliverKeepsInv, MarkKeepsInv,
       TickKeepsInv DEF Next

LEMMA Inductive == Spec => []IInv
  BY InitInv, NextInv, PTL DEF Spec

\* As long as the lease is not shorter than the HTTP timeout and the time a
\* worker loses between reading its clock and the POST together, no fact is in
\* two POSTs at once, however workers die, time out and take over.
THEOREM Exclusive == Spec => []OnePostPerFact
  <1>1. IInv => OnePostPerFact
    BY OutboxAssumption DEF IInv, PostingHolds, ClaimHeld, TokensDiffer, OnePostPerFact
  <1>2. QED
    BY <1>1, Inductive, PTL

\* A fact is DELIVERED only if CMS has accepted it.
THEOREM Delivered == Spec => []DeliveredWasReceived
  <1>1. IInv => DeliveredWasReceived
    BY DEF IInv, ResultsTrue
  <1>2. QED
    BY <1>1, Inductive, PTL

----------------------------------------------------------------------------
(* Who changes a claimed or a delivered row.                                *)

LEMMA HolderStep ==
  ASSUME TypeOK, [Next]_vars, NEW f \in Facts
  PROVE  /\ status[f] = "DELIVERING" /\ status'[f] # "DELIVERING" =>
               \E w \in Workers : /\ wpc[w] = "marking" /\ wpc'[w] = "idle"
                                  /\ wfact[w] = f /\ wtoken[w] = token[f]
         /\ status[f] = "DELIVERED" => /\ status'[f] = "DELIVERED"
                                       /\ retries'[f] = retries[f]
                                       /\ token'[f] = token[f]
  <1> DEFINE Held == \E w \in Workers : /\ wpc[w] = "marking" /\ wpc'[w] = "idle"
                                        /\ wfact[w] = f /\ wtoken[w] = token[f]
             Same == status'[f] = status[f] /\ retries'[f] = retries[f]
                     /\ token'[f] = token[f]
  <1> SUFFICES \/ Same
               \/ status[f] = "DELIVERING" /\ Held
               \/ status[f] = "DELIVERING" /\ status'[f] = "DELIVERING"
               \/ status[f] \notin {"DELIVERING", "DELIVERED"}
    OBVIOUS
  <1> USE DEF row, worker
  <1>1. ASSUME NEW g \in Facts, insertV1FactTx(g) \/ RequeueV1Fact(g)
        PROVE  Same \/ status[f] \notin {"DELIVERING", "DELIVERED"}
    BY <1>1 DEF insertV1FactTx, RequeueV1Fact, TypeOK
  <1>2. ASSUME NEW w \in Workers, NEW g \in Facts, NEW stall \in 0..MaxStall,
               ClaimV1Facts(w, g, stall)
        PROVE  \/ Same
               \/ status[f] = "DELIVERING" /\ status'[f] = "DELIVERING"
               \/ status[f] \notin {"DELIVERING", "DELIVERED"}
    BY <1>2 DEF ClaimV1Facts, Due, TypeOK
  <1>3. ASSUME NEW w \in Workers, MarkV1FactDelivery(w)
        PROVE  Same \/ (status[f] = "DELIVERING" /\ Held)
    <2>1. CASE wfact[w] = f /\ status[f] = "DELIVERING" /\ token[f] = wtoken[w]
      BY <1>3, <2>1 DEF MarkV1FactDelivery, Release, TypeOK
    <2>2. CASE ~(wfact[w] = f /\ status[f] = "DELIVERING" /\ token[f] = wtoken[w])
      BY <1>3, <2>2 DEF MarkV1FactDelivery, TypeOK
    <2>3. QED
      BY <2>1, <2>2
  <1>4. QED
    BY <1>1, <1>2, <1>3 DEF Next, vars, Deliver, Accepted, Refused, Transient,
       Answer, Abandon, Tick

\* Only the holder of the row's current token takes a fact out of DELIVERING,
\* and nothing touches a DELIVERED one.
THEOREM HolderRecords == Spec => OnlyHolderRecords
  <1> DEFINE Step == \A f \in Facts :
          /\ status[f] = "DELIVERING" /\ status'[f] # "DELIVERING" =>
                \E w \in Workers : /\ wpc[w] = "marking" /\ wpc'[w] = "idle"
                                   /\ wfact[w] = f /\ wtoken[w] = token[f]
          /\ status[f] = "DELIVERED" =>
                /\ status'[f] = "DELIVERED"
                /\ retries'[f] = retries[f]
                /\ token'[f] = token[f]
  <1>1. TypeOK /\ [Next]_vars => Step
    BY HolderStep
  <1>2. QED
    BY <1>1, TypeCorrect, PTL DEF Spec, OnlyHolderRecords
=============================================================================
