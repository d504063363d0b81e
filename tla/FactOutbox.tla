----------------------------- MODULE FactOutbox -----------------------------
(***************************************************************************)
(* Delivery of the durable facts of v1_fact_outbox to CMS: workers claim   *)
(* one due fact under a lease and a fresh token, POST it, and record the   *)
(* result only if they still hold the claim.                               *)
(*                                                                         *)
(* Time is kept as the ticks that remain: wait[f] until next_retry_at      *)
(* (negative when it has passed), lease[f] until claimed_until (negative   *)
(* when it has passed, Expired when that is long ago or it is NULL).       *)
(***************************************************************************)
EXTENDS Integers, FiniteSetsExt

CONSTANTS
    NumFacts,      \* facts, numbered by created_at
    Workers,       \* delivery workers (one for each HAL process)
    Tokens,        \* claim_token values
    Null,          \* SQL NULL
    Lease,         \* duration of a claim (30 s)
    Timeout,       \* the HTTP client's timeout (15 s)
    MaxStall,      \* the longest time from RunOnce's "now" to the POST
    MaxDelay,      \* the longest retry delay (60 s)
    MaxSkew,       \* how far ahead of the clock occurred_at may be
    MaxLate,       \* bound: how long a passed next_retry_at is remembered
    MaxFaults,     \* bound: transient answers and abandoned deliveries
    MaxRequeues    \* bound: manual requeues

ASSUME OutboxAssumption ==
    /\ NumFacts \in Nat /\ Lease \in Nat /\ MaxDelay \in Nat /\ MaxSkew \in Nat
    /\ MaxLate \in Nat /\ MaxFaults \in Nat /\ MaxRequeues \in Nat
    /\ MaxStall \in Nat /\ Timeout \in Nat
    /\ MaxStall + Timeout <= Lease /\ MaxStall <= MaxLate
    /\ Null \notin Tokens

Facts == 1..NumFacts
Expired == -1 - MaxStall

VARIABLES
    status,    \* v1_fact_outbox.status, "ABSENT" before the fact is inserted
    wait,      \* next_retry_at
    lease,     \* claimed_until
    token,     \* claim_token
    retries,   \* retries
    wpc,       \* each worker: idle, posting or marking
    wfact,     \* the fact in its hands
    wtoken,    \* the token it was claimed with
    age,       \* ticks since the "now" of its claim, while posting
    result,    \* the outcome it is about to record
    next,      \* next_retry_at it is about to record
    received,  \* facts CMS has accepted
    faults, requeues

row == <<status, wait, lease, token, retries>>
worker == <<wpc, wfact, wtoken, age, result, next>>
vars == <<row, worker, received, faults, requeues>>

Settled == {"DELIVERED", "RECONCILIATION_REQUIRED"}
Results == Settled \cup {"RETRY"}
Statuses == Results \cup {"ABSENT", "PENDING", "DELIVERING"}

Init ==
    /\ status = [f \in Facts |-> "ABSENT"]
    /\ wait = [f \in Facts |-> 0]
    /\ lease = [f \in Facts |-> Expired]
    /\ token = [f \in Facts |-> Null]
    /\ retries = [f \in Facts |-> 0]
    /\ wpc = [w \in Workers |-> "idle"]
    /\ wfact = [w \in Workers |-> Null]
    /\ wtoken = [w \in Workers |-> Null]
    /\ age = [w \in Workers |-> 0]
    /\ result = [w \in Workers |-> "RETRY"]
    /\ next = [w \in Workers |-> 0]
    /\ received = {}
    /\ faults = 0
    /\ requeues = 0

\* A fact is committed with the change it reports; occurred_at, which may come
\* from the charger's clock, is its first next_retry_at.
insertV1FactTx(f) ==
    /\ status[f] = "ABSENT"
    /\ \A g \in Facts : g < f => status[g] # "ABSENT"
    /\ status' = [status EXCEPT ![f] = "PENDING"]
    /\ \E ahead \in 0..MaxSkew : wait' = [wait EXCEPT ![f] = ahead]
    /\ UNCHANGED <<lease, token, retries, worker, received, faults, requeues>>

----------------------------------------------------------------------------
(* The worker.                                                              *)

\* Mutant: an expired claim is not needed to take over a delivery.
DueUnleased(f, stall) ==
    \/ status[f] \in {"PENDING", "RETRY"} /\ wait[f] <= -stall
    \/ status[f] = "DELIVERING"

\* Mutant: a fact whose worker died is not due again.
DuePending(f, stall) ==
    /\ status[f] \in {"PENDING", "RETRY"} /\ wait[f] <= -stall
    /\ lease[f] < -stall

\* A fact that was due when the worker read its clock, stall ticks ago.
Due(f, stall) ==
    /\ \/ status[f] \in {"PENDING", "RETRY"} /\ wait[f] <= -stall
       \/ status[f] = "DELIVERING"
    /\ lease[f] < -stall

\* ORDER BY next_retry_at, created_at LIMIT 1.
Before(f, g) == wait[f] < wait[g] \/ (wait[f] = wait[g] /\ f <= g)

\* NewSecureUUIDString: a token nobody holds.  Tokens are only compared, so
\* it does not matter which one it is.
UnusedTokens == {t \in Tokens : /\ \A f \in Facts : token[f] # t
                                /\ \A w \in Workers : wtoken[w] # t}
FreshTokens == {t \in UnusedTokens : \A s \in UnusedTokens : t <= s}

\* RunOnce reads the clock, claims one fact for Lease from that time on, and
\* starts the POST.
ClaimV1Facts(w, f, stall) ==
    /\ wpc[w] = "idle"
    /\ Due(f, stall)
    /\ \A g \in Facts : Due(g, stall) => Before(f, g)
    /\ \E t \in FreshTokens :
          /\ token' = [token EXCEPT ![f] = t]
          /\ wtoken' = [wtoken EXCEPT ![w] = t]
    /\ status' = [status EXCEPT ![f] = "DELIVERING"]
    /\ lease' = [lease EXCEPT ![f] = Lease - stall]
    /\ wpc' = [wpc EXCEPT ![w] = "posting"]
    /\ wfact' = [wfact EXCEPT ![w] = f]
    /\ age' = [age EXCEPT ![w] = stall]
    /\ UNCHANGED <<wait, retries, result, next, received, faults, requeues>>

\* The delay after the given number of retries.
retryAt(n) == Min({2 ^ Min({n, 6}), MaxDelay})

\* The POST ends with the outcome r; the worker goes on to record it.
Answer(w, r, delay) ==
    /\ wpc[w] = "posting"
    /\ wpc' = [wpc EXCEPT ![w] = "marking"]
    /\ age' = [age EXCEPT ![w] = 0]
    /\ result' = [result EXCEPT ![w] = r]
    /\ next' = [next EXCEPT ![w] = delay]
    /\ UNCHANGED <<row, wfact, wtoken, requeues>>

\* CMS answers 204.
Accepted(w) ==
    /\ Answer(w, "DELIVERED", 0)
    /\ received' = received \cup {wfact[w]}
    /\ UNCHANGED faults

\* Any other answer that is not transient.
Refused(w) ==
    /\ Answer(w, "RECONCILIATION_REQUIRED", 0)
    /\ UNCHANGED <<received, faults>>

\* Mutant: a POST without an answer is taken for a success.
TransientDelivered(w) ==
    /\ faults < MaxFaults
    /\ faults' = faults + 1
    /\ Answer(w, "DELIVERED", 0)
    /\ \/ received' = received \cup {wfact[w]}
       \/ UNCHANGED received

\* 429, 5xx, or no answer; then CMS may have accepted the fact.
Transient(w) ==
    /\ faults < MaxFaults
    /\ faults' = faults + 1
    /\ Answer(w, "RETRY", retryAt(retries[wfact[w]]))
    /\ \/ received' = received \cup {wfact[w]}
       \/ UNCHANGED received

\* The worker is done with its fact.
Release(w) ==
    /\ wpc' = [wpc EXCEPT ![w] = "idle"]
    /\ wfact' = [wfact EXCEPT ![w] = Null]
    /\ wtoken' = [wtoken EXCEPT ![w] = Null]
    /\ age' = [age EXCEPT ![w] = 0]
    /\ result' = [result EXCEPT ![w] = "RETRY"]
    /\ next' = [next EXCEPT ![w] = 0]

\* Mutant: the result is recorded whoever holds the claim now.
MarkAnyClaim(w) ==
    LET f == wfact[w] IN
    /\ wpc[w] = "marking"
    /\ Release(w)
    /\ status' = [status EXCEPT ![f] = result[w]]
    /\ retries' = [retries EXCEPT ![f] = IF result[w] = "DELIVERED" THEN @ ELSE @ + 1]
    /\ wait' = [wait EXCEPT ![f] = next[w]]
    /\ lease' = [lease EXCEPT ![f] = Expired]
    /\ token' = [token EXCEPT ![f] = Null]
    /\ UNCHANGED <<received, faults, requeues>>

\* The result is recorded if the fact is still DELIVERING under this worker's
\* token; otherwise the claim is lost and nothing changes.
MarkV1FactDelivery(w) ==
    LET f == wfact[w] IN
    /\ wpc[w] = "marking"
    /\ Release(w)
    /\ IF status[f] = "DELIVERING" /\ token[f] = wtoken[w]
       THEN /\ status' = [status EXCEPT ![f] = result[w]]
            /\ retries' = [retries EXCEPT ![f] =
                              IF result[w] = "DELIVERED" THEN @ ELSE @ + 1]
            /\ wait' = [wait EXCEPT ![f] = next[w]]
            /\ lease' = [lease EXCEPT ![f] = Expired]
            /\ token' = [token EXCEPT ![f] = Null]
       ELSE UNCHANGED row
    /\ UNCHANGED <<received, faults, requeues>>

\* The process dies during the POST or before the mark, or the mark fails.
Abandon(w) ==
    /\ faults < MaxFaults
    /\ faults' = faults + 1
    /\ wpc[w] # "idle"
    /\ Release(w)
    /\ received' \in IF wpc[w] = "posting"
                     THEN {received, received \cup {wfact[w]}} ELSE {received}
    /\ UNCHANGED <<row, requeues>>

----------------------------------------------------------------------------
\* POST /v1/facts/{fact_id}/requeue, after the cause has been repaired.
RequeueV1Fact(f) ==
    /\ requeues < MaxRequeues
    /\ status[f] = "RECONCILIATION_REQUIRED"
    /\ requeues' = requeues + 1
    /\ status' = [status EXCEPT ![f] = "PENDING"]
    /\ wait' = [wait EXCEPT ![f] = 0]
    /\ lease' = [lease EXCEPT ![f] = Expired]
    /\ token' = [token EXCEPT ![f] = Null]
    /\ UNCHANGED <<retries, worker, received, faults>>

\* One tick; a POST starts within MaxStall of the worker's "now" and does not
\* outlive its timeout.
Tick ==
    /\ \A w \in Workers : wpc[w] = "posting" => age[w] < MaxStall + Timeout
    /\ wait' = [f \in Facts |-> IF wait[f] > -MaxLate THEN wait[f] - 1 ELSE wait[f]]
    /\ lease' = [f \in Facts |-> IF lease[f] > Expired THEN lease[f] - 1 ELSE lease[f]]
    /\ age' = [w \in Workers |-> IF wpc[w] = "posting" THEN age[w] + 1 ELSE age[w]]
    /\ next' = [w \in Workers |-> IF wpc[w] = "marking" /\ next[w] > -MaxLate
                                  THEN next[w] - 1 ELSE next[w]]
    /\ UNCHANGED <<status, token, retries, wpc, wfact, wtoken, result, received,
                   faults, requeues>>

Deliver(w) == Accepted(w) \/ Refused(w) \/ Transient(w)

Next ==
    \/ \E f \in Facts : insertV1FactTx(f) \/ RequeueV1Fact(f)
    \/ \E w \in Workers : \/ \E f \in Facts, stall \in 0..MaxStall : ClaimV1Facts(w, f, stall)
                          \/ Deliver(w)
                          \/ MarkV1FactDelivery(w)
                          \/ Abandon(w)
    \/ Tick

Spec == Init /\ [][Next]_vars

\* Time passes; a worker polls every 2 s, its POST ends within the timeout and
\* the result is then recorded.
FairSpec ==
    /\ Spec
    /\ WF_vars(Tick)
    /\ \A w \in Workers : /\ WF_vars(\E f \in Facts, stall \in 0..MaxStall : ClaimV1Facts(w, f, stall))
                          /\ WF_vars(Deliver(w))
                          /\ WF_vars(MarkV1FactDelivery(w))

----------------------------------------------------------------------------
(* Properties.                                                              *)

\* Rows and workers hold values of their types; no POST ends later than MaxStall
\* and Timeout after the clock was read for its claim.
TypeOK ==
    /\ status \in [Facts -> Statuses]
    /\ wait \in [Facts -> Int]
    /\ lease \in [Facts -> Expired..Lease]
    /\ token \in [Facts -> Tokens \cup {Null}]
    /\ retries \in [Facts -> Nat]
    /\ wpc \in [Workers -> {"idle", "posting", "marking"}]
    /\ wfact \in [Workers -> Facts \cup {Null}]
    /\ wtoken \in [Workers -> Tokens \cup {Null}]
    /\ age \in [Workers -> 0..(MaxStall + Timeout)]
    /\ result \in [Workers -> Results]
    /\ next \in [Workers -> Int]
    /\ received \subseteq Facts
    /\ faults \in 0..MaxFaults
    /\ requeues \in 0..MaxRequeues
    /\ \A w \in Workers : wpc[w] # "idle" => wfact[w] \in Facts

\* "An unexpired delivery lease is exclusive": no fact is ever in two POSTs at
\* once, because the lease outlives the HTTP timeout (RunOnce's comment), and
\* by more than a worker loses between reading the clock and its POST.
OnePostPerFact ==
    \A v, w \in Workers :
        wpc[v] = "posting" /\ wpc[w] = "posting" /\ wfact[v] = wfact[w] => v = w

\* A fact is DELIVERED only if CMS accepted it, whatever was lost on the way.
DeliveredWasReceived == \A f \in Facts : status[f] = "DELIVERED" => f \in received

\* A worker that has lost its claim records nothing: only the holder of the
\* row's current token takes a fact out of DELIVERING, and a DELIVERED fact is
\* touched neither by a late result nor by a requeue (MarkV1FactDelivery's
\* token check).
OnlyHolderRecords ==
    [][\A f \in Facts :
          /\ status[f] = "DELIVERING" /\ status'[f] # "DELIVERING" =>
                \E w \in Workers : /\ wpc[w] = "marking" /\ wpc'[w] = "idle"
                                   /\ wfact[w] = f /\ wtoken[w] = token[f]
          /\ status[f] = "DELIVERED" =>
                /\ status'[f] = "DELIVERED"
                /\ retries'[f] = retries[f]
                /\ token'[f] = token[f]]_vars

\* Every committed fact is delivered or handed to reconciliation, through
\* transient answers, dead workers and expired leases, and no fact is starved
\* by the others; unless workers keep losing their claims because recording a
\* result outlasts the lease, time after time.
LostClaim == \E w \in Workers : /\ wpc[w] = "marking" /\ wpc'[w] = "idle"
                                /\ wtoken[w] # token[wfact[w]]
FactsSettle ==
    \/ []<><<LostClaim>>_vars
    \/ \A f \in Facts : status[f] # "ABSENT" ~> status[f] \in Settled
=============================================================================
