----------------------------- MODULE Telemetry -----------------------------
(***************************************************************************)
(* The meter and state-of-charge evidence of one transaction: which        *)
(* MeterValues are accepted and published, when they trigger the energy    *)
(* limit, and what the final meter of StopTransaction may be.              *)
(*                                                                         *)
(* Each store operation locks the transaction row, so each is one action.  *)
(* Timestamps are the charger's: they may come in any order.               *)
(***************************************************************************)
EXTENDS Integers

CONSTANTS
    MeterStart,   \* v1_transactions.meter_start_wh
    Limit,        \* v1_transactions.energy_limit_wh, may be Null
    Wh,           \* meter values that chargers report, around MeterStart
    SoC,          \* state-of-charge values
    Times,        \* timestamps that chargers report
    StartedAt,    \* actual_started_at, the charger's timestamp
    StartSeenAt,  \* observed_started_at
    Skew,         \* v1MaxProtocolClockSkew
    Null,         \* SQL NULL
    MaxSamples    \* bound: accepted energy samples, and accepted SoC samples

Tolerance == 1

\* The completion columns of a transaction.
Completions ==
    [raw : Int, wh : Int, adjustment : 0..Tolerance, at : Int,
     class : {"EXACT", "FORWARD", "QUANTIZATION_NORMALIZED"}]

\* Values are numbers, and SQL NULL is none of them.
Columns ==
    /\ MeterStart \in Int /\ Wh \subseteq Int /\ Times \subseteq Int
    /\ StartedAt \in Int /\ StartSeenAt \in Int /\ Skew \in Nat
    /\ Limit \in Int \cup {Null}
    /\ Null \notin Int /\ Null \notin SoC /\ Null \notin Completions
    /\ MaxSamples \in Nat

ASSUME TelemetryAssumption == Columns

VARIABLES
    meter,       \* latest_meter_wh, meter_observed_at, meter_sequence
    soc,         \* initial and latest_soc_percent, soc_observed_at, soc_sequence
    anomalies,   \* meter_quantization_anomaly_count
    stop,        \* a stop workflow was requested for the energy limit
    completion,  \* the completion columns, Null while active
    facts        \* v1_fact_outbox: transaction.meter and transaction.soc

vars == <<meter, soc, anomalies, stop, completion, facts>>

Init ==
    /\ meter = [wh |-> Null, at |-> Null, seq |-> 0]
    /\ soc = [initial |-> Null, latest |-> Null, at |-> Null, seq |-> 0]
    /\ anomalies = 0
    /\ stop = FALSE
    /\ completion = Null
    /\ facts = {}

----------------------------------------------------------------------------
(* Evidence.                                                                *)

\* The class of a reading, the meter value it stands for and the difference.
classifyV1MeterEvidence(start, latest, raw) ==
    LET Evidence(class, wh, adjustment) ==
            [class |-> class, wh |-> wh, adjustment |-> adjustment]
    IN
    IF raw < start THEN Evidence("CONTRADICTORY", 0, 0)
    ELSE IF latest = Null \/ raw = latest THEN Evidence("EXACT", raw, 0)
    ELSE IF raw > latest THEN Evidence("FORWARD", raw, 0)
    ELSE IF latest - raw <= Tolerance
    THEN Evidence("QUANTIZATION_NORMALIZED", latest, latest - raw)
    ELSE Evidence("CONTRADICTORY", 0, 0)

plausibleV1ProtocolTime(at, received) == at - received \in -Skew..Skew

Later(a, b) == IF b # Null /\ a < b THEN b ELSE a

----------------------------------------------------------------------------
(* MeterValues.                                                             *)

\* A reading below the latest one is accepted only as a rounding difference.
Rollback(e) == meter.wh # Null /\ e.wh < meter.wh
AcceptsEnergy(e) ==
    /\ e.wh >= MeterStart
    /\ Rollback(e) => classifyV1MeterEvidence(MeterStart, meter.wh, e.wh).class
                         = "QUANTIZATION_NORMALIZED"

AcceptsSoC(s) == soc.at = Null \/ s.at > soc.at

Reached(wh) == Limit # Null /\ wh - MeterStart >= Limit

\* Mutant: the sample's own timestamp replaces the later one.
MeterWithOwnTime(e) == [wh |-> e.wh, at |-> e.at, seq |-> meter.seq + 1]

MeterWith(e) == [wh |-> e.wh, at |-> Later(e.at, meter.at), seq |-> meter.seq + 1]

SoCWith(s) == [initial |-> IF soc.initial = Null THEN s.value ELSE soc.initial,
               latest  |-> s.value, at |-> s.at, seq |-> soc.seq + 1]

\* Mutant: a reading that passes the limit by more than one unit is missed.
UpdateEnergyAtLimit(e) ==
    IF e # Null /\ AcceptsEnergy(e)
    THEN /\ meter' = MeterWith(e)
         /\ anomalies' = IF Rollback(e) THEN anomalies + 1 ELSE anomalies
         /\ stop' = (stop \/ (Limit # Null /\ e.wh - MeterStart = Limit))
    ELSE UNCHANGED <<meter, anomalies, stop>>

UpdateEnergy(e) ==
    IF e # Null /\ AcceptsEnergy(e)
    THEN /\ meter' = MeterWith(e)
         /\ anomalies' = IF Rollback(e) THEN anomalies + 1 ELSE anomalies
         /\ stop' = (stop \/ Reached(e.wh))
    ELSE UNCHANGED <<meter, anomalies, stop>>

UpdateSoC(s) == IF s # Null /\ AcceptsSoC(s) THEN soc' = SoCWith(s) ELSE UNCHANGED soc

\* The facts of the parts that were accepted.
Published ==
    (IF meter' # meter THEN {[type |-> "transaction.meter", seq |-> meter'.seq,
                              value |-> meter'.wh, at |-> meter'.at]} ELSE {})
    \cup
    (IF soc' # soc THEN {[type |-> "transaction.soc", seq |-> soc'.seq,
                          value |-> soc'.latest, at |-> soc'.at]} ELSE {})

\* One MeterValues request: its latest energy sample e and its latest SoC
\* sample s, either of which may be missing (Null).
UpdateV1TelemetryForOCPP(e, s) ==
    /\ meter.seq < MaxSamples /\ soc.seq < MaxSamples
    /\ completion = Null
    /\ UpdateEnergy(e)
    /\ UpdateSoC(s)
    /\ facts' = facts \cup Published
    /\ UNCHANGED completion

----------------------------------------------------------------------------
(* StopTransaction.                                                         *)

\* Mutant: the raw meter value becomes the final one.
CompletionRaw(raw, at) ==
    LET c == classifyV1MeterEvidence(MeterStart, meter.wh, raw) IN
    [raw |-> raw, wh |-> raw, adjustment |-> c.adjustment, class |-> c.class, at |-> at]

Completion(raw, at) ==
    LET c == classifyV1MeterEvidence(MeterStart, meter.wh, raw) IN
    [raw |-> raw, wh |-> c.wh, adjustment |-> c.adjustment, class |-> c.class, at |-> at]

\* The first StopTransaction whose evidence is consistent completes the
\* transaction; a repeated or a contradictory one changes nothing.
CompleteV1Transaction(raw, at, received) ==
    /\ completion = Null
    /\ at >= StartedAt
    /\ received >= StartSeenAt
    /\ plausibleV1ProtocolTime(at, received)
    /\ ~(meter.wh # Null /\ meter.at > at /\ raw < meter.wh)
    /\ Completion(raw, at).class # "CONTRADICTORY"
    /\ completion' = Completion(raw, at)
    /\ meter' = [meter EXCEPT !.wh = completion'.wh, !.at = Later(at, meter.at)]
    /\ UNCHANGED <<soc, anomalies, stop, facts>>

----------------------------------------------------------------------------
Energy == [wh : Wh, at : Times] \cup {Null}
Charge == [value : SoC, at : Times] \cup {Null}

Next ==
    \/ \E e \in Energy, s \in Charge : UpdateV1TelemetryForOCPP(e, s)
    \/ \E raw \in Wh, at \in Times, received \in Times :
          CompleteV1Transaction(raw, at, received)

Spec == Init /\ [][Next]_vars

----------------------------------------------------------------------------
(* Properties.                                                              *)

MeterFacts == {f \in facts : f.type = "transaction.meter"}
SoCFacts == {f \in facts : f.type = "transaction.soc"}

\* Rows hold values of their types; a completion has one of the three classes.
TypeOK ==
    /\ meter \in [wh : Int \cup {Null}, at : Int \cup {Null}, seq : Nat]
    /\ soc \in [initial : SoC \cup {Null}, latest : SoC \cup {Null},
                at : Times \cup {Null}, seq : Nat]
    /\ anomalies \in Nat
    /\ stop \in BOOLEAN
    /\ completion \in Completions \cup {Null}

\* Every accepted sample is published once, under the next sequence number,
\* and the times that go with the numbers never go back, although the charger's
\* clock may; the initial state of charge stays the first published one.
FactsInOrder ==
    /\ {f.seq : f \in MeterFacts} = 1..meter.seq
    /\ {f.seq : f \in SoCFacts} = 1..soc.seq
    /\ \A f, g \in MeterFacts : f.seq <= g.seq => f.at <= g.at
    /\ \A f, g \in SoCFacts : f.seq < g.seq => f.at < g.at
    /\ \A f, g \in facts : f.type = g.type /\ f.seq = g.seq => f = g
    /\ \A f \in SoCFacts : f.seq = 1 => soc.initial = f.value

\* A published reading at or above the energy limit has requested the stop,
\* whatever was rolled back since.
LimitRequestsStop == (\E f \in MeterFacts : Reached(f.value)) => stop

\* The final meter is never below the start or the last published reading, is
\* at most one unit above what the charger reported, and is dated no earlier
\* than any published reading.
FinalMeterCovers ==
    completion # Null =>
        /\ completion.wh >= MeterStart
        /\ completion.wh - completion.raw = completion.adjustment
        /\ completion.adjustment \in 0..Tolerance
        /\ \A f \in MeterFacts : f.seq = meter.seq => completion.wh >= f.value
        /\ \A f \in MeterFacts : f.at <= meter.at

\* What the contract says of a one-Wh rollback: "it does not replace the
\* latest meter or emit a regressive fact".
MeterNeverRegresses ==
    [][meter.wh # Null => meter'.wh >= meter.wh]_vars
=============================================================================
