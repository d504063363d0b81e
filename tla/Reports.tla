------------------------------ MODULE Reports ------------------------------
(***************************************************************************)
(* Three components that deal with what chargers report: Telemetry,        *)
(* Admission and ChargingTrace.  They share no state here, so that each    *)
(* behaviour follows one of them, and the others stay as they are.         *)
(***************************************************************************)
EXTENDS Telemetry

CONSTANTS Chargers, Serials, None, NumKeys, MaxConns, MaxStatus, MaxSyncs
CONSTANTS Sessions, Handlers, Workers, NumEvents

VARIABLES enabled, wired, active, conn, reporter, sequence, reports, job, orphaned, syncs
VARIABLES transaction, root, old, event, appender, worker, retention
VARIABLE component   \* the one that this behaviour follows

A == INSTANCE Admission
C == INSTANCE ChargingTrace

ASSUME ReportsAssumption == A!Named

aVars == <<enabled, wired, active, conn, reporter, sequence, reports, job, orphaned, syncs>>
cVars == <<transaction, root, old, event, appender, worker, retention>>
allVars == <<vars, aVars, cVars, component>>

ReportsInit ==
    /\ component \in {"telemetry", "admission", "trace"}
    /\ Init /\ A!Init /\ C!Init

ReportsNext ==
    /\ UNCHANGED component
    /\ \/ component = "telemetry" /\ Next /\ UNCHANGED <<aVars, cVars>>
       \/ component = "admission" /\ A!Next /\ UNCHANGED <<vars, cVars>>
       \/ component = "trace" /\ C!Next /\ UNCHANGED <<vars, aVars>>

ReportsSpec == ReportsInit /\ [][ReportsNext]_allVars

\* What HAL knows of a charger came from that charger, but for what connections
\* without an entry report.
OwnEvidence == A!OwnEvidence
\* A superseded reconciliation sends at most one more request.
OneLateRequest == A!OneLateRequest
\* Retention deletes no event that CMS has yet to get.
RetentionSparesUndelivered == C!RetentionSparesUndelivered
=============================================================================
