----------------------------- MODULE Admission -----------------------------
(***************************************************************************)
(* Who a connection belongs to.  A charger dials /identity or              *)
(* /identity/serial; the websocket library names its connections by the    *)
(* last segment, the wire identity, and HAL keeps a map from wire          *)
(* identities to the canonical ones.  Every handler looks its charger up   *)
(* in that map, and the disconnect handler removes the entry once it has   *)
(* written to the database.                                                *)
(*                                                                         *)
(* Chargers, serials and wire identities are names; a wire identity that   *)
(* is not in the map stands for itself.  The generation of a connection is *)
(* its number here: it is only compared.  What the callbacks write to      *)
(* v1_charger_runtime is in Connection; the row of boot evidence, which    *)
(* nothing reads, is left out.                                             *)
(***************************************************************************)
EXTENDS Integers, FiniteSets

CONSTANTS
    Chargers,    \* canonical identities that CMS has mapped
    Serials,     \* second segments that chargers dial with, identities or not
    None,
    NumKeys,     \* configuration keys that are reconciled after a boot
    MaxConns,    \* bound: connections
    MaxStatus,   \* bound: status facts
    MaxSyncs     \* bound: mapping syncs

Wires == Chargers \cup Serials
Conns == 1..MaxConns

\* No name is empty; a serial may be the identity of another charger.
Named == None \notin Wires /\ MaxConns \in Nat

VARIABLES
    enabled,     \* v1_charger_mappings.enabled
    wired,       \* wiredIdentity
    active,      \* the connection of connectionTracker.active, 0 if there is none
    conn,        \* the connections
    reporter,    \* a StatusNotification handler that has looked up its charger
    sequence,    \* status_sequence of the charger's connector
    reports,     \* connector.status.updated facts, with who sent them over what
    job,         \* a reconciliation of a charger's configuration, for a generation
    orphaned,    \* connections whose entry was removed by another one's disconnect
    syncs

memory == <<wired, active, conn, orphaned>>
rows == <<sequence, reports>>
vars == <<enabled, memory, reporter, rows, job, syncs>>

Unused == [charger |-> None, wire |-> None, step |-> "unused"]
NoJob == [identity |-> None, generation |-> 0, pc |-> "none", key |-> 0, late |-> 0]

Init ==
    /\ enabled = [c \in Chargers |-> TRUE]
    /\ wired = [w \in Wires |-> None]
    /\ active = [i \in Wires |-> 0]
    /\ conn = [k \in Conns |-> Unused]
    /\ reporter = None
    /\ sequence = [c \in Chargers |-> 0]
    /\ reports = {}
    /\ job = NoJob
    /\ orphaned = {}
    /\ syncs = 0

\* The wire identity that a request for a charger is sent to: any that maps to
\* it, as the order of a Go map is.
wireIdentityFor(i) ==
    LET found == {w \in Wires : wired[w] = i} IN IF found = {} THEN {i} ELSE found

canonicalIdentity(w) == IF wired[w] = None THEN w ELSE wired[w]
Step(k, step) == conn' = [conn EXCEPT ![k].step = step]
Close(k) == conn' = [conn EXCEPT ![k] = [Unused EXCEPT !.step = "closed"]]

\* CMS enables or disables a charger.  Nothing closes its connections.
SyncV1Mapping(c) ==
    /\ syncs < MaxSyncs
    /\ syncs' = syncs + 1
    /\ enabled' = [enabled EXCEPT ![c] = ~@]
    /\ UNCHANGED <<memory, reporter, rows, job>>

----------------------------------------------------------------------------
(* Connections.                                                             *)

\* Mutant: the latest dialer takes the wire identity over.
RememberLatest(w, c) == wired' = [wired EXCEPT ![w] = c]

rememberWireIdentity(w, c) ==
    /\ wired[w] \in {None, c}
    /\ wired' = [wired EXCEPT ![w] = c]

\* The last segment of /identity or /identity/serial.
parseChargerIdentityPath(c) == {c} \cup Serials
ValidateV1ChargerAdmission(c) == enabled[c]

\* The handshake of an enabled charger; a refused one leaves nothing behind.
validateIncomingCharger(k, c, w) ==
    /\ conn[k].step = "unused"
    /\ \A j \in Conns : j < k => conn[j].step # "unused"
    /\ w \in parseChargerIdentityPath(c)
    /\ ValidateV1ChargerAdmission(c)
    /\ rememberWireIdentity(w, c)
    /\ conn' = [conn EXCEPT ![k] = [charger |-> c, wire |-> w, step |-> "admitted"]]
    /\ UNCHANGED <<enabled, active, orphaned, reporter, rows, job, syncs>>

\* The library fails to upgrade the connection, or refuses it as a duplicate.
UpgradeFails(k) ==
    /\ conn[k].step = "admitted"
    /\ Close(k)
    /\ UNCHANGED <<enabled, wired, active, orphaned, reporter, rows, job, syncs>>

\* The new charge point handler registers what the map says now.
NewChargePoint(k) ==
    /\ conn[k].step = "admitted"
    /\ Step(k, "open")
    /\ active' = [active EXCEPT ![canonicalIdentity(conn[k].wire)] = k]
    /\ UNCHANGED <<enabled, wired, orphaned, reporter, rows, job, syncs>>

\* The disconnect handler asks the map again, and returns if the connection is
\* not the registered one.
ChargePointDisconnected(k) ==
    LET identity == canonicalIdentity(conn[k].wire) IN
    /\ conn[k].step = "open"
    /\ IF active[identity] = k
       THEN Step(k, "closing") /\ active' = [active EXCEPT ![identity] = 0]
       ELSE Close(k) /\ UNCHANGED active
    /\ UNCHANGED <<enabled, wired, orphaned, reporter, rows, job, syncs>>

\* ... and removes the entry after it has written to the database.
forgetWireIdentity(k) ==
    LET w == conn[k].wire IN
    /\ conn[k].step = "closing"
    /\ Close(k)
    /\ wired' = [wired EXCEPT ![w] = None]
    /\ orphaned' = orphaned \cup {j \in Conns : conn[j].wire = w
                                                 /\ conn[j].step \in {"admitted", "open"}}
    /\ UNCHANGED <<enabled, active, reporter, rows, job, syncs>>

----------------------------------------------------------------------------
(* StatusNotification.                                                      *)

OnStatusNotification(k) ==
    /\ conn[k].step = "open"
    /\ reporter = None
    /\ Cardinality(reports) < MaxStatus
    /\ reporter' = [identity |-> canonicalIdentity(conn[k].wire), from |-> conn[k].charger,
                    lost |-> k \in orphaned]
    /\ UNCHANGED <<enabled, memory, rows, job, syncs>>

\* The row and its fact, if the identity is mapped and enabled.  Otherwise, or
\* when the transaction fails, nothing is stored.
RecordV1ConnectorStatus ==
    LET c == reporter.identity IN
    /\ reporter # None
    /\ reporter' = None
    /\ \/ /\ c \in Chargers /\ enabled[c]
          /\ sequence' = [sequence EXCEPT ![c] = @ + 1]
          /\ reports' = reports \cup {[charger |-> c, sequence |-> sequence[c] + 1,
                                   from |-> reporter.from, lost |-> reporter.lost]}
       \/ UNCHANGED rows
    /\ UNCHANGED <<enabled, memory, job, syncs>>

----------------------------------------------------------------------------
(* BootNotification and the configuration of the charger.                   *)

connectionGenerationCurrent == active[job.identity] = job.generation
Job(pc, key) == job' = [job EXCEPT !.pc = pc, !.key = key]
Done(late) == job' = [NoJob EXCEPT !.pc = "done", !.late = late]

\* A boot of any open connection reconciles for the current one.  One
\* reconciliation is followed.
OnBootNotification(k) ==
    LET identity == canonicalIdentity(conn[k].wire) IN
    /\ conn[k].step = "open"
    /\ active[identity] # 0
    /\ job = NoJob
    /\ job' = [job EXCEPT !.identity = identity, !.generation = active[identity], !.pc = "get"]
    /\ UNCHANGED <<enabled, memory, reporter, rows, syncs>>

\* Mutant: only the first look is taken.
CheckOnce == connectionGenerationCurrent \/ job.key > 0

\* The look before each request.
current == connectionGenerationCurrent

\* Before GetConfiguration.
reconcileConfiguration ==
    /\ job.pc = "get"
    /\ IF current THEN Job("getting", 0) ELSE Done(job.late)
    /\ UNCHANGED <<enabled, memory, reporter, rows, syncs>>

\* A request goes out, whoever is connected by then.
Late == IF connectionGenerationCurrent THEN job.late ELSE job.late + 1
NextKey(key) == job' = [job EXCEPT !.pc = "keys", !.key = key, !.late = Late]

GetConfiguration ==
    /\ job.pc = "getting"
    /\ NextKey(1) \/ Done(Late)
    /\ UNCHANGED <<enabled, memory, reporter, rows, syncs>>

\* The next key: its value has to be changed, or it is unsupported, read-only
\* or current already.
reconcileKey ==
    /\ job.pc = "keys"
    /\ IF job.key > NumKeys \/ ~current THEN Done(job.late)
       ELSE Job("changing", job.key) \/ Job("keys", job.key + 1)
    /\ UNCHANGED <<enabled, memory, reporter, rows, syncs>>

\* Accepted, rejected or failed, the next key follows.
ChangeConfiguration ==
    /\ job.pc = "changing"
    /\ NextKey(job.key + 1)
    /\ UNCHANGED <<enabled, memory, reporter, rows, syncs>>

----------------------------------------------------------------------------
Next ==
    \/ \E c \in Chargers : SyncV1Mapping(c)
    \/ \E k \in Conns :
          \/ \E c \in Chargers, w \in Wires : validateIncomingCharger(k, c, w)
          \/ UpgradeFails(k) \/ NewChargePoint(k)
          \/ ChargePointDisconnected(k) \/ forgetWireIdentity(k)
          \/ OnStatusNotification(k) \/ OnBootNotification(k)
    \/ RecordV1ConnectorStatus
    \/ reconcileConfiguration \/ GetConfiguration \/ reconcileKey \/ ChangeConfiguration

Spec == Init /\ [][Next]_vars

----------------------------------------------------------------------------
(* Properties.                                                              *)

\* What HAL knows of a charger came from that charger, although connections
\* share wire identities and look them up anew in every handler: the registered
\* connection is its own, so is every published status, and no request for it
\* reaches another charger's connection.  There are two exceptions.  A connection
\* that has lost its entry to the disconnect handler of an earlier one may be
\* taken for another charger's, but no other connection is.  And a request for a
\* charger without an entry goes to the wire identity of its own name, which
\* another charger may have dialled with as its serial.
OwnEvidence ==
    /\ \A c \in Chargers : active[c] \notin {0} \cup orphaned => conn[active[c]].charger = c
    /\ \A f \in reports : f.from = f.charger \/ f.lost
    /\ \A k \in Conns \ orphaned, c \in Chargers :
          conn[k].step = "open" /\ conn[k].wire \in wireIdentityFor(c) =>
             \/ conn[k].charger = c
             \/ conn[k].wire = c /\ \A w \in Wires : wired[w] # c

\* "Superseded": at most one request of a reconciliation, the one already
\* decided upon, goes out after its connection was replaced or closed.
OneLateRequest == job.late <= 1
=============================================================================
