--------------------------- MODULE ReportsProofs ---------------------------
(***************************************************************************)
(* Proofs about what HAL records of its chargers: Admission, Telemetry and *)
(* ChargingTrace, for any chargers, serials, sessions, handlers, workers,  *)
(* readings and bounds.                                                    *)
(***************************************************************************)
EXTENDS Reports, TLAPS

----------------------------------------------------------------------------
(* Admission.                                                               *)

Steps == {"unused", "admitted", "open", "closing", "closed"}

\* Connection k has been registered, now or earlier.
Begun(k) == conn[k].step \notin {"unused", "admitted"}

\* Values of the map, of the tracker and of the connections; only a connection
\* that has been registered is in the tracker.
ConnInv ==
    /\ wired \in [A!Wires -> Chargers \cup {None}]
    /\ active \in [A!Wires -> A!Conns \cup {0}]
    /\ conn \in [A!Conns -> [charger : Chargers \cup {None}, wire : A!Wires \cup {None},
                           step : Steps]]
    /\ \A k \in A!Conns : conn[k].step \in {"admitted", "open", "closing"} =>
                           conn[k].wire \in A!Wires
    /\ \A i \in A!Wires : active[i] # 0 => Begun(active[i])

JobType ==
    [identity : A!Wires \cup {None}, generation : A!Conns \cup {0},
     pc : {"none", "get", "getting", "keys", "changing", "done"}, key : Int,
     late : {0, 1}]

\* A reconciliation runs for a connection that has been registered, and once a
\* request of it was late its connection is not the current one.
JobInv ==
    /\ job.pc \in {"get", "getting", "keys", "changing"} =>
          job.identity \in A!Wires /\ job.generation \in A!Conns /\ Begun(job.generation)
    /\ job.pc \in {"none", "get", "getting", "changing"} => job.late = 0
    /\ job.pc = "keys" /\ job.late = 1 => ~A!connectionGenerationCurrent
    /\ job \in JobType

\* The map names the charger of every connection that has kept its entry, the
\* tracker has such connections under their own chargers, and so are the status
\* facts that they report, those in the making included.
Entered(k) == conn[k].charger \in Chargers /\ wired[conn[k].wire] = conn[k].charger
Registered(k, i) == conn[k].step = "open" /\ conn[k].charger = i
OwnInv ==
    /\ \A k \in A!Conns \ orphaned : conn[k].step \in {"admitted", "open"} => Entered(k)
    /\ \A i \in A!Wires : active[i] \notin {0} \cup orphaned => Registered(active[i], i)
    /\ reporter # None => reporter.identity = reporter.from \/ reporter.lost
    /\ \A f \in reports : f.from = f.charger \/ f.lost

AdmissionInv == ConnInv /\ JobInv /\ OwnInv

LEMMA AdmissionInit == ASSUME A!Named, A!Init PROVE AdmissionInv
  BY DEF A!Init, AdmissionInv, ConnInv, JobInv, JobType, OwnInv, A!Unused, A!NoJob, Steps

----------------------------------------------------------------------------
(* The map, the tracker and the connections.                                *)

LEMMA CanonicalType ==
  ASSUME ConnInv, NEW w \in A!Wires
  PROVE  A!canonicalIdentity(w) \in A!Wires
  BY DEF ConnInv, A!canonicalIdentity, A!Wires

\* What a step may do to connection k: from "open" on it only goes forward.
LEMMA CloseType ==
  ASSUME ConnInv, NEW k \in A!Conns, A!Close(k)
  PROVE  /\ conn' \in [A!Conns -> [charger : Chargers \cup {None},
                                 wire : A!Wires \cup {None}, step : Steps]]
         /\ conn'[k].step = "closed"
         /\ \A j \in A!Conns : j # k => conn'[j] = conn[j]
  BY DEF ConnInv, A!Close, A!Unused, Steps

LEMMA StepType ==
  ASSUME ConnInv, NEW k \in A!Conns, NEW s \in Steps, A!Step(k, s)
  PROVE  /\ conn' \in [A!Conns -> [charger : Chargers \cup {None},
                                 wire : A!Wires \cup {None}, step : Steps]]
         /\ conn'[k].step = s /\ conn'[k].wire = conn[k].wire
         /\ conn'[k].charger = conn[k].charger
         /\ \A j \in A!Conns : j # k => conn'[j] = conn[j]
  BY DEF ConnInv, A!Step, Steps

\* No step registers a connection that has been registered before.
NeverAgain ==
    \A g \in A!Conns : Begun(g) =>
        Begun(g)' /\ \A i \in A!Wires : active[i] # g => active'[i] # g

LEMMA ConnStep ==
  ASSUME A!Named, ConnInv, [A!Next]_A!vars
  PROVE  ConnInv' /\ NeverAgain
  <1> USE DEF A!memory, A!rows
  <1>0. \A k \in A!Conns : k \in Int /\ k # 0
    BY DEF A!Named, A!Conns
  <1>1. ASSUME NEW k \in A!Conns, NEW c \in Chargers, NEW w \in A!Wires,
               A!validateIncomingCharger(k, c, w)
        PROVE  ConnInv' /\ NeverAgain
    <2>1. /\ conn'[k] = [charger |-> c, wire |-> w, step |-> "admitted"]
          /\ \A j \in A!Conns : j # k => conn'[j] = conn[j]
          /\ ~Begun(k)
      BY <1>1 DEF A!validateIncomingCharger, ConnInv, Begun
    <2>2. conn' \in [A!Conns -> [charger : Chargers \cup {None},
                               wire : A!Wires \cup {None}, step : Steps]]
      BY <1>1 DEF A!validateIncomingCharger, ConnInv, Steps
    <2>3. wired' \in [A!Wires -> Chargers \cup {None}] /\ active' = active
      BY <1>1 DEF A!validateIncomingCharger, A!rememberWireIdentity, ConnInv
    <2>4. QED
      BY <2>1, <2>2, <2>3 DEF ConnInv, NeverAgain, Begun
  <1>2. ASSUME NEW k \in A!Conns, A!UpgradeFails(k) PROVE ConnInv' /\ NeverAgain
    <2>1. wired' = wired /\ active' = active /\ A!Close(k)
      BY <1>2 DEF A!UpgradeFails
    <2>2. QED
      BY <2>1, CloseType DEF ConnInv, NeverAgain, Begun
  <1>3. ASSUME NEW k \in A!Conns, A!NewChargePoint(k) PROVE ConnInv' /\ NeverAgain
    <2> DEFINE i == A!canonicalIdentity(conn[k].wire)
    <2>1. i \in A!Wires /\ ~Begun(k)
      BY <1>3, CanonicalType DEF A!NewChargePoint, ConnInv, Begun
    <2>2. wired' = wired /\ active' = [active EXCEPT ![i] = k]
      BY <1>3 DEF A!NewChargePoint
    <2>3. A!Step(k, "open") /\ conn[k].wire \in A!Wires
      BY <1>3 DEF A!NewChargePoint, ConnInv
    <2> HIDE DEF i
    <2>4. QED
      BY <2>1, <2>2, <2>3, StepType DEF ConnInv, NeverAgain, Begun, Steps
  <1>4. ASSUME NEW k \in A!Conns, A!ChargePointDisconnected(k) PROVE ConnInv' /\ NeverAgain
    <2> DEFINE i == A!canonicalIdentity(conn[k].wire)
    <2>1. i \in A!Wires /\ conn[k].step = "open" /\ conn[k].wire \in A!Wires
      BY <1>4, CanonicalType DEF A!ChargePointDisconnected, ConnInv
    <2>2. CASE active[i] = k
      <3>1. A!Step(k, "closing") /\ wired' = wired /\ active' = [active EXCEPT ![i] = 0]
        BY <1>4, <2>2 DEF A!ChargePointDisconnected
      <3> HIDE DEF i
      <3>2. /\ conn' \in [A!Conns -> [charger : Chargers \cup {None},
                                      wire : A!Wires \cup {None}, step : Steps]]
            /\ conn'[k].step = "closing" /\ conn'[k].wire = conn[k].wire
            /\ \A j \in A!Conns : j # k => conn'[j] = conn[j]
        BY <3>1, StepType DEF Steps
      <3>3. \A j \in A!Conns : Begun(j) => Begun(j)'
        BY <3>2 DEF Begun
      <3>4. active' \in [A!Wires -> A!Conns \cup {0}]
            /\ \A w \in A!Wires : active'[w] \in {active[w], 0}
        BY <2>1, <3>1 DEF ConnInv
      <3>5. NeverAgain
        BY <1>0, <3>3, <3>4 DEF NeverAgain
      <3>6. \A w \in A!Wires : active'[w] # 0 =>
                                  conn'[active'[w]].step \notin {"unused", "admitted"}
        <4> SUFFICES ASSUME NEW w \in A!Wires, active'[w] # 0
                     PROVE  conn'[active'[w]].step \notin {"unused", "admitted"}
          OBVIOUS
        <4>1. active'[w] = active[w] /\ active[w] \in A!Conns /\ Begun(active[w])
          BY <3>4 DEF ConnInv
        <4>2. QED
          BY <3>3, <4>1 DEF Begun
      <3>7. \A j \in A!Conns : conn'[j].step \in {"admitted", "open", "closing"} =>
                                  conn'[j].wire \in A!Wires
        BY <2>1, <3>2 DEF ConnInv
      <3>8. QED
        BY <3>1, <3>2, <3>4, <3>5, <3>6, <3>7 DEF ConnInv, Begun
    <2>3. CASE active[i] # k
      <3>1. A!Close(k) /\ wired' = wired /\ active' = active
        BY <1>4, <2>3 DEF A!ChargePointDisconnected
      <3>2. QED
        BY <3>1, CloseType DEF ConnInv, NeverAgain, Begun
    <2>4. QED
      BY <2>2, <2>3
  <1>5. ASSUME NEW k \in A!Conns, A!forgetWireIdentity(k) PROVE ConnInv' /\ NeverAgain
    <2>1. A!Close(k) /\ active' = active
      BY <1>5 DEF A!forgetWireIdentity
    <2>2. wired' \in [A!Wires -> Chargers \cup {None}]
      BY <1>5 DEF A!forgetWireIdentity, ConnInv
    <2>3. QED
      BY <2>1, <2>2, CloseType, Zenon DEF ConnInv, NeverAgain, Begun
  <1>6. CASE UNCHANGED <<wired, active, conn>>
    BY <1>6 DEF ConnInv, NeverAgain, Begun
  <1>7. QED
    BY <1>1, <1>2, <1>3, <1>4, <1>5, <1>6, Zenon DEF A!Next, A!vars, A!SyncV1Mapping,
       A!OnStatusNotification, A!OnBootNotification, A!RecordV1ConnectorStatus,
       A!reconcileConfiguration, A!GetConfiguration, A!reconcileKey, A!ChangeConfiguration

----------------------------------------------------------------------------
(* The reconciliation.                                                      *)

\* While the connections change, a reconciliation that was late stays late.
LEMMA JobKept ==
  ASSUME ConnInv, JobInv, NeverAgain, UNCHANGED job
  PROVE  JobInv'
  BY DEF JobInv, NeverAgain, A!connectionGenerationCurrent

LEMMA NoJobType == A!NoJob \in JobType
  BY DEF A!NoJob, JobType

LEMMA JobMoves ==
  ASSUME job \in JobType, NEW key \in Int, NEW p \in {"getting", "keys", "changing"},
         A!Job(p, key)
  PROVE  /\ job'.pc = p /\ job'.late = job.late
         /\ job'.identity = job.identity /\ job'.generation = job.generation
         /\ job' \in JobType
  BY Zenon DEF A!Job, JobType

LEMMA JobEnds ==
  ASSUME NEW j \in JobType, NEW l \in {0, 1}
  PROVE  [j EXCEPT !.pc = "done", !.late = l] \in JobType
  BY Zenon DEF JobType

LEMMA JobBegins ==
  ASSUME NEW j \in JobType, NEW i \in A!Wires, NEW g \in A!Conns
  PROVE  [j EXCEPT !.identity = i, !.generation = g, !.pc = "get"] \in JobType
  BY Zenon DEF JobType

LEMMA JobStep ==
  ASSUME A!Named, ConnInv, JobInv, [A!Next]_A!vars
  PROVE  JobInv'
  <1> USE DEF A!memory
  <1>0. NeverAgain
    BY ConnStep
  <1>1. ASSUME NEW k \in A!Conns, A!OnBootNotification(k) PROVE JobInv'
    <2> DEFINE i == A!canonicalIdentity(conn[k].wire)
    <2>1. i \in A!Wires /\ active[i] # 0
      BY <1>1, CanonicalType DEF A!OnBootNotification, ConnInv
    <2>2. active[i] \in A!Conns /\ Begun(active[i])
      BY <2>1 DEF ConnInv
    <2>3. job' = [A!NoJob EXCEPT !.identity = i, !.generation = active[i], !.pc = "get"]
      BY <1>1 DEF A!OnBootNotification
    <2>4. conn' = conn
      BY <1>1 DEF A!OnBootNotification
    <2> HIDE DEF i
    <2>5. /\ job'.pc = "get" /\ job'.late = 0
          /\ job'.identity = i /\ job'.generation = active[i]
      BY <2>3 DEF A!NoJob
    <2>6. job' \in JobType
      BY <2>1, <2>2, <2>3, NoJobType, JobBegins, Zenon
    <2>7. QED
      BY <2>1, <2>2, <2>4, <2>5, <2>6 DEF JobInv, Begun
  <1>2. ASSUME NEW l \in {0, 1}, A!Done(l) PROVE JobInv'
    <2>1. job'.pc = "done"
      BY <1>2 DEF A!Done, A!NoJob
    <2>2. job' \in JobType
      BY <1>2, NoJobType, JobEnds, Zenon DEF A!Done
    <2>3. QED
      BY <2>1, <2>2 DEF JobInv
  <1>3. CASE A!reconcileConfiguration
    <2>0. job \in JobType
      BY DEF JobInv
    <2>1. job.late \in {0, 1} /\ conn' = conn
      BY <1>3 DEF A!reconcileConfiguration, JobInv, JobType
    <2>2. CASE A!Job("getting", 0)
      <3>1. /\ job'.pc = "getting" /\ job'.late = job.late
            /\ job'.identity = job.identity /\ job'.generation = job.generation
            /\ job' \in JobType
        BY <2>2, <2>0, JobMoves
      <3>2. job.pc = "get"
        BY <1>3 DEF A!reconcileConfiguration
      <3>3. QED
        BY <2>1, <3>1, <3>2 DEF JobInv, Begun
    <2>3. QED
      BY <1>2, <1>3, <2>1, <2>2 DEF A!reconcileConfiguration
  <1>4. ASSUME job.pc \in {"getting", "changing"}, NEW key \in Int,
               A!NextKey(key), UNCHANGED <<active, conn>>
        PROVE  JobInv'
    <2>1. A!Late \in {0, 1} /\ (A!Late = 1 => ~A!connectionGenerationCurrent)
      BY <1>4 DEF JobInv, JobType, A!Late
    <2>2. /\ job'.pc = "keys" /\ job'.late = A!Late
          /\ job'.identity = job.identity /\ job'.generation = job.generation
          /\ job' \in JobType
      BY <1>4, <2>1, Zenon DEF A!NextKey, JobInv, JobType
    <2>3. QED
      BY <1>4, <2>1, <2>2 DEF JobInv, Begun, A!connectionGenerationCurrent
  <1>5. CASE A!GetConfiguration
    <2>1. job.pc = "getting" /\ UNCHANGED <<active, conn>>
      BY <1>5 DEF A!GetConfiguration
    <2>2. A!Late \in {0, 1}
      BY <2>1 DEF JobInv, JobType, A!Late
    <2>3. QED
      BY <1>2, <1>4, <1>5, <2>1, <2>2 DEF A!GetConfiguration
  <1>6. CASE A!reconcileKey
    <2>0. job \in JobType /\ job.key \in Int /\ job.key + 1 \in Int
      BY DEF JobInv, JobType
    <2>1. job.late \in {0, 1} /\ job.pc = "keys" /\ UNCHANGED <<active, conn>>
      BY <1>6 DEF A!reconcileKey, JobInv, JobType
    <2>2. CASE A!Done(job.late)
      BY <1>2, <2>1, <2>2
    <2>3. CASE A!current /\ (A!Job("changing", job.key) \/ A!Job("keys", job.key + 1))
      <3>1. job.late = 0
        BY <2>1, <2>3 DEF JobInv, JobType, A!current
      <3>2. /\ job'.pc \in {"changing", "keys"} /\ job'.late = job.late
            /\ job'.identity = job.identity /\ job'.generation = job.generation
            /\ job' \in JobType
        BY <2>3, <2>0, JobMoves
      <3>3. QED
        BY <2>1, <3>1, <3>2 DEF JobInv, Begun
    <2>4. QED
      BY <1>6, <2>2, <2>3 DEF A!reconcileKey
  <1>7. CASE A!ChangeConfiguration
    <2>1. job.key + 1 \in Int
      BY DEF JobInv, JobType
    <2>2. QED
      BY <1>4, <1>7, <2>1 DEF A!ChangeConfiguration
  <1>8. CASE UNCHANGED job
    BY <1>0, <1>8, JobKept
  <1>9. QED
    BY <1>1, <1>3, <1>5, <1>6, <1>7, <1>8 DEF A!Next, A!vars, A!SyncV1Mapping,
       A!validateIncomingCharger, A!UpgradeFails, A!NewChargePoint,
       A!ChargePointDisconnected, A!forgetWireIdentity, A!OnStatusNotification,
       A!RecordV1ConnectorStatus

----------------------------------------------------------------------------
(* Own evidence.                                                            *)

\* The map answers with the charger of a connection that has kept its entry.
LEMMA CanonicalOwn ==
  ASSUME A!Named, OwnInv, NEW k \in A!Conns \ orphaned,
         conn[k].step \in {"admitted", "open"}
  PROVE  /\ A!canonicalIdentity(conn[k].wire) = conn[k].charger
         /\ conn[k].charger \in Chargers /\ conn[k].charger \in A!Wires
  BY DEF A!Named, OwnInv, Entered, A!canonicalIdentity, A!Wires

LEMMA OwnStep ==
  ASSUME A!Named, ConnInv, OwnInv, [A!Next]_A!vars
  PROVE  OwnInv'
  <1> USE DEF A!memory, A!rows
  <1>0. \A k \in A!Conns : k \in Int /\ k # 0
    BY DEF A!Named, A!Conns
  <1>1. ASSUME NEW k \in A!Conns, NEW c \in Chargers, NEW w \in A!Wires,
               A!validateIncomingCharger(k, c, w)
        PROVE  OwnInv'
    <2>1. UNCHANGED <<orphaned, active, reporter, reports>>
      BY <1>1 DEF A!validateIncomingCharger
    <2>2. /\ conn'[k] = [charger |-> c, wire |-> w, step |-> "admitted"]
          /\ \A j \in A!Conns : j # k => conn'[j] = conn[j]
          /\ ~Begun(k)
      BY <1>1 DEF A!validateIncomingCharger, ConnInv, Begun
    <2>3. /\ wired'[w] = c /\ wired[w] \in {None, c}
          /\ \A v \in A!Wires : v # w => wired'[v] = wired[v]
      BY <1>1 DEF A!validateIncomingCharger, A!rememberWireIdentity, ConnInv
    <2>4. ASSUME NEW j \in A!Conns \ orphaned, conn'[j].step \in {"admitted", "open"}
          PROVE  conn'[j].charger \in Chargers /\ wired'[conn'[j].wire] = conn'[j].charger
      <3>1. CASE j = k
        BY <2>2, <2>3, <3>1
      <3>2. CASE j # k
        <4>1. conn'[j] = conn[j] /\ conn[j].wire \in A!Wires
          BY <2>2, <2>4, <3>2 DEF ConnInv
        <4>2. /\ conn[j].charger \in Chargers /\ conn[j].charger # None
              /\ wired[conn[j].wire] = conn[j].charger
          BY <2>4, <4>1 DEF OwnInv, Entered, A!Named, A!Wires
        <4>3. QED
          BY <2>3, <4>1, <4>2
      <3>3. QED
        BY <3>1, <3>2
    <2>5. ASSUME NEW i \in A!Wires, active[i] \notin {0} \cup orphaned
          PROVE  conn'[active[i]].step = "open" /\ conn'[active[i]].charger = i
      BY <2>2, <2>5 DEF OwnInv, Registered, ConnInv
    <2>6. QED
      BY <2>1, <2>4, <2>5 DEF OwnInv, Entered, Registered
  <1>2. ASSUME NEW k \in A!Conns, A!UpgradeFails(k) PROVE OwnInv'
    <2>1. /\ UNCHANGED <<orphaned, wired, active, reporter, reports>>
          /\ A!Close(k) /\ conn[k].step = "admitted"
      BY <1>2 DEF A!UpgradeFails
    <2>2. QED
      BY <2>1, CloseType DEF OwnInv, Entered, Registered, ConnInv
  <1>3. ASSUME NEW k \in A!Conns, A!NewChargePoint(k) PROVE OwnInv'
    <2> DEFINE own == A!canonicalIdentity(conn[k].wire)
    <2>1. /\ UNCHANGED <<orphaned, wired, reporter, reports>>
          /\ A!Step(k, "open") /\ conn[k].step = "admitted"
          /\ active' = [active EXCEPT ![own] = k]
      BY <1>3 DEF A!NewChargePoint
    <2>2. k \notin orphaned => own = conn[k].charger
      BY <2>1, CanonicalOwn
    <2> HIDE DEF own
    <2>3. ASSUME NEW i \in A!Wires, active'[i] \notin {0} \cup orphaned
          PROVE  conn'[active'[i]].step = "open" /\ conn'[active'[i]].charger = i
      <3>1. CASE i = own
        <4>1. active'[i] = k
          BY <2>1, <3>1 DEF ConnInv
        <4>2. QED
          BY <2>1, <2>2, <2>3, <3>1, <4>1, StepType DEF Steps
      <3>2. CASE i # own
        <4>1. active'[i] = active[i] /\ active[i] \in A!Conns
          BY <2>1, <2>3, <3>2 DEF ConnInv
        <4>2. conn[active[i]].step = "open" /\ conn[active[i]].charger = i
          BY <2>3, <4>1 DEF OwnInv, Registered
        <4>3. QED
          BY <2>1, <4>1, <4>2, StepType DEF Steps
      <3>3. QED
        BY <3>1, <3>2
    <2>4. QED
      BY <2>1, <2>3, StepType DEF OwnInv, Entered, Registered, Steps
  <1>4. ASSUME NEW k \in A!Conns, A!ChargePointDisconnected(k) PROVE OwnInv'
    <2> DEFINE own == A!canonicalIdentity(conn[k].wire)
    <2>1. /\ UNCHANGED <<orphaned, wired, reporter, reports>>
          /\ conn[k].step = "open"
      BY <1>4 DEF A!ChargePointDisconnected
    <2>2. k \notin orphaned => own = conn[k].charger
      BY <2>1, CanonicalOwn
    <2>3. CASE active[own] = k
      <3>1. A!Step(k, "closing") /\ active' = [active EXCEPT ![own] = 0]
        BY <1>4, <2>3 DEF A!ChargePointDisconnected
      <3> HIDE DEF own
      <3>2. ASSUME NEW i \in A!Wires, active'[i] \notin {0} \cup orphaned
            PROVE  conn'[active'[i]].step = "open" /\ conn'[active'[i]].charger = i
        <4>1. i # own /\ active'[i] = active[i] /\ active[i] \in A!Conns
          BY <3>1, <3>2 DEF ConnInv
        <4>2. conn[active[i]].step = "open" /\ conn[active[i]].charger = i
          BY <3>2, <4>1 DEF OwnInv, Registered
        <4>3. active[i] # k
          BY <2>2, <3>2, <4>1, <4>2
        <4>4. QED
          BY <3>1, <4>1, <4>2, <4>3, StepType DEF Steps
      <3>3. QED
        BY <2>1, <3>1, <3>2, StepType DEF OwnInv, Entered, Registered, Steps
    <2>4. CASE active[own] # k
      <3>1. A!Close(k) /\ active' = active
        BY <1>4, <2>4 DEF A!ChargePointDisconnected
      <3> HIDE DEF own
      <3>2. \A i \in A!Wires : active[i] \notin {0} \cup orphaned => active[i] # k
        BY <2>2, <2>4 DEF OwnInv, Registered
      <3>3. QED
        BY <2>1, <3>1, <3>2, CloseType DEF OwnInv, Entered, Registered, ConnInv
    <2>5. QED
      BY <2>3, <2>4
  <1>5. ASSUME NEW k \in A!Conns, A!forgetWireIdentity(k) PROVE OwnInv'
    <2> DEFINE w == conn[k].wire
    <2>1. /\ UNCHANGED <<active, reporter, reports>>
          /\ A!Close(k) /\ conn[k].step = "closing"
          /\ orphaned \subseteq orphaned'
          /\ \A j \in A!Conns \ orphaned' :
                conn[j].step \in {"admitted", "open"} => conn[j].wire # w
      BY <1>5 DEF A!forgetWireIdentity
    <2>2. \A v \in A!Wires : v # w => wired'[v] = wired[v]
      BY <1>5 DEF A!forgetWireIdentity, ConnInv
    <2> HIDE DEF w
    <2>3. ASSUME NEW j \in A!Conns \ orphaned', conn'[j].step \in {"admitted", "open"}
          PROVE  conn'[j].charger \in Chargers /\ wired'[conn'[j].wire] = conn'[j].charger
      <3>1. conn'[j] = conn[j] /\ conn[j].wire \in A!Wires
        BY <2>1, <2>3, CloseType DEF ConnInv
      <3>2. QED
        BY <2>1, <2>2, <2>3, <3>1 DEF OwnInv, Entered
    <2>4. ASSUME NEW i \in A!Wires, active'[i] \notin {0} \cup orphaned'
          PROVE  conn'[active'[i]].step = "open" /\ conn'[active'[i]].charger = i
      <3>1. conn[active[i]].step = "open" /\ conn[active[i]].charger = i
        BY <2>1, <2>4 DEF OwnInv, Registered
      <3>2. active[i] \in A!Conns /\ active[i] # k
        BY <2>1, <2>4, <3>1 DEF ConnInv
      <3>3. QED
        BY <2>1, <3>1, <3>2, CloseType
    <2>5. QED
      BY <2>1, <2>3, <2>4 DEF OwnInv, Entered, Registered
  <1>6. ASSUME NEW k \in A!Conns, A!OnStatusNotification(k) PROVE OwnInv'
    <2>1. conn[k].step = "open" /\ UNCHANGED <<orphaned, wired, active, conn, reports>>
      BY <1>6 DEF A!OnStatusNotification
    <2>2. /\ reporter'.identity = A!canonicalIdentity(conn[k].wire)
          /\ reporter'.from = conn[k].charger /\ (k \in orphaned => reporter'.lost)
      BY <1>6 DEF A!OnStatusNotification
    <2>3. reporter'.identity = reporter'.from \/ reporter'.lost
      BY <2>1, <2>2, CanonicalOwn
    <2>4. QED
      BY <2>1, <2>3 DEF OwnInv, Entered, Registered
  <1>7. CASE A!RecordV1ConnectorStatus
    <2>1. UNCHANGED <<orphaned, wired, active, conn>> /\ reporter' = None
      BY <1>7 DEF A!RecordV1ConnectorStatus
    <2>2. reporter.identity = reporter.from \/ reporter.lost
      BY <1>7 DEF A!RecordV1ConnectorStatus, OwnInv
    <2>3. \A f \in reports' : f.from = f.charger \/ f.lost
      BY <1>7, <2>2 DEF A!RecordV1ConnectorStatus, OwnInv
    <2>4. QED
      BY <2>1, <2>3 DEF OwnInv, Entered, Registered
  <1>8. CASE UNCHANGED <<wired, active, conn, orphaned, reporter, reports>>
    BY <1>8 DEF OwnInv, Entered, Registered
  <1>9. QED
    BY <1>1, <1>2, <1>3, <1>4, <1>5, <1>6, <1>7, <1>8, Zenon DEF A!Next, A!vars,
       A!SyncV1Mapping, A!OnBootNotification, A!reconcileConfiguration,
       A!GetConfiguration, A!reconcileKey, A!ChangeConfiguration

\* The conditions of OwnEvidence, the way out included: an entry that names a
\* charger is the one of its own connection.
LEMMA InvOwn == ASSUME A!Named, ConnInv, OwnInv PROVE A!OwnEvidence
  <1>1. \A c \in Chargers : active[c] \notin {0} \cup orphaned => conn[active[c]].charger = c
    BY DEF OwnInv, Registered, A!Wires
  <1>2. ASSUME NEW k \in A!Conns \ orphaned, NEW c \in Chargers, conn[k].step = "open",
               conn[k].wire \in A!wireIdentityFor(c)
        PROVE  \/ conn[k].charger = c
               \/ conn[k].wire = c /\ \A w \in A!Wires : wired[w] # c
    <2>1. conn[k].wire \in A!Wires /\ wired[conn[k].wire] = conn[k].charger
      BY <1>2 DEF ConnInv, OwnInv, Entered
    <2>2. QED
      BY <1>2, <2>1 DEF A!wireIdentityFor
  <1>3. QED
    BY <1>1, <1>2 DEF OwnInv, A!OwnEvidence

----------------------------------------------------------------------------
LEMMA AdmissionStep == ASSUME A!Named, AdmissionInv, [A!Next]_A!vars PROVE AdmissionInv'
  BY ConnStep, JobStep, OwnStep DEF AdmissionInv

LEMMA AdmissionInductive == A!Spec => []AdmissionInv
  <1>1. A!Init => AdmissionInv
    BY AdmissionInit, ReportsAssumption
  <1>2. AdmissionInv /\ [A!Next]_A!vars => AdmissionInv'
    BY AdmissionStep, ReportsAssumption
  <1>3. QED
    BY <1>1, <1>2, PTL DEF A!Spec

\* For any number of chargers, serials and connections, serials that are other
\* chargers' identities included, what HAL knows of a charger came from that
\* charger.  A connection that has lost its entry in wiredIdentity is excepted,
\* by itself; and a request for a charger without an entry may reach the one
\* that dialled with its name as serial (wireIdentityFor).
THEOREM Own == A!Spec => []OwnEvidence
  <1>1. AdmissionInv => OwnEvidence
    BY InvOwn, ReportsAssumption DEF AdmissionInv, OwnEvidence
  <1>2. QED
    BY <1>1, AdmissionInductive, PTL

\* However connections come and go, a reconciliation sends at most one request
\* after its connection was replaced or closed.
THEOREM LateRequest == A!Spec => []OneLateRequest
  <1>1. AdmissionInv => OneLateRequest
    BY DEF AdmissionInv, JobInv, JobType, OneLateRequest, A!OneLateRequest
  <1>2. QED
    BY <1>1, AdmissionInductive, PTL

----------------------------------------------------------------------------
(* Telemetry.                                                               *)

FactRows ==
    [type : {"transaction.meter", "transaction.soc"}, seq : Nat, value : Int \cup SoC, at : Int]

TelemetryType ==
    /\ meter \in [wh : Int \cup {Null}, at : Int \cup {Null}, seq : Nat]
    /\ soc \in [initial : SoC \cup {Null}, latest : SoC \cup {Null},
                at : Int \cup {Null}, seq : Nat]
    /\ facts \subseteq FactRows

\* The meter column dates and bounds the meter facts, and the last of them is its
\* value until the completion replaces it.
MeterInv ==
    /\ meter.wh # Null => meter.at # Null /\ meter.wh >= MeterStart
    /\ meter.at # Null => meter.wh # Null
    /\ \A f \in MeterFacts :
          /\ f.seq \in 1..meter.seq /\ f.value \in Int
          /\ meter.at # Null /\ f.at <= meter.at
          /\ completion = Null /\ f.seq = meter.seq => f.value = meter.wh
    /\ \A n \in 1..meter.seq : \E f \in MeterFacts : f.seq = n
    /\ \A f, g \in MeterFacts : f.seq <= g.seq => f.at <= g.at

SoCInv ==
    /\ soc.seq = 0 => soc.initial = Null
    /\ soc.seq > 0 => soc.initial # Null
    /\ \A f \in SoCFacts :
          /\ f.seq \in 1..soc.seq
          /\ soc.at # Null /\ f.at <= soc.at
          /\ f.seq = 1 => soc.initial = f.value
    /\ \A n \in 1..soc.seq : \E f \in SoCFacts : f.seq = n
    /\ \A f, g \in SoCFacts : f.seq < g.seq => f.at < g.at

\* No number is used twice.
NumbersDiffer == \A f, g \in facts : f.type = g.type /\ f.seq = g.seq => f = g

TelemetryInv ==
    /\ TelemetryType /\ MeterInv /\ SoCInv /\ NumbersDiffer
    /\ LimitRequestsStop /\ FinalMeterCovers

\* The facts that an accepted sample publishes.
MeterFact == [type |-> "transaction.meter", seq |-> meter'.seq, value |-> meter'.wh, at |-> meter'.at]
SoCFact == [type |-> "transaction.soc", seq |-> soc'.seq, value |-> soc'.latest, at |-> soc'.at]

LEMMA TelemetryInit == ASSUME Columns, Init PROVE TelemetryInv
  <1>1. facts = {}
    BY DEF Init
  <1>2. TelemetryType
    BY <1>1 DEF Init, TelemetryType
  <1>3. MeterFacts = {} /\ SoCFacts = {}
    BY <1>1 DEF MeterFacts, SoCFacts
  <1>4. MeterInv /\ SoCInv /\ NumbersDiffer
    BY <1>1, <1>3 DEF Init, MeterInv, SoCInv, NumbersDiffer
  <1>5. LimitRequestsStop /\ FinalMeterCovers
    BY <1>3 DEF Init, LimitRequestsStop, FinalMeterCovers
  <1>6. QED
    BY <1>2, <1>4, <1>5 DEF TelemetryInv

\* An energy sample changes nothing, or becomes the meter under the next number.
LEMMA EnergyStep ==
  ASSUME Columns, TelemetryType, MeterInv, NEW e \in Energy, UpdateEnergy(e)
  PROVE  \/ UNCHANGED <<meter, stop>>
         \/ /\ meter' \in [wh : Int, at : Int, seq : Nat]
            /\ meter'.seq = meter.seq + 1 /\ meter'.wh >= MeterStart
            /\ meter.at # Null => meter.at <= meter'.at
            /\ stop' = (stop \/ Reached(meter'.wh))
  <1>1. CASE e # Null /\ AcceptsEnergy(e)
    <2>1. e \in [wh : Wh, at : Times] /\ e.wh \in Int /\ e.at \in Int
      BY <1>1, Zenon DEF Energy, Columns
    <2>2. /\ meter' = [wh |-> e.wh, at |-> Later(e.at, meter.at), seq |-> meter.seq + 1]
          /\ stop' = (stop \/ Reached(e.wh)) /\ e.wh >= MeterStart
      BY <1>1 DEF UpdateEnergy, MeterWith, AcceptsEnergy
    <2>3. /\ Later(e.at, meter.at) \in Int
          /\ meter.at # Null => meter.at <= Later(e.at, meter.at)
      BY <2>1 DEF Later, TelemetryType, Columns
    <2>4. QED
      BY <2>1, <2>2, <2>3 DEF TelemetryType
  <1>2. CASE ~(e # Null /\ AcceptsEnergy(e))
    BY <1>2 DEF UpdateEnergy
  <1>3. QED
    BY <1>1, <1>2

\* A SoC sample changes nothing, or is the next one and later than all before.
LEMMA SoCStep ==
  ASSUME Columns, TelemetryType, SoCInv, NEW s \in Charge, UpdateSoC(s)
  PROVE  \/ UNCHANGED soc
         \/ /\ soc' \in [initial : SoC, latest : SoC, at : Int, seq : Nat]
            /\ soc'.seq = soc.seq + 1
            /\ soc.at # Null => soc.at < soc'.at
            /\ soc.seq = 0 => soc'.initial = soc'.latest
            /\ soc.seq > 0 => soc'.initial = soc.initial
  <1>1. CASE s # Null /\ AcceptsSoC(s)
    <2>1. s \in [value : SoC, at : Times] /\ s.value \in SoC /\ s.at \in Int
      BY <1>1, Zenon DEF Charge, Columns
    <2>2. PICK i : /\ soc' = [initial |-> i, latest |-> s.value, at |-> s.at, seq |-> soc.seq + 1]
                   /\ i = IF soc.initial = Null THEN s.value ELSE soc.initial
      BY <1>1 DEF UpdateSoC, SoCWith
    <2>3. /\ i \in SoC /\ (soc.seq = 0 => i = s.value) /\ (soc.seq > 0 => i = soc.initial)
      BY <2>1, <2>2 DEF TelemetryType, SoCInv, Columns
    <2>4. soc.at # Null => soc.at < s.at
      BY <1>1, <2>1 DEF AcceptsSoC, TelemetryType
    <2>5. QED
      BY <2>1, <2>2, <2>3, <2>4 DEF TelemetryType
  <1>2. CASE ~(s # Null /\ AcceptsSoC(s))
    BY <1>2 DEF UpdateSoC
  <1>3. QED
    BY <1>1, <1>2

\* An update publishes a fact for each part it has accepted, under a new number.
LEMMA PublishedFacts ==
  ASSUME TelemetryType, MeterInv, SoCInv, NumbersDiffer, facts' = facts \cup Published,
         \/ meter' = meter
         \/ meter' \in [wh : Int, at : Int, seq : Nat] /\ meter'.seq = meter.seq + 1,
         \/ soc' = soc
         \/ /\ soc' \in [initial : SoC, latest : SoC, at : Int, seq : Nat]
            /\ soc'.seq = soc.seq + 1
  PROVE  /\ meter' = meter => MeterFacts' = MeterFacts
         /\ meter' # meter => MeterFacts' = MeterFacts \cup {MeterFact}
         /\ soc' = soc => SoCFacts' = SoCFacts
         /\ soc' # soc => SoCFacts' = SoCFacts \cup {SoCFact}
         /\ facts' \subseteq FactRows /\ NumbersDiffer'
  <1> DEFINE M == IF meter' # meter THEN {MeterFact} ELSE {}
             S == IF soc' # soc THEN {SoCFact} ELSE {}
  <1>1. facts' = facts \cup M \cup S
    BY DEF Published, MeterFact, SoCFact
  <1>2. meter' # meter => /\ MeterFact \in FactRows /\ MeterFact.type = "transaction.meter"
                          /\ MeterFact.seq = meter.seq + 1
    BY DEF MeterFact, FactRows
  <1>3. soc' # soc => /\ SoCFact \in FactRows /\ SoCFact.type = "transaction.soc"
                      /\ SoCFact.seq = soc.seq + 1
    BY DEF SoCFact, FactRows
  <1>4. \A f \in facts : /\ f.type = "transaction.meter" => f.seq <= meter.seq
                         /\ f.type = "transaction.soc" => f.seq <= soc.seq
    BY DEF MeterInv, SoCInv, MeterFacts, SoCFacts, TelemetryType
  <1>5. \A f \in facts : f \in FactRows /\ f.seq \in Nat
    BY DEF TelemetryType, FactRows
  <1>6. meter.seq \in Nat /\ soc.seq \in Nat
    BY DEF TelemetryType
  <1>7. NumbersDiffer'
    <2> SUFFICES ASSUME NEW f \in facts', NEW g \in facts', f.type = g.type, f.seq = g.seq
                 PROVE  f = g
      BY DEF NumbersDiffer
    <2>1. CASE f \in facts /\ g \in facts
      BY <2>1 DEF NumbersDiffer
    <2>2. CASE f \in facts /\ g \notin facts
      BY <1>1, <1>2, <1>3, <1>4, <1>5, <1>6, <2>2
    <2>3. CASE f \notin facts /\ g \in facts
      BY <1>1, <1>2, <1>3, <1>4, <1>5, <1>6, <2>3
    <2>4. CASE f \notin facts /\ g \notin facts
      BY <1>1, <1>2, <1>3, <2>4
    <2>5. QED
      BY <2>1, <2>2, <2>3, <2>4
  <1>8. facts' \subseteq FactRows
    BY <1>1, <1>2, <1>3 DEF TelemetryType
  <1>9. /\ meter' = meter => MeterFacts' = MeterFacts
        /\ meter' # meter => MeterFacts' = MeterFacts \cup {MeterFact}
    BY <1>1, <1>2, <1>3 DEF MeterFacts
  <1>10. /\ soc' = soc => SoCFacts' = SoCFacts
         /\ soc' # soc => SoCFacts' = SoCFacts \cup {SoCFact}
    BY <1>1, <1>2, <1>3 DEF SoCFacts
  <1>11. QED
    BY <1>7, <1>8, <1>9, <1>10

LEMMA UpdateKeeps ==
  ASSUME Columns, TelemetryInv, NEW e \in Energy, NEW s \in Charge,
         UpdateV1TelemetryForOCPP(e, s)
  PROVE  TelemetryInv'
  <1> USE DEF TelemetryInv
  <1>0. /\ UpdateEnergy(e) /\ UpdateSoC(s) /\ facts' = facts \cup Published
        /\ completion = Null /\ completion' = Null
    BY DEF UpdateV1TelemetryForOCPP
  <1>1. \/ UNCHANGED <<meter, stop>>
        \/ /\ meter' \in [wh : Int, at : Int, seq : Nat]
           /\ meter'.seq = meter.seq + 1 /\ meter'.wh >= MeterStart
           /\ meter.at # Null => meter.at <= meter'.at
           /\ stop' = (stop \/ Reached(meter'.wh))
    BY <1>0, EnergyStep
  <1>2. \/ UNCHANGED soc
        \/ /\ soc' \in [initial : SoC, latest : SoC, at : Int, seq : Nat]
           /\ soc'.seq = soc.seq + 1
           /\ soc.at # Null => soc.at < soc'.at
           /\ soc.seq = 0 => soc'.initial = soc'.latest
           /\ soc.seq > 0 => soc'.initial = soc.initial
    BY <1>0, SoCStep
  <1>3. /\ meter' = meter => MeterFacts' = MeterFacts
        /\ meter' # meter => MeterFacts' = MeterFacts \cup {MeterFact}
        /\ soc' = soc => SoCFacts' = SoCFacts
        /\ soc' # soc => SoCFacts' = SoCFacts \cup {SoCFact}
        /\ facts' \subseteq FactRows /\ NumbersDiffer'
    BY <1>0, <1>1, <1>2, PublishedFacts
  <1>4. TelemetryType'
    BY <1>1, <1>2, <1>3 DEF TelemetryType
  <1>5. \A f \in MeterFacts \cup SoCFacts : f.seq \in Nat /\ f.at \in Int
    BY DEF MeterFacts, SoCFacts, TelemetryType, FactRows
  <1>6. MeterInv' /\ LimitRequestsStop'
    <2>1. CASE UNCHANGED <<meter, stop>>
      <3>1. MeterFacts' = MeterFacts
        BY <1>3, <2>1
      <3>2. MeterInv'
        BY <1>0, <2>1, <3>1 DEF MeterInv
      <3>3. LimitRequestsStop'
        BY <2>1, <3>1 DEF LimitRequestsStop, Reached
      <3>4. QED
        BY <3>2, <3>3
    <2>2. CASE /\ meter' \in [wh : Int, at : Int, seq : Nat]
               /\ meter'.seq = meter.seq + 1 /\ meter'.wh >= MeterStart
               /\ meter.at # Null => meter.at <= meter'.at
               /\ stop' = (stop \/ Reached(meter'.wh))
      <3> DEFINE m == MeterFact
      <3>1. /\ m.seq = meter.seq + 1 /\ m.value = meter'.wh /\ m.at = meter'.at
            /\ meter'.wh \in Int /\ meter'.at \in Int /\ meter.seq \in Nat
            /\ meter.at \in Int \cup {Null} /\ MeterStart \in Int /\ Null \notin Int
        BY <2>2 DEF MeterFact, TelemetryType, Columns
      <3>2. MeterFacts' = MeterFacts \cup {m}
        BY <1>3, <2>2, <3>1
      <3> HIDE DEF m
      <3>3. \A f \in MeterFacts :
               /\ f.seq \in 1..meter.seq /\ f.value \in Int /\ f.at \in Int
               /\ meter.at # Null /\ f.at <= meter.at
        BY <1>5 DEF MeterInv
      <3>4. \A f \in MeterFacts' :
               /\ f.seq \in 1..meter'.seq /\ f.value \in Int
               /\ meter'.at # Null /\ f.at <= meter'.at
               /\ f.seq = meter'.seq => f.value = meter'.wh
        BY <2>2, <3>1, <3>2, <3>3
      <3>5. \A n \in 1..meter'.seq : \E f \in MeterFacts' : f.seq = n
        <4> SUFFICES ASSUME NEW n \in 1..meter'.seq PROVE \E f \in MeterFacts' : f.seq = n
          OBVIOUS
        <4>1. CASE n = meter.seq + 1
          BY <3>1, <3>2, <4>1
        <4>2. CASE n \in 1..meter.seq
          BY <3>2, <4>2 DEF MeterInv
        <4>3. QED
          BY <2>2, <3>1, <4>1, <4>2
      <3>6. \A f, g \in MeterFacts' : f.seq <= g.seq => f.at <= g.at
        <4> SUFFICES ASSUME NEW f \in MeterFacts', NEW g \in MeterFacts', f.seq <= g.seq
                     PROVE  f.at <= g.at
          OBVIOUS
        <4>1. CASE g = m
          BY <3>1, <3>4, <4>1
        <4>2. CASE g # m /\ f = m
          BY <3>1, <3>2, <3>3, <4>2
        <4>3. CASE g # m /\ f # m
          BY <3>2, <4>3 DEF MeterInv
        <4>4. QED
          BY <4>1, <4>2, <4>3
      <3>7. MeterInv'
        <4>1. meter'.wh # Null /\ meter'.at # Null /\ meter'.wh >= MeterStart
          BY <2>2, <3>1
        <4>2. QED
          BY <3>4, <3>5, <3>6, <4>1 DEF MeterInv
      <3>8. LimitRequestsStop'
        <4> SUFFICES ASSUME NEW f \in MeterFacts', Reached(f.value) PROVE stop'
          BY DEF LimitRequestsStop, Reached
        <4>1. stop \/ Reached(meter'.wh)
          <5>1. CASE f = m
            BY <3>1, <5>1
          <5>2. CASE f # m
            BY <3>2, <5>2 DEF LimitRequestsStop
          <5>3. QED
            BY <5>1, <5>2
        <4>2. stop' = (stop \/ Reached(meter'.wh))
          BY <2>2
        <4>3. QED
          BY <4>1, <4>2, Zenon
      <3>9. QED
        BY <3>7, <3>8
    <2>3. QED
      BY <1>1, <2>1, <2>2
  <1>7. SoCInv'
    <2>1. CASE UNCHANGED soc
      <3>1. SoCFacts' = SoCFacts
        BY <1>3, <2>1
      <3>2. QED
        BY <2>1, <3>1 DEF SoCInv
    <2>2. CASE /\ soc' \in [initial : SoC, latest : SoC, at : Int, seq : Nat]
               /\ soc'.seq = soc.seq + 1
               /\ soc.at # Null => soc.at < soc'.at
               /\ soc.seq = 0 => soc'.initial = soc'.latest
               /\ soc.seq > 0 => soc'.initial = soc.initial
      <3> DEFINE m == SoCFact
      <3>1. /\ m.seq = soc.seq + 1 /\ m.value = soc'.latest /\ m.at = soc'.at
            /\ soc'.at \in Int /\ soc.seq \in Nat /\ soc'.initial \in SoC
            /\ soc.at \in Int \cup {Null} /\ Null \notin Int /\ Null \notin SoC
        BY <2>2 DEF SoCFact, TelemetryType, Columns
      <3>2. SoCFacts' = SoCFacts \cup {m}
        BY <1>3, <2>2, <3>1
      <3> HIDE DEF m
      <3>3. \A f \in SoCFacts :
               /\ f.seq \in 1..soc.seq /\ f.at \in Int
               /\ soc.at # Null /\ f.at <= soc.at
               /\ f.seq = 1 => soc.initial = f.value
        BY <1>5 DEF SoCInv
      <3>4. \A f \in SoCFacts' :
               /\ f.seq \in 1..soc'.seq
               /\ soc'.at # Null /\ f.at <= soc'.at
               /\ f.seq = 1 => soc'.initial = f.value
        BY <2>2, <3>1, <3>2, <3>3
      <3>5. \A n \in 1..soc'.seq : \E f \in SoCFacts' : f.seq = n
        <4> SUFFICES ASSUME NEW n \in 1..soc'.seq PROVE \E f \in SoCFacts' : f.seq = n
          OBVIOUS
        <4>1. CASE n = soc.seq + 1
          BY <3>1, <3>2, <4>1
        <4>2. CASE n \in 1..soc.seq
          BY <3>2, <4>2 DEF SoCInv
        <4>3. QED
          BY <2>2, <3>1, <4>1, <4>2
      <3>6. \A f, g \in SoCFacts' : f.seq < g.seq => f.at < g.at
        <4> SUFFICES ASSUME NEW f \in SoCFacts', NEW g \in SoCFacts', f.seq < g.seq
                     PROVE  f.at < g.at
          OBVIOUS
        <4>1. CASE g = m /\ f # m
          BY <2>2, <3>1, <3>2, <3>3, <4>1
        <4>2. CASE f = m
          BY <2>2, <3>1, <3>4, <4>2
        <4>3. CASE g # m /\ f # m
          BY <3>2, <4>3 DEF SoCInv
        <4>4. QED
          BY <4>1, <4>2, <4>3
      <3>7. QED
        <4>1. soc'.seq > 0 /\ soc'.seq # 0 /\ soc'.initial # Null
          BY <2>2, <3>1
        <4>2. QED
          BY <3>4, <3>5, <3>6, <4>1 DEF SoCInv
    <2>3. QED
      BY <1>2, <2>1, <2>2
  <1>8. FinalMeterCovers'
    BY <1>0, Zenon DEF FinalMeterCovers
  <1>9. QED
    BY <1>3, <1>4, <1>6, <1>7, <1>8

\* Consistent evidence: the final meter is not below the start or the latest
\* one, and differs from the raw value by the adjustment.
LEMMA Classified ==
  ASSUME Columns, NEW latest \in Int \cup {Null}, NEW raw \in Int,
         NEW c, c = classifyV1MeterEvidence(MeterStart, latest, raw), c.class # "CONTRADICTORY"
  PROVE  /\ c.wh \in Int /\ c.wh >= MeterStart
         /\ latest # Null => c.wh >= latest
         /\ c.wh - raw = c.adjustment /\ c.adjustment \in 0..Tolerance
         /\ c.class \in {"EXACT", "FORWARD", "QUANTIZATION_NORMALIZED"}
  <1> DEFINE R(class, wh, adjustment) == [class |-> class, wh |-> wh, adjustment |-> adjustment]
  <1>1. \/ c = R("CONTRADICTORY", 0, 0)
        \/ raw >= MeterStart /\ (latest = Null \/ raw = latest) /\ c = R("EXACT", raw, 0)
        \/ raw >= MeterStart /\ latest # Null /\ raw > latest /\ c = R("FORWARD", raw, 0)
        \/ /\ raw >= MeterStart /\ latest # Null /\ raw < latest /\ latest - raw <= Tolerance
           /\ c = R("QUANTIZATION_NORMALIZED", latest, latest - raw)
    BY DEF classifyV1MeterEvidence, Columns
  <1>2. QED
    BY <1>1 DEF Columns, Tolerance

LEMMA CompletionKeeps ==
  ASSUME Columns, TelemetryInv, NEW raw \in Wh, NEW at \in Times, NEW received \in Times,
         CompleteV1Transaction(raw, at, received)
  PROVE  TelemetryInv'
  <1> USE DEF TelemetryInv
  <1>0. /\ raw \in Int /\ at \in Int /\ meter.wh \in Int \cup {Null} /\ meter.at \in Int \cup {Null}
        /\ Null \notin Int /\ meter.seq \in Nat
    BY DEF Columns, TelemetryType
  <1> DEFINE c == classifyV1MeterEvidence(MeterStart, meter.wh, raw)
             d == Completion(raw, at)
  <1>1. /\ d.wh = c.wh /\ d.raw = raw /\ d.adjustment = c.adjustment /\ d.class = c.class
    BY DEF Completion
  <1>2. c.class # "CONTRADICTORY" /\ completion' = d /\ UNCHANGED <<soc, stop, facts>>
    BY <1>1 DEF CompleteV1Transaction
  <1>3. /\ c.wh \in Int /\ c.wh >= MeterStart
        /\ meter.wh # Null => c.wh >= meter.wh
        /\ c.wh - raw = c.adjustment /\ c.adjustment \in 0..Tolerance
        /\ c.class \in {"EXACT", "FORWARD", "QUANTIZATION_NORMALIZED"}
    BY <1>0, <1>2, Classified, Zenon
  <1> DEFINE l == Later(at, meter.at)
  <1>4. l \in Int /\ (meter.at # Null => meter.at <= l)
    BY <1>0 DEF Later
  <1>5. meter' = [meter EXCEPT !.wh = d.wh, !.at = l]
    BY <1>2 DEF CompleteV1Transaction
  <1> HIDE DEF c, d, l
  <1>6. meter'.wh = d.wh /\ meter'.at = l /\ meter'.seq = meter.seq
    BY <1>5 DEF TelemetryType
  <1>7. TelemetryType'
    <2>1. meter' \in [wh : Int \cup {Null}, at : Int \cup {Null}, seq : Nat]
      BY <1>1, <1>3, <1>4, <1>5, Zenon DEF TelemetryType
    <2>2. QED
      BY <1>2, <1>6, <2>1 DEF TelemetryType
  <1>8. MeterFacts' = MeterFacts /\ SoCFacts' = SoCFacts
    BY <1>2 DEF MeterFacts, SoCFacts
  <1>9. \A f \in MeterFacts : f.at \in Int
    BY DEF MeterFacts, TelemetryType, FactRows
  <1>10. completion = Null
    BY DEF CompleteV1Transaction
  <1>11. \A f \in MeterFacts : /\ f.at <= l /\ f.value \in Int
                               /\ f.seq = meter.seq => c.wh >= f.value
    <2> SUFFICES ASSUME NEW f \in MeterFacts
                 PROVE  /\ f.at <= l /\ f.value \in Int
                        /\ f.seq = meter.seq => c.wh >= f.value
      OBVIOUS
    <2>1. /\ meter.at # Null /\ f.at <= meter.at /\ f.value \in Int /\ meter.wh # Null
          /\ f.seq = meter.seq => f.value = meter.wh
      BY <1>10 DEF MeterInv
    <2>2. QED
      BY <1>0, <1>3, <1>4, <1>9, <2>1
  <1>12. completion' # Null
    <2>1. d = [raw |-> raw, wh |-> c.wh, adjustment |-> c.adjustment, class |-> c.class, at |-> at]
      BY DEF Completion, c, d
    <2>2. d \in Completions
      BY <1>0, <1>3, <2>1 DEF Completions
    <2>3. QED
      BY <1>2, <2>2 DEF Columns
  <1>13. MeterInv'
    <2>1. meter'.wh # Null /\ meter'.at # Null /\ meter'.wh >= MeterStart
      BY <1>0, <1>1, <1>3, <1>4, <1>6
    <2>2. \A f \in MeterFacts' :
             /\ f.seq \in 1..meter'.seq /\ f.value \in Int
             /\ meter'.at # Null /\ f.at <= meter'.at
      BY <1>6, <1>8, <1>11, <2>1 DEF MeterInv
    <2>3. \A n \in 1..meter'.seq : \E f \in MeterFacts' : f.seq = n
      BY <1>6, <1>8 DEF MeterInv
    <2>4. \A f, g \in MeterFacts' : f.seq <= g.seq => f.at <= g.at
      BY <1>8 DEF MeterInv
    <2>5. QED
      BY <1>12, <2>1, <2>2, <2>3, <2>4 DEF MeterInv
  <1>14. SoCInv' /\ LimitRequestsStop'
    BY <1>2, <1>8 DEF SoCInv, LimitRequestsStop, Reached
  <1>15. FinalMeterCovers'
    <2>1. /\ completion'.wh = c.wh /\ completion'.raw = raw
          /\ completion'.adjustment = c.adjustment
      BY <1>1, <1>2
    <2>2. \A f \in MeterFacts' : /\ f.seq = meter'.seq => completion'.wh >= f.value
                                 /\ f.at <= meter'.at
      BY <1>6, <1>8, <1>11, <2>1
    <2>3. QED
      BY <1>3, <2>1, <2>2, Zenon DEF FinalMeterCovers
  <1>16. NumbersDiffer'
    BY <1>2 DEF NumbersDiffer
  <1>17. QED
    BY <1>7, <1>13, <1>14, <1>15, <1>16

LEMMA TelemetryInductive == Spec => []TelemetryInv
  <1>1. Init => TelemetryInv
    BY TelemetryInit, TelemetryAssumption
  <1>2. TelemetryInv /\ UNCHANGED vars => TelemetryInv'
    <2> SUFFICES ASSUME TelemetryInv, UNCHANGED vars PROVE TelemetryInv'
      OBVIOUS
    <2>1. UNCHANGED <<meter, soc, stop, completion, facts>>
      BY DEF vars
    <2>2. TelemetryType'
      BY <2>1 DEF TelemetryInv, TelemetryType
    <2>3. UNCHANGED MeterFacts /\ UNCHANGED SoCFacts
      BY <2>1 DEF MeterFacts, SoCFacts
    <2>4. MeterInv'
      BY <2>1, <2>3 DEF TelemetryInv, MeterInv
    <2>5. SoCInv'
      BY <2>1, <2>3 DEF TelemetryInv, SoCInv
    <2>6. LimitRequestsStop'
      BY <2>1, <2>3, Zenon DEF TelemetryInv, LimitRequestsStop, Reached
    <2>7. FinalMeterCovers'
      BY <2>1, <2>3, Zenon DEF TelemetryInv, FinalMeterCovers
    <2>8. NumbersDiffer'
      BY <2>1 DEF TelemetryInv, NumbersDiffer
    <2>9. QED
      BY <2>2, <2>4, <2>5, <2>6, <2>7, <2>8 DEF TelemetryInv
  <1>3. TelemetryInv /\ [Next]_vars => TelemetryInv'
    BY <1>2, UpdateKeeps, CompletionKeeps, TelemetryAssumption DEF Next
  <1>4. QED
    BY <1>1, <1>3, PTL DEF Spec

\* For any readings, timestamps and limit: every accepted sample is published
\* once under the next number, times never go back as numbers grow, and the
\* initial state of charge is that of the first fact
\* (UpdateV1TelemetryForOCPP).
THEOREM Ordered == Spec => []FactsInOrder
  <1>1. TelemetryInv => FactsInOrder
    <2> SUFFICES ASSUME TelemetryInv PROVE FactsInOrder
      OBVIOUS
    <2>1. {f.seq : f \in MeterFacts} = 1..meter.seq
      BY DEF TelemetryInv, MeterInv
    <2>2. {f.seq : f \in SoCFacts} = 1..soc.seq
      BY DEF TelemetryInv, SoCInv
    <2>3. \A f, g \in MeterFacts : f.seq <= g.seq => f.at <= g.at
      BY DEF TelemetryInv, MeterInv
    <2>4. /\ \A f, g \in SoCFacts : f.seq < g.seq => f.at < g.at
          /\ \A f \in SoCFacts : f.seq = 1 => soc.initial = f.value
      BY DEF TelemetryInv, SoCInv
    <2>5. \A f, g \in facts : f.type = g.type /\ f.seq = g.seq => f = g
      BY DEF TelemetryInv, NumbersDiffer
    <2>6. QED
      BY <2>1, <2>2, <2>3, <2>4, <2>5 DEF FactsInOrder
  <1>2. QED
    BY <1>1, TelemetryInductive, PTL

\* A published reading at or above the energy limit has requested the stop,
\* although a later one-Wh rollback may take the meter below the limit again.
THEOREM LimitStops == Spec => []LimitRequestsStop
  <1>1. TelemetryInv => LimitRequestsStop
    BY DEF TelemetryInv
  <1>2. QED
    BY <1>1, TelemetryInductive, PTL

\* The final meter of StopTransaction is not below the start or the last
\* published reading, exceeds the charger's value by the recorded adjustment,
\* at most one unit, and is dated no earlier than any published reading
\* (CompleteV1Transaction, classifyV1MeterEvidence).
THEOREM FinalMeter == Spec => []FinalMeterCovers
  <1>1. TelemetryInv => FinalMeterCovers
    BY DEF TelemetryInv
  <1>2. QED
    BY <1>1, TelemetryInductive, PTL

----------------------------------------------------------------------------
(* Charging traces.                                                         *)

Ids == {"none", "cms", "hal"}
RootRows == [id : Ids, bound : BOOLEAN]
EventRows ==
    [session : Sessions \cup {"none"},
     status  : C!Unsettled \cup {"none", "DELIVERED", "RECONCILIATION_REQUIRED", "gone"},
     token   : Workers \cup {"none"}]
Appenders ==
    [pc : {"idle", "root", "append"}, session : Sessions \cup {"none"}, id : Ids, left : Int]

TraceType ==
    /\ root \in [Sessions -> RootRows]
    /\ event \in [C!Events -> EventRows]
    /\ appender \in [Handlers -> Appenders]
    /\ worker \in [Workers -> C!Events \cup {0}]
    /\ old \subseteq Sessions

\* What makes the snapshot of the retention's statement good enough: an event
\* that it saw is still there, and if its root was selected it is settled and
\* stays so, because neither a claim nor a mark touches a settled event.
RetentionInv ==
    /\ retention.seen \subseteq C!Events
    /\ \A e \in retention.seen :
          /\ event[e].status # "none"
          /\ event[e].session \in retention.roots => event[e].status \notin C!Unsettled
    /\ \A e \in C!Events : event[e].status = "none" => event[e] = C!NoEvent

\* A step that is not the deletion moves only unsettled events, and new ones.
EventMoves ==
    /\ event' \in [C!Events -> EventRows]
    /\ \A e \in C!Events :
          \/ event'[e] = event[e]
          \/ event[e].status = "none" /\ event'[e].status \notin {"none", "gone"}
          \/ /\ event[e].status \in C!Unsettled
             /\ event'[e].session = event[e].session
             /\ event'[e].status \notin {"none", "gone"}

LEMMA TraceRows ==
  /\ C!NoRoot \in RootRows /\ C!Idle \in Appenders
  /\ C!NoEvent \in EventRows /\ C!NoEvent.status = "none"
  /\ C!Deleted \in EventRows /\ C!Deleted.status = "gone"
  <1>1. C!NoRoot \in RootRows
    <2>1. FALSE \in BOOLEAN
      BY Zenon
    <2>2. QED
      BY <2>1 DEF C!NoRoot, RootRows, Ids
  <1>2. C!Idle \in Appenders
    BY DEF C!Idle, Appenders, Ids
  <1>3. C!NoEvent \in EventRows /\ C!NoEvent.status = "none"
    BY DEF C!NoEvent, EventRows
  <1>4. PICK r \in EventRows : r = C!NoEvent
    BY <1>3
  <1>5. [r EXCEPT !.status = "gone"] \in EventRows /\ [r EXCEPT !.status = "gone"].status = "gone"
    BY DEF EventRows
  <1>6. QED
    BY <1>1, <1>2, <1>3, <1>4, <1>5 DEF C!Deleted

LEMMA EnsureKeeps ==
  ASSUME TraceType, NEW s \in Sessions \cup {"none"}, NEW id \in Ids, NEW b \in BOOLEAN,
         C!EnsureV1Trace(s, id, b)
  PROVE  root' \in [Sessions -> RootRows]
  <1>1. [id |-> id, bound |-> b] \in RootRows
    BY DEF RootRows
  <1>2. QED
    BY <1>1, Zenon DEF C!EnsureV1Trace, TraceType

LEMMA BindKeeps ==
  ASSUME TraceType, NEW s \in Sessions \cup {"none"}, NEW id, C!BindV1TraceTransaction(s, id)
  PROVE  root' \in [Sessions -> RootRows]
  <1> DEFINE b == root[s].bound \/ root[s].id = id
  <1>1. b \in BOOLEAN
    BY Zenon
  <1>2. root' = [root EXCEPT ![s].bound = b]
    BY DEF C!BindV1TraceTransaction
  <1> HIDE DEF b
  <1>3. s \in Sessions => [root[s] EXCEPT !.bound = b] \in RootRows
    BY <1>1 DEF TraceType, RootRows
  <1>4. QED
    BY <1>2, <1>3, Zenon DEF TraceType

LEMMA AppendKeeps ==
  ASSUME TraceType, NEW h \in Handlers, NEW s \in Sessions \cup {"none"}, NEW id \in Ids,
         NEW n \in Int, C!Append(h, s, id, n)
  PROVE  appender' \in [Handlers -> Appenders]
  <1>1. [pc |-> "append", session |-> s, id |-> id, left |-> n] \in Appenders
    BY DEF Appenders
  <1>2. QED
    BY <1>1 DEF C!Append, TraceType

\* The steps of handlers that find or make a root.
LEMMA HandlerKeeps ==
  ASSUME TraceType, NEW h \in Handlers,
         \/ \E s \in Sessions :
               \/ C!v1Start(h, s) \/ C!v1Stop(h, s)
               \/ C!OnStartTransaction(h, s) \/ C!V1StopTransaction(h, s)
               \/ C!recordV1Trace(h, s) \/ C!recordDeliveredLifecycleFact(h, s)
         \/ C!EnsureV1TraceForTransaction(h)
         \/ C!recordV1ConnectorTrace(h)
  PROVE  TraceType' /\ UNCHANGED <<event, worker, old, retention>>
  <1>0. FALSE \in BOOLEAN /\ TRUE \in BOOLEAN
    BY Zenon
  <1>a. "cms" \in Ids /\ "hal" \in Ids /\ 1 \in Int /\ 2 \in Int
    BY DEF Ids
  <1>b. \A s \in Sessions : s \in Sessions \cup {"none"}
    OBVIOUS
  <1>1. ASSUME NEW s \in Sessions
        PROVE  root[s].id \in Ids
    BY DEF TraceType, RootRows
  <1>2. ASSUME NEW s \in Sessions, C!v1Start(h, s)
        PROVE  TraceType' /\ UNCHANGED <<event, worker, old, retention>>
    <2>1. root' \in [Sessions -> RootRows]
      <3>1. CASE C!EnsureV1Trace(s, "cms", FALSE)
        BY <1>0, <1>a, <1>b, <3>1, EnsureKeeps, Zenon
      <3>2. CASE UNCHANGED root
        BY <3>2 DEF TraceType
      <3>3. QED
        BY <1>2, <3>1, <3>2, Zenon DEF C!v1Start
    <2>2. PICK n \in Int : C!Append(h, s, "cms", n)
      <3>1. \/ \E n \in 1..3 : C!Append(h, s, "cms", n)
            \/ \E n \in 1..2 : C!Append(h, s, "cms", n)
        BY <1>2, Zenon DEF C!v1Start
      <3>2. QED
        BY <3>1
    <2>3. appender' \in [Handlers -> Appenders]
      BY <1>a, <1>b, <2>2, AppendKeeps, Zenon
    <2>4. QED
      BY <1>2, <2>1, <2>3 DEF C!v1Start, TraceType, C!Events
  <1>3. ASSUME NEW s \in Sessions, C!v1Stop(h, s)
        PROVE  TraceType' /\ UNCHANGED <<event, worker, old, retention>>
    <2>0. C!BindV1TraceTransaction(s, "cms") /\ C!Append(h, s, "cms", 1)
      BY <1>3 DEF C!v1Stop
    <2>1. root' \in [Sessions -> RootRows]
      BY <1>b, <2>0, BindKeeps, Zenon
    <2>2. appender' \in [Handlers -> Appenders]
      BY <1>a, <1>b, <2>0, AppendKeeps, Zenon
    <2>3. QED
      BY <1>3, <2>1, <2>2 DEF C!v1Stop, TraceType, C!Events
  <1>4. ASSUME NEW s \in Sessions, C!OnStartTransaction(h, s)
        PROVE  TraceType' /\ UNCHANGED <<event, worker, old, retention>>
    <2>1. [pc |-> "root", session |-> s, id |-> root[s].id, left |-> 2] \in Appenders
      BY <1>1 DEF Appenders
    <2>2. appender' \in [Handlers -> Appenders]
      BY <1>4, <2>1 DEF C!OnStartTransaction, TraceType
    <2>3. QED
      BY <1>4, <2>2, Zenon DEF C!OnStartTransaction, TraceType, C!Events
  <1>5. ASSUME NEW s \in Sessions, C!V1StopTransaction(h, s)
        PROVE  TraceType' /\ UNCHANGED <<event, worker, old, retention>>
    <2>1. appender' \in [Handlers -> Appenders]
      <3>1. CASE C!Append(h, s, root[s].id, 2)
        BY <1>1, <1>a, <1>b, <3>1, AppendKeeps, Zenon
      <3>2. CASE UNCHANGED appender
        BY <3>2 DEF TraceType
      <3>3. QED
        BY <1>5, <3>1, <3>2 DEF C!V1StopTransaction
    <2>2. QED
      BY <1>5, <2>1 DEF C!V1StopTransaction, TraceType, C!Events
  <1>6. ASSUME NEW s \in Sessions, C!recordV1Trace(h, s)
        PROVE  TraceType' /\ UNCHANGED <<event, worker, old, retention>>
    <2>1. appender' \in [Handlers -> Appenders]
      <3>1. C!Append(h, s, root[s].id, 1)
        BY <1>6 DEF C!recordV1Trace
      <3>2. QED
        BY <1>1, <1>a, <1>b, <3>1, AppendKeeps, Zenon
    <2>2. QED
      BY <1>6, <2>1 DEF C!recordV1Trace, TraceType, C!Events
  <1>7. CASE C!EnsureV1TraceForTransaction(h)
    <2> DEFINE s == appender[h].session
               id == appender[h].id
    <2>0. id \in Ids /\ s \in Sessions \cup {"none"}
          /\ UNCHANGED <<event, worker, old, retention>>
      BY <1>7 DEF C!EnsureV1TraceForTransaction, TraceType, Appenders
    <2>1. CASE UNCHANGED root /\ appender' = [appender EXCEPT ![h] = C!Idle]
      BY <2>0, <2>1, TraceRows DEF TraceType, C!Events
    <2>2. CASE C!EnsureV1Trace(s, "hal", TRUE) /\ C!Append(h, s, "hal", 2)
      <3>1. root' \in [Sessions -> RootRows]
        BY <1>0, <1>a, <2>0, <2>2, EnsureKeeps, Zenon
      <3>2. appender' \in [Handlers -> Appenders]
        BY <1>a, <2>0, <2>2, AppendKeeps, Zenon
      <3>3. QED
        BY <2>0, <3>1, <3>2 DEF TraceType, C!Events
    <2>3. CASE C!BindV1TraceTransaction(s, id) /\ C!Append(h, s, id, 2)
      <3>1. root' \in [Sessions -> RootRows]
        BY <2>0, <2>3, BindKeeps, Zenon
      <3>2. appender' \in [Handlers -> Appenders]
        BY <1>a, <2>0, <2>3, AppendKeeps, Zenon
      <3>3. QED
        BY <2>0, <3>1, <3>2 DEF TraceType, C!Events
    <2>4. QED
      BY <1>7, <2>1, <2>2, <2>3, Zenon DEF C!EnsureV1TraceForTransaction
  <1>8. CASE C!recordV1ConnectorTrace(h)
    <2>1. PICK s \in C!FindV1TraceForConnector : C!Append(h, s, root[s].id, 1)
      BY <1>8 DEF C!recordV1ConnectorTrace
    <2>2. s \in Sessions
      BY Zenon DEF C!FindV1TraceForConnector
    <2>3. appender' \in [Handlers -> Appenders]
      BY <1>1, <1>a, <1>b, <2>1, <2>2, AppendKeeps, Zenon
    <2>4. QED
      BY <1>8, <2>3 DEF C!recordV1ConnectorTrace, TraceType, C!Events
  <1>9. QED
    BY <1>2, <1>3, <1>4, <1>5, <1>6, <1>7, <1>8 DEF C!recordDeliveredLifecycleFact

LEMMA TraceSteps ==
  ASSUME TraceType, [C!Next]_C!vars
  PROVE  /\ TraceType'
         /\ \/ EventMoves /\ UNCHANGED retention
            \/ UNCHANGED event /\ C!DeleteV1TracesBefore
            \/ C!Cascade
  <1>1. CASE UNCHANGED event /\ TraceType' /\ UNCHANGED retention
    BY <1>1 DEF EventMoves, TraceType, C!Events
  <1>2. ASSUME NEW h \in Handlers, C!AppendV1TraceEvent(h)
        PROVE  TraceType' /\ EventMoves /\ UNCHANGED retention
    <2> DEFINE s == appender[h].session
    <2>1. appender[h] \in Appenders /\ s \in Sessions \cup {"none"}
      BY DEF TraceType, Appenders
    <2>2. appender' \in [Handlers -> Appenders]
      <3> DEFINE r == appender[h]
      <3>1. [r EXCEPT !.left = r.left - 1] \in Appenders
        BY <2>1 DEF Appenders
      <3>2. \/ appender' = [appender EXCEPT ![h] = C!Idle]
            \/ appender' = [appender EXCEPT ![h] = [r EXCEPT !.left = r.left - 1]]
        <4>1. CASE r.left = 1
          BY <1>2, <4>1 DEF C!AppendV1TraceEvent
        <4>2. CASE r.left # 1
          BY <1>2, <4>2 DEF C!AppendV1TraceEvent
        <4>3. QED
          BY <4>1, <4>2
      <3>3. QED
        BY <3>1, <3>2, TraceRows DEF TraceType
    <2>3. EventMoves
      <3>1. CASE UNCHANGED event
        BY <3>1 DEF EventMoves, TraceType, C!Events
      <3>2. ASSUME NEW e \in C!Events, event[e] = C!NoEvent,
                   event' = [event EXCEPT ![e] =
                                [session |-> s, status |-> "PENDING", token |-> "none"]]
            PROVE  EventMoves
        <4>1. [session |-> s, status |-> "PENDING", token |-> "none"] \in EventRows
          BY <2>1 DEF EventRows, C!Unsettled
        <4>2. event[e].status = "none"
          BY <3>2, TraceRows
        <4>3. event' \in [C!Events -> EventRows]
          BY <3>2, <4>1 DEF TraceType
        <4>4. event'[e].status = "PENDING" /\ \A d \in C!Events : d # e => event'[d] = event[d]
          BY <3>2 DEF TraceType
        <4>5. QED
          BY <4>2, <4>3, <4>4 DEF EventMoves
      <3>3. QED
        BY <1>2, <3>1, <3>2 DEF C!AppendV1TraceEvent
    <2>4. QED
      BY <1>2, <2>2, <2>3 DEF C!AppendV1TraceEvent, TraceType, EventMoves
  <1>3. ASSUME NEW e \in C!Events, NEW status \in C!Unsettled \cup {"DELIVERED", "RECONCILIATION_REQUIRED"},
               NEW token \in Workers \cup {"none"}, event[e].status \in C!Unsettled,
               event' = [event EXCEPT ![e].status = status, ![e].token = token]
        PROVE  EventMoves
    <2>1. PICK r \in EventRows : r = event[e]
      BY DEF TraceType
    <2> DEFINE q == [r EXCEPT !.status = status, !.token = token]
    <2>2. q \in EventRows /\ q.status = status /\ q.session = r.session
      BY Zenon DEF EventRows
    <2>3. event' = [event EXCEPT ![e] = q]
      BY <1>3, <2>1, Zenon DEF TraceType
    <2> HIDE DEF q
    <2>4. event' \in [C!Events -> EventRows]
      BY <2>2, <2>3 DEF TraceType
    <2>5. event'[e] = q /\ \A d \in C!Events : d # e => event'[d] = event[d]
      BY <2>3 DEF TraceType
    <2>6. status \notin {"none", "gone"}
      BY DEF C!Unsettled
    <2>7. QED
      BY <1>3, <2>1, <2>2, <2>4, <2>5, <2>6 DEF EventMoves
  <1>4. ASSUME NEW w \in Workers, C!ClaimV1TraceDeliveries(w)
        PROVE  TraceType' /\ EventMoves /\ UNCHANGED retention
    <2>1. PICK e \in C!Events :
             /\ event[e].status \in C!Unsettled
             /\ event' = [event EXCEPT ![e].status = "DELIVERING", ![e].token = w]
             /\ worker' = [worker EXCEPT ![w] = e]
      BY <1>4, Zenon DEF C!ClaimV1TraceDeliveries
    <2>2. EventMoves
      BY <1>3, <2>1, Zenon DEF C!Unsettled
    <2>3. QED
      BY <1>4, <2>1, <2>2 DEF C!ClaimV1TraceDeliveries, TraceType, EventMoves
  <1>5. ASSUME NEW w \in Workers, C!deliver(w)
        PROVE  TraceType' /\ EventMoves /\ UNCHANGED retention
    <2>1. worker[w] \in C!Events /\ worker' \in [Workers -> C!Events \cup {0}]
      BY <1>5 DEF C!deliver, TraceType
    <2>2. EventMoves
      <3>1. CASE UNCHANGED event
        BY <3>1 DEF EventMoves, TraceType, C!Events
      <3>2. ASSUME NEW status \in {"DELIVERED", "RETRY", "RECONCILIATION_REQUIRED"},
                   event[worker[w]].status = "DELIVERING",
                   event' = [event EXCEPT ![worker[w]].status = status,
                                          ![worker[w]].token = "none"]
            PROVE  EventMoves
        BY <1>3, <2>1, <3>2, Zenon DEF C!Unsettled
      <3>3. QED
        BY <1>5, <3>1, <3>2 DEF C!deliver, C!MarkV1TraceDelivery
    <2>3. QED
      BY <1>5, <2>1, <2>2 DEF C!deliver, TraceType, EventMoves
  <1>6. ASSUME NEW s \in Sessions, C!Age(s)
        PROVE  UNCHANGED event /\ TraceType' /\ UNCHANGED retention
    BY <1>6 DEF C!Age, TraceType, C!Events
  <1>7. ASSUME C!DeleteV1TracesBefore PROVE UNCHANGED event /\ TraceType'
    BY <1>7 DEF C!DeleteV1TracesBefore, TraceType, C!Events
  <1>8. ASSUME C!Cascade PROVE TraceType'
    <2>1. root' \in [Sessions -> RootRows]
      BY <1>8, TraceRows DEF C!Cascade, TraceType
    <2>2. event' \in [C!Events -> EventRows]
      BY <1>8, TraceRows DEF C!Cascade, TraceType
    <2>3. QED
      BY <1>8, <2>1, <2>2, Zenon DEF C!Cascade, TraceType
  <1>9. CASE UNCHANGED C!vars
    BY <1>1, <1>9 DEF C!vars, TraceType, C!Events
  <1>10. QED
    BY <1>1, <1>2, <1>4, <1>5, <1>6, <1>7, <1>8, <1>9, HandlerKeeps DEF C!Next

LEMMA RetentionInductive == C!Spec => [](TraceType /\ RetentionInv)
  <1>1. C!Init => TraceType /\ RetentionInv
    BY TraceRows DEF C!Init, TraceType, RetentionInv, C!Waiting
  <1>2. ASSUME TraceType, RetentionInv, [C!Next]_C!vars PROVE RetentionInv'
    <2>1. CASE EventMoves /\ UNCHANGED retention
      <3>1. \A e \in C!Events : event'[e].status = "none" => event'[e] = C!NoEvent
        BY <1>2, <2>1 DEF EventMoves, RetentionInv
      <3>2. retention' = retention
        BY <2>1
      <3>3. ASSUME NEW e \in retention.seen
            PROVE  /\ event'[e].status # "none"
                   /\ event'[e].session \in retention.roots => event'[e].status \notin C!Unsettled
        <4>1. e \in C!Events
          BY <1>2 DEF RetentionInv
        <4>2. QED
          BY <1>2, <2>1, <4>1 DEF EventMoves, RetentionInv
      <3>4. QED
        BY <1>2, <3>1, <3>2, <3>3 DEF RetentionInv, C!Events, C!NoEvent, C!Unsettled
    <2>2. CASE UNCHANGED event /\ C!DeleteV1TracesBefore
      <3>1. /\ retention'.roots = {s \in old : C!Deletable(s)}
            /\ retention'.seen = {e \in C!Events : event[e] # C!NoEvent}
        BY <2>2 DEF C!DeleteV1TracesBefore
      <3>2. ASSUME NEW e \in retention'.seen
            PROVE  /\ event[e].status # "none"
                   /\ event[e].session \in retention'.roots => event[e].status \notin C!Unsettled
        BY <1>2, <3>1 DEF C!Deletable, RetentionInv
      <3>3. QED
        BY <1>2, <2>2, <3>1, <3>2 DEF RetentionInv, C!Events, C!NoEvent, C!Unsettled
    <2>3. CASE C!Cascade
      <3>1. retention'.seen = {}
        BY <2>3 DEF C!Cascade, C!Waiting
      <3>2. \A e \in C!Events : event'[e].status = "none" => event'[e] = C!NoEvent
        BY <1>2, <2>3, TraceRows, Zenon DEF C!Cascade, RetentionInv
      <3>3. QED
        BY <1>2, <3>1, <3>2 DEF RetentionInv, C!Events, C!NoEvent
    <2>4. QED
      BY <1>2, <2>1, <2>2, <2>3, TraceSteps
  <1>3. QED
    BY <1>1, <1>2, TraceSteps, PTL DEF C!Spec

\* For any number of sessions, handlers, delivery workers and events, the
\* retention's DELETE takes no event that was there when it selected and that
\* CMS has yet to get, although claims, marks and appends go on between the
\* selection and the cascade.
THEOREM Retention == C!Spec => RetentionSparesUndelivered
  <1>1. ASSUME TraceType, RetentionInv, [C!Next]_C!vars
        PROVE  [\A e \in retention.seen :
                   event'[e].status = "gone" => event[e].status \notin C!Unsettled]_C!vars
    <2> SUFFICES ASSUME NEW e \in retention.seen, event'[e].status = "gone"
                 PROVE  event[e].status \notin C!Unsettled
      OBVIOUS
    <2>1. e \in C!Events /\ "gone" \notin C!Unsettled
      BY <1>1 DEF RetentionInv, C!Unsettled
    <2>2. CASE event'[e] = event[e]
      BY <2>1, <2>2
    <2>3. CASE EventMoves
      BY <1>1, <2>1, <2>3 DEF EventMoves, RetentionInv
    <2>4. CASE C!Cascade
      <3>1. event'[e] = IF event[e].session \in retention.roots THEN C!Deleted ELSE event[e]
        BY <2>1, <2>4 DEF C!Cascade
      <3>2. QED
        BY <1>1, <2>2, <3>1 DEF RetentionInv
    <2>5. QED
      BY <1>1, <2>2, <2>3, <2>4, TraceSteps
  <1>2. QED
    BY <1>1, RetentionInductive, PTL DEF C!Spec, RetentionSparesUndelivered, C!RetentionSparesUndelivered
=============================================================================
