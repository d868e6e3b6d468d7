-------------------------- MODULE IncidentsProofs --------------------------
(***************************************************************************)
(* Theorems about Incidents, for any alerts, analysts, crashes, lost       *)
(* memberships, failures and bounds: what the worker writes over a row     *)
(* agrees with the alert rows beside it; an alert has one row for every    *)
(* session of the worker; the audit log tells an incident's status; and    *)
(* what one metrics answer counts is explained by it.                      *)
(***************************************************************************)
EXTENDS Metrics, FiniteSetTheorems, TLAPS

Severities == {"MEDIUM", "HIGH", "CRITICAL"}

-----------------------------------------------------------------------------
(* Types. *)

(* The worker's update of a row, with the values it writes.                *)
Rewritten(current, count, max, severity, sources, both, time) ==
    [current EXCEPT !.count = count, !.maxScore = max, !.severity = severity,
                    !.sources = sources, !.corroborated = both, !.updatedAt = time]

LEMMA RewrittenRow ==
    ASSUME NEW current \in IncidentType, NEW count \in Nat, NEW max \in Nat,
           NEW severity \in Severities, NEW sources \in SUBSET Engines,
           NEW both \in BOOLEAN, NEW time \in Nat,
           NEW row, row = Rewritten(current, count, max, severity, sources, both, time)
    PROVE  /\ row \in IncidentType
           /\ row.count = count /\ row.maxScore = max /\ row.severity = severity
           /\ row.sources = sources /\ row.corroborated = both
  BY DEF IncidentType, Severities, Rewritten

LEMMA NewIncidentRow ==
    ASSUME NEW alert \in Alerts, NEW engine \in Engines, NEW time \in Nat
    PROVE  LET row == NewIncident(alert, engine, time)
           IN  /\ row \in IncidentType
               /\ row.count = 1 /\ row.maxScore = alert.body.score
               /\ row.severity = SeverityOf(alert.body.score)
               /\ row.sources = {engine} /\ row.corroborated = FALSE
               /\ row.status = "OPEN"
  <1>1. alert.body.score \in Nat
    BY BodiesAssumption DEF Alerts
  <1>2. Identity(alert) \in Identities \cup {"UNKNOWN"}
    BY BodiesAssumption DEF Alerts, Identity
  <1> QED BY <1>1, <1>2 DEF NewIncident, IncidentType, SeverityOf, Statuses, Active

LEMMA BundledTypes ==
    ASSUME NEW alert \in Alerts, NEW engine \in Engines, NEW time \in Nat,
           NEW current \in IncidentType, NEW read \in IncidentType
    PROVE  LET max == Greater(read.maxScore, alert.body.score)
           IN  /\ max \in Nat /\ read.count + 1 \in Nat
               /\ Escalated(read.severity, max) \in Severities
               /\ read.sources \cup {engine} \in SUBSET Engines
  BY BodiesAssumption
     DEF Alerts, Greater, IncidentType, Severities, Escalated, SeverityOf

LEMMA BundledRow ==
    ASSUME NEW alert \in Alerts, NEW engine \in Engines, NEW time \in Nat,
           NEW current \in IncidentType, NEW read \in IncidentType
    PROVE  /\ Bundled(current, read, alert, engine, time) \in IncidentType
           /\ Bundled(current, read, alert, engine, time).count = read.count + 1
           /\ Bundled(current, read, alert, engine, time).sources = read.sources \cup {engine}
           /\ Bundled(current, read, alert, engine, time).maxScore
                = Greater(read.maxScore, alert.body.score)
           /\ Bundled(current, read, alert, engine, time).severity
                = Escalated(read.severity, Greater(read.maxScore, alert.body.score))
  <1> DEFINE max == Greater(read.maxScore, alert.body.score)
             count == read.count + 1
             sources == read.sources \cup {engine}
             severity == Escalated(read.severity, max)
             both == Cardinality(sources) > 1
  <1>1. max \in Nat /\ count \in Nat /\ severity \in Severities
        /\ sources \in SUBSET Engines /\ both \in BOOLEAN
    BY BundledTypes
  <1>2. Bundled(current, read, alert, engine, time)
          = Rewritten(current, count, max, severity, sources, both, time)
    BY DEF Bundled, Rewritten
  <1> HIDE DEF max, count, sources, severity, both
  <1> QED BY <1>1, <1>2, RewrittenRow DEF max, count, sources, severity

LEMMA BundledFlag ==
    ASSUME NEW alert \in Alerts, NEW engine \in Engines, NEW time \in Nat,
           NEW current \in IncidentType, NEW read \in IncidentType
    PROVE  Bundled(current, read, alert, engine, time).corroborated
             <=> Cardinality(read.sources \cup {engine}) > 1
  <1> DEFINE max == Greater(read.maxScore, alert.body.score)
             count == read.count + 1
             sources == read.sources \cup {engine}
             severity == Escalated(read.severity, max)
             both == Cardinality(sources) > 1
  <1>1. max \in Nat /\ count \in Nat /\ severity \in Severities
        /\ sources \in SUBSET Engines /\ both \in BOOLEAN
    BY BundledTypes
  <1>2. Bundled(current, read, alert, engine, time)
          = Rewritten(current, count, max, severity, sources, both, time)
    BY DEF Bundled, Rewritten
  <1> HIDE DEF max, count, sources, severity, both
  <1>3. Bundled(current, read, alert, engine, time).corroborated = both
    BY <1>1, <1>2, RewrittenRow
  <1> QED BY <1>1, <1>3 DEF both, sources

LEMMA SeqGrows ==
    ASSUME NEW S, NEW T, S \subseteq T
    PROVE  Seq(S) \subseteq Seq(T)
  OBVIOUS

(* What points to an incident goes on doing so when incidents are added.   *)
LEMMA TypesGrow ==
    ASSUME incidents \in Seq(IncidentType), incidents' \in Seq(IncidentType),
           Len(incidents) <= Len(incidents')
    PROVE  /\ WorkerType \subseteq WorkerType'
           /\ RequestType \subseteq RequestType'
           /\ Seq([incident : 1..Len(incidents), alert : 1..MaxAlerts, engine : Engines,
                   score : Nat])
                \subseteq Seq([incident : 1..Len(incidents'), alert : 1..MaxAlerts,
                               engine : Engines, score : Nat])
           /\ Seq([incident : 1..Len(incidents), previous : Statuses, new : Statuses])
                \subseteq Seq([incident : 1..Len(incidents'), previous : Statuses,
                               new : Statuses])
  <1>1. 1..Len(incidents) \subseteq 1..Len(incidents')
    OBVIOUS
  <1> DEFINE I == 1..Len(incidents)
             J == 1..Len(incidents')
  <1>2. I \subseteq J
    BY <1>1
  <1> HIDE DEF I, J
  <1>3. WorkerType \subseteq WorkerType'
    BY <1>2 DEF WorkerType, I, J, Idle, IncidentType, Alerts
  <1>4. RequestType \subseteq RequestType'
    BY <1>2 DEF RequestType, I, J, Idle, IncidentType
  <1>5. [incident : I, alert : 1..MaxAlerts, engine : Engines, score : Nat]
          \subseteq [incident : J, alert : 1..MaxAlerts, engine : Engines, score : Nat]
    BY <1>2
  <1>6. [incident : I, previous : Statuses, new : Statuses]
          \subseteq [incident : J, previous : Statuses, new : Statuses]
    BY <1>2
  <1>7. Seq([incident : I, alert : 1..MaxAlerts, engine : Engines, score : Nat])
          \subseteq Seq([incident : J, alert : 1..MaxAlerts, engine : Engines, score : Nat])
    BY <1>5, SeqGrows, Zenon
  <1>8. Seq([incident : I, previous : Statuses, new : Statuses])
          \subseteq Seq([incident : J, previous : Statuses, new : Statuses])
    BY <1>6, SeqGrows, Zenon
  <1> QED BY <1>3, <1>4, <1>7, <1>8 DEF I, J

(* The worker's steps keep the types. *)
LEMMA FetchTyped ==
    ASSUME TypeOK, NEW engine \in Engines, Fetch(engine)
    PROVE  TypeOK'
  <1>1. /\ position' \in [Engines -> Nat]
        /\ \A e \in Engines : committed'[e] <= position'[e] /\ position'[e] <= Len(log'[e])
    BY DEF TypeOK, Fetch
  <1>2. log[engine][position[engine] + 1] \in Alerts
    BY DEF TypeOK, Fetch
  <1>3. worker' \in WorkerType
    BY <1>2 DEF Fetch, WorkerType
  <1>4. UNCHANGED <<log, committed, requests, tables, now, counts>>
    BY DEF Fetch
  <1> QED BY <1>1, <1>3, <1>4 DEF TypeOK, tables, counts, WorkerType, RequestType

LEMMA LookupTyped ==
    ASSUME TypeOK, Lookup
    PROVE  TypeOK'
  <1>1. worker \in [pc : {"lookup"}, engine : Engines, alert : Alerts]
    BY DEF TypeOK, Lookup, WorkerType, Idle
  <1>2. worker' \in WorkerType
    <2>1. CASE worker' = [pc |-> "create", engine |-> worker.engine, alert |-> worker.alert,
                          began |-> now]
      BY <1>1, <2>1 DEF WorkerType, TypeOK
    <2>2. ASSUME NEW i \in Found,
                 worker' = [pc |-> "bundle", engine |-> worker.engine, alert |-> worker.alert,
                            began |-> now, incident |-> i, row |-> incidents[i]]
          PROVE  worker' \in WorkerType
      <3>1. i \in 1..Len(incidents) /\ incidents[i] \in IncidentType
        BY DEF Found, Candidates, TypeOK
      <3> QED BY <1>1, <2>2, <3>1 DEF WorkerType, TypeOK
    <2>3. CASE worker' = Idle
      BY <2>3 DEF WorkerType
    <2> QED BY <2>1, <2>2, <2>3 DEF Lookup
  <1>3. UNCHANGED <<kafka, requests, tables, now, counts>>
    BY DEF Lookup
  <1> QED BY <1>2, <1>3 DEF TypeOK, kafka, tables, counts, WorkerType, RequestType

LEMMA CreateTyped ==
    ASSUME TypeOK, Create
    PROVE  TypeOK'
  <1>1. worker \in [pc : {"create"}, engine : Engines, alert : Alerts, began : Nat]
    BY DEF TypeOK, Create, WorkerType, Idle
  <1>2. UNCHANGED <<kafka, requests, audit, now, counts>> /\ worker' = Idle
    BY DEF Create
  <1>3. CASE EngineColumnsMapped
    <2> DEFINE row  == NewIncident(worker.alert, worker.engine, worker.began)
               link == Link(Len(incidents) + 1, worker.alert, worker.engine)
    <2>1. row \in IncidentType
      BY <1>1, NewIncidentRow
    <2> HIDE DEF row, link
    <2>2. incidents' = Append(incidents, row) /\ links' = Append(links, link)
      BY <1>3 DEF Create, row, link
    <2>3. incidents \in Seq(IncidentType) /\ incidents' \in Seq(IncidentType)
          /\ Len(incidents') = Len(incidents) + 1
      BY <2>1, <2>2 DEF TypeOK
    <2>4. link \in [incident : 1..Len(incidents'), alert : 1..MaxAlerts, engine : Engines,
                    score : Nat]
      BY <1>1, <2>3, BodiesAssumption DEF link, Link, Alerts
    <2>3a. Len(incidents) <= Len(incidents')
      BY <2>3
    <2>5. links \in Seq([incident : 1..Len(incidents'), alert : 1..MaxAlerts,
                         engine : Engines, score : Nat])
      BY <2>3, <2>3a, TypesGrow, Zenon DEF TypeOK
    <2>6. links' \in Seq([incident : 1..Len(incidents'), alert : 1..MaxAlerts,
                          engine : Engines, score : Nat])
      BY <2>2, <2>4, <2>5
    <2>7. audit \in Seq([incident : 1..Len(incidents'), previous : Statuses, new : Statuses])
      BY <2>3, <2>3a, TypesGrow, Zenon DEF TypeOK
    <2>8. requests \in [Analysts -> RequestType']
      BY <2>3, <2>3a, TypesGrow, Zenon DEF TypeOK
    <2>9. worker' \in WorkerType'
      BY <1>2 DEF WorkerType
    <2> QED BY <1>2, <2>3, <2>6, <2>7, <2>8, <2>9 DEF TypeOK, kafka, counts
  <1>4. CASE ~EngineColumnsMapped
    BY <1>2, <1>4 DEF Create, TypeOK, kafka, counts, WorkerType, RequestType
  <1> QED BY <1>3, <1>4

LEMMA BundleTyped ==
    ASSUME TypeOK, Bundle
    PROVE  TypeOK'
  <1>1. worker \in [pc : {"bundle"}, engine : Engines, alert : Alerts, began : Nat,
                    incident : 1..Len(incidents), row : IncidentType]
    BY DEF TypeOK, Bundle, WorkerType, Idle
  <1>2. UNCHANGED <<kafka, requests, audit, now, counts>> /\ worker' = Idle
    BY DEF Bundle
  <1>3. CASE EngineColumnsMapped
    <2> DEFINE i    == worker.incident
               row  == Bundled(incidents[i], worker.row, worker.alert, worker.engine,
                               worker.began)
               link == Link(i, worker.alert, worker.engine)
    <2>1. i \in 1..Len(incidents) /\ incidents[i] \in IncidentType
      BY <1>1 DEF TypeOK
    <2>2. row \in IncidentType
      <3> PICK max : max = Greater(worker.row.maxScore, worker.alert.body.score)
        OBVIOUS
      <3> QED BY <1>1, <2>1, BundledRow
    <2>3. link \in [incident : 1..Len(incidents), alert : 1..MaxAlerts, engine : Engines,
                    score : Nat]
      BY <1>1, BodiesAssumption DEF Link, Alerts
    <2> HIDE DEF row, link
    <2>4. incidents' = [incidents EXCEPT ![i] = row] /\ links' = Append(links, link)
      BY <1>3 DEF Bundle, row, link
    <2>5. incidents' \in Seq(IncidentType) /\ Len(incidents') = Len(incidents)
      BY <2>1, <2>2, <2>4 DEF TypeOK
    <2>6. links' \in Seq([incident : 1..Len(incidents'), alert : 1..MaxAlerts,
                          engine : Engines, score : Nat])
      BY <2>3, <2>4, <2>5 DEF TypeOK
    <2> QED BY <1>2, <2>5, <2>6 DEF TypeOK, kafka, counts, WorkerType, RequestType
  <1>4. CASE ~EngineColumnsMapped
    BY <1>2, <1>4 DEF Bundle, TypeOK, kafka, counts, WorkerType, RequestType
  <1> QED BY <1>3, <1>4

(* A request's commit rewrites columns of one incident and adds an audit   *)
(* row about it.                                                           *)
LEMMA CommitTyped ==
    ASSUME TypeOK, NEW a \in Analysts, CommitStatus(a) \/ CommitAssign(a)
    PROVE  TypeOK'
  <1> DEFINE r == requests[a]
             i == r.incident
  <1>1. UNCHANGED <<kafka, worker, links, now, counts>> /\ requests' = [requests EXCEPT ![a] = Idle]
    BY DEF CommitStatus, CommitAssign
  <1>2. /\ r \in [pc : {"status"}, incident : 1..Len(incidents), value : Statuses,
                  row : IncidentType, began : Nat]
                 \cup [pc : {"assign"}, incident : 1..Len(incidents), value : Analysts,
                       row : IncidentType, began : Nat]
        /\ i \in 1..Len(incidents)
    BY DEF TypeOK, CommitStatus, CommitAssign, RequestType, Idle
  <1>3. incidents[i] \in IncidentType /\ r.row.status \in Statuses
    <2>1. r.row \in IncidentType
      BY <1>2
    <2>2. r.row.status \in Statuses
      BY <2>1 DEF IncidentType
    <2>3. i \in 1..Len(incidents) /\ incidents \in Seq(IncidentType)
      BY <1>2 DEF TypeOK
    <2>4. incidents[i] \in IncidentType
      BY <2>3
    <2> QED BY <2>2, <2>4
  <1>4. /\ incidents' \in Seq(IncidentType) /\ Len(incidents') = Len(incidents)
        /\ audit' \in Seq([incident : 1..Len(incidents), previous : Statuses, new : Statuses])
    <2>1. CASE CommitStatus(a)
      <3>1. r.pc = "status"
        BY <2>1 DEF CommitStatus
      <3>2. WithStatus(incidents[i], r) \in IncidentType
        BY <1>2, <1>3, <3>1 DEF WithStatus, IncidentType
      <3>3. incidents' = [incidents EXCEPT ![i] = WithStatus(incidents[i], r)]
        BY <2>1 DEF CommitStatus
      <3>4. AuditRow(i, r.row.status, r.value)
              \in [incident : 1..Len(incidents), previous : Statuses, new : Statuses]
        BY <1>2, <1>3, <3>1 DEF AuditRow
      <3>5. audit' = Append(audit, AuditRow(i, r.row.status, r.value))
        BY <2>1 DEF CommitStatus
      <3> QED BY <1>2, <3>2, <3>3, <3>4, <3>5 DEF TypeOK
    <2>2. CASE CommitAssign(a)
      <3>1. r.pc = "assign"
        BY <2>2 DEF CommitAssign
      <3> DEFINE advanced == [incidents[i] EXCEPT !.status = "INVESTIGATING",
                                     !.updatedAt = r.began, !.assigned = r.value]
                 assigned == [incidents[i] EXCEPT !.assigned = r.value, !.updatedAt = r.began]
      <3>2. advanced \in IncidentType /\ assigned \in IncidentType
        BY <1>2, <1>3, <3>1 DEF IncidentType, Statuses, Active
      <3>3. AuditRow(i, r.row.status, "INVESTIGATING")
              \in [incident : 1..Len(incidents), previous : Statuses, new : Statuses]
        BY <1>2, <1>3 DEF AuditRow, Statuses, Active
      <3> HIDE DEF advanced, assigned
      <3>4. \/ /\ incidents' = [incidents EXCEPT ![i] = advanced]
               /\ audit' = Append(audit, AuditRow(i, r.row.status, "INVESTIGATING"))
            \/ /\ incidents' = [incidents EXCEPT ![i] = assigned]
               /\ audit' = audit
            \/ UNCHANGED <<incidents, audit>>
        BY <2>2 DEF CommitAssign, advanced, assigned
      <3>5. incidents \in Seq(IncidentType)
            /\ audit \in Seq([incident : 1..Len(incidents), previous : Statuses, new : Statuses])
        BY DEF TypeOK
      <3> HIDE DEF i
      <3>6. incidents' \in Seq(IncidentType) /\ Len(incidents') = Len(incidents)
        BY <1>2, <3>2, <3>4, <3>5
      <3> DEFINE row == AuditRow(i, r.row.status, "INVESTIGATING")
                 Rows == [incident : 1..Len(incidents), previous : Statuses, new : Statuses]
      <3>7. row \in Rows /\ audit \in Seq(Rows) /\ (audit' = Append(audit, row) \/ audit' = audit)
        BY <3>3, <3>4, <3>5
      <3>8. audit' \in Seq(Rows)
        <4> HIDE DEF row, Rows
        <4> QED BY <3>7
      <3> QED BY <3>6, <3>8
    <2> QED BY <2>1, <2>2
  <1>5. WorkerType' = WorkerType /\ RequestType' = RequestType
    BY <1>4 DEF WorkerType, RequestType
  <1>6. Idle \in RequestType /\ requests \in [Analysts -> RequestType]
    BY DEF RequestType, TypeOK
  <1>7. requests' \in [Analysts -> RequestType]
    <2>1. requests' = [requests EXCEPT ![a] = Idle]
      BY <1>1
    <2> QED BY <1>6, <2>1
  <1> QED BY <1>1, <1>4, <1>5, <1>7 DEF TypeOK, kafka, counts

LEMMA LoadTyped ==
    ASSUME TypeOK, NEW a \in Analysts, NEW i \in 1..Len(incidents),
           \/ \E s \in Statuses : Load(a, i, "status", s)
           \/ \E u \in Analysts : Load(a, i, "assign", u)
    PROVE  TypeOK'
  <1>1. incidents[i] \in IncidentType /\ now \in Nat
    BY DEF TypeOK
  <1> DEFINE Loaded(op, value) == [pc |-> op, incident |-> i, value |-> value,
                                   row |-> incidents[i], began |-> now]
  <1>2. /\ \A s \in Statuses : Loaded("status", s) \in RequestType
        /\ \A u \in Analysts : Loaded("assign", u) \in RequestType
    BY <1>1 DEF RequestType
  <1>3. PICK r \in RequestType : requests' = [requests EXCEPT ![a] = r]
    <2>1. \/ \E s \in Statuses : requests' = [requests EXCEPT ![a] = Loaded("status", s)]
          \/ \E u \in Analysts : requests' = [requests EXCEPT ![a] = Loaded("assign", u)]
      BY DEF Load
    <2> HIDE DEF Loaded
    <2> QED BY <1>2, <2>1
  <1>4. requests' \in [Analysts -> RequestType]
    <2>1. requests \in [Analysts -> RequestType]
      BY DEF TypeOK
    <2> QED BY <1>3, <2>1
  <1>5. UNCHANGED <<kafka, worker, tables, now, crashes, evictions, failures>> /\ served' = served + 1
    BY DEF Load
  <1> QED BY <1>4, <1>5 DEF TypeOK, kafka, tables, WorkerType, RequestType

LEMMA PublishTyped ==
    ASSUME TypeOK, NEW engine \in Engines, NEW body \in Bodies, Publish(engine, body)
    PROVE  TypeOK'
  <1> DEFINE alert == [id |-> Published + 1, body |-> body]
  <1>1. Published \in Nat
    BY DEF Published, TypeOK, Engines
  <1>2. alert \in Alerts
    BY <1>1, BoundsAssumption DEF Publish, Alerts
  <1> HIDE DEF alert
  <1>3. log' = [log EXCEPT ![engine] = Append(@, alert)]
        /\ UNCHANGED <<position, committed, worker, requests, tables, now, counts>>
    BY DEF Publish, alert
  <1>4. /\ log' \in [Engines -> Seq(Alerts)]
        /\ \A e \in Engines : Len(log[e]) <= Len(log'[e])
    BY <1>2, <1>3 DEF TypeOK
  <1>5. \A e \in Engines : committed'[e] <= position'[e] /\ position'[e] <= Len(log'[e])
    BY <1>3, <1>4 DEF TypeOK
  <1> QED BY <1>3, <1>4, <1>5 DEF TypeOK, tables, counts, WorkerType, RequestType

LEMMA TypeInit == Init => TypeOK
  BY DEF Init, TypeOK, WorkerType, RequestType

LEMMA TypeStep == TypeOK /\ [Next]_vars => TypeOK'
  <1> SUFFICES ASSUME TypeOK, [Next]_vars PROVE TypeOK'
    OBVIOUS
  <1>1. CASE \E engine \in Engines, body \in Bodies : Publish(engine, body)
    BY <1>1, PublishTyped
  <1>2. CASE Worker
    BY <1>2, FetchTyped, LookupTyped, CreateTyped, BundleTyped DEF Worker
  <1>3. CASE Fail
    BY <1>3 DEF Fail, TypeOK, kafka, tables, WorkerType, RequestType
  <1>4. CASE AutoCommit
    BY <1>4 DEF AutoCommit, TypeOK, tables, counts, WorkerType, RequestType
  <1>5. CASE Crash \/ Rejoin
    <2>1. /\ position' = committed /\ committed' = committed /\ log' = log
          /\ worker' \in {worker, Idle} /\ UNCHANGED <<requests, tables, now, served, failures>>
      BY <1>5 DEF Crash, Rejoin
    <2>2. crashes' \in Nat /\ evictions' \in Nat
      BY <1>5 DEF Crash, Rejoin, TypeOK
    <2>3. \A e \in Engines : committed'[e] <= position'[e] /\ position'[e] <= Len(log'[e])
      <3>1. /\ \A e \in Engines : committed[e] <= position[e] /\ position[e] <= Len(log[e])
            /\ \A e \in Engines : committed[e] \in Nat /\ position[e] \in Nat
            /\ \A e \in Engines : Len(log[e]) \in Nat
        BY DEF TypeOK
      <3> QED BY <2>1, <3>1
    <2> QED BY <2>1, <2>2, <2>3 DEF TypeOK, tables, WorkerType, RequestType
  <1>6. CASE \E a \in Analysts : Analyst(a)
    BY <1>6, LoadTyped, CommitTyped DEF Analyst
  <1>7. CASE Tick
    BY <1>7 DEF Tick, TypeOK, kafka, tables, counts, WorkerType, RequestType
  <1>8. CASE UNCHANGED vars
    BY <1>8 DEF vars, TypeOK, kafka, tables, counts, WorkerType, RequestType
  <1> QED BY <1>1, <1>2, <1>3, <1>4, <1>5, <1>6, <1>7, <1>8 DEF Next

(* TypeOK: rows, positions and whatever a worker or request holds point to *)
(* what exists, for any number of alerts and analysts.                     *)
THEOREM TypeCorrect == Spec => []TypeOK
  BY TypeInit, TypeStep, PTL DEF Spec

-----------------------------------------------------------------------------
(* What the worker writes agrees with the alert rows. *)

(* The columns the worker writes are what it read: nobody else writes them. *)
ReadIsCurrent ==
    worker.pc = "bundle" =>
        LET current == incidents[worker.incident]
        IN  /\ worker.row.count = current.count
            /\ worker.row.sources = current.sources
            /\ worker.row.maxScore = current.maxScore
            /\ worker.row.severity = current.severity

(* CountMatchesLinks, CorroboratedByBoth and SeverityOfWorstAlert of one   *)
(* incident.                                                               *)
Counted(i) == incidents[i].count = Cardinality(LinksOf(i))

Corroborated(i) ==
    /\ incidents[i].sources = {links[k].engine : k \in LinksOf(i)}
    /\ incidents[i].corroborated <=> incidents[i].sources = Engines

Worst(i) ==
    \E k \in LinksOf(i) :
        /\ \A m \in LinksOf(i) : links[m].score <= links[k].score
        /\ incidents[i].maxScore = links[k].score
        /\ incidents[i].severity = SeverityOf(links[k].score)

Agrees(i) == Counted(i) /\ Corroborated(i) /\ Worst(i)

IInv == TypeOK /\ ReadIsCurrent /\ \A i \in 1..Len(incidents) : Agrees(i)

LEMMA LinksOfFinite ==
    ASSUME TypeOK, NEW i
    PROVE  /\ LinksOf(i) \subseteq 1..Len(links)
           /\ IsFiniteSet(LinksOf(i)) /\ Cardinality(LinksOf(i)) \in Nat
  <1>1. Len(links) \in Nat
    BY DEF TypeOK
  <1>2. LinksOf(i) \subseteq 1..Len(links) /\ IsFiniteSet(1..Len(links))
    BY <1>1, FS_Interval DEF LinksOf
  <1> QED BY <1>2, FS_Subset, FS_CardinalityType

(* A new alert row belongs to its incident and to no other. *)
LEMMA LinkAdded ==
    ASSUME TypeOK, NEW j, NEW link, link.incident = j, links' = Append(links, link)
    PROVE  /\ links'[Len(links) + 1] = link
           /\ \A k \in 1..Len(links) : links'[k] = links[k]
           /\ Len(links) + 1 \notin 1..Len(links)
           /\ LinksOf(j)' = LinksOf(j) \cup {Len(links) + 1}
           /\ \A i : i # j => LinksOf(i)' = LinksOf(i)
  <1>1. links \in Seq([incident : 1..Len(incidents), alert : 1..MaxAlerts, engine : Engines,
                       score : Nat])
        /\ Len(links) \in Nat
    BY DEF TypeOK
  <1>2. /\ links'[Len(links) + 1] = link
        /\ \A k \in 1..Len(links) : links'[k] = links[k]
        /\ Len(links') = Len(links) + 1
    BY <1>1
  <1>3. 1..Len(links') = 1..Len(links) \cup {Len(links) + 1}
    BY <1>1, <1>2
  <1>4. LinksOf(j)' = LinksOf(j) \cup {Len(links) + 1}
    BY <1>2, <1>3 DEF LinksOf
  <1>5. ASSUME NEW i, i # j
        PROVE  LinksOf(i)' = LinksOf(i)
    BY <1>2, <1>3, <1>5 DEF LinksOf
  <1> QED BY <1>1, <1>2, <1>4, <1>5

(* A row whose columns and alert rows are unchanged agrees as before. *)
LEMMA AgreesStill ==
    ASSUME TypeOK, NEW i, Agrees(i), LinksOf(i)' = LinksOf(i),
           \A k \in 1..Len(links) : links'[k] = links[k],
           /\ incidents'[i].count = incidents[i].count
           /\ incidents'[i].sources = incidents[i].sources
           /\ incidents'[i].corroborated = incidents[i].corroborated
           /\ incidents'[i].maxScore = incidents[i].maxScore
           /\ incidents'[i].severity = incidents[i].severity
    PROVE  Agrees(i)'
  <1>1. \A k \in LinksOf(i) : links'[k] = links[k]
    BY LinksOfFinite
  <1>2. Counted(i)'
    BY DEF Agrees, Counted
  <1>3. Corroborated(i)'
    BY <1>1 DEF Agrees, Corroborated
  <1>4. Worst(i)'
    BY <1>1 DEF Agrees, Worst
  <1> QED BY <1>2, <1>3, <1>4 DEF Agrees

LEMMA BothEngines ==
    ASSUME NEW S \in SUBSET Engines
    PROVE  Cardinality(S) > 1 <=> S = Engines
  <1>1. S \in {{}, {"flink-primary"}, {"python-secondary"}, {"flink-primary", "python-secondary"}}
    BY DEF Engines
  <1>2. /\ Cardinality({}) = 0
        /\ Cardinality({"flink-primary"}) = 1 /\ Cardinality({"python-secondary"}) = 1
    BY FS_EmptySet, FS_Singleton
  <1>3. Cardinality(Engines) = 2
    <2>1. IsFiniteSet({"flink-primary"}) /\ "python-secondary" \notin {"flink-primary"}
      BY FS_Singleton
    <2> DEFINE flink == {"flink-primary"}
    <2>2. Cardinality(flink) = 1
      BY <1>2
    <2> HIDE DEF flink
    <2>3. Cardinality(flink \cup {"python-secondary"}) = Cardinality(flink) + 1
      BY <2>1, FS_AddElement DEF flink
    <2>4. Engines = flink \cup {"python-secondary"}
      BY DEF Engines, flink
    <2> QED BY <2>2, <2>3, <2>4
  <1>4. S = Engines \/ Cardinality(S) \in {0, 1}
    BY <1>1, <1>2 DEF Engines
  <1>5. Engines \notin {{}, {"flink-primary"}, {"python-secondary"}}
    BY DEF Engines
  <1> QED BY <1>1, <1>2, <1>3, <1>4

LEMMA CreateAgrees ==
    ASSUME IInv, TypeOK', Create
    PROVE  IInv'
  <1>0. TypeOK /\ ReadIsCurrent /\ \A i \in 1..Len(incidents) : Agrees(i)
    BY DEF IInv
  <1>1. worker \in [pc : {"create"}, engine : Engines, alert : Alerts, began : Nat]
    BY <1>0 DEF TypeOK, Create, WorkerType, Idle
  <1>2. ReadIsCurrent'
    BY DEF Create, ReadIsCurrent, Idle
  <1>3. CASE EngineColumnsMapped
    <2> PICK j, new, row : /\ j = Len(incidents) + 1 /\ new = Len(links) + 1
                           /\ row = NewIncident(worker.alert, worker.engine, worker.began)
      OBVIOUS
    <2> PICK link : link = Link(j, worker.alert, worker.engine)
      OBVIOUS
    <2>1. /\ row.count = 1 /\ row.maxScore = worker.alert.body.score
          /\ row.severity = SeverityOf(worker.alert.body.score)
          /\ row.sources = {worker.engine} /\ row.corroborated = FALSE
      <3>1. worker.alert \in Alerts /\ worker.engine \in Engines /\ worker.began \in Nat
        BY <1>1
      <3> QED BY ZenonT(60), <3>1, NewIncidentRow
    <2>2. incidents' = Append(incidents, row) /\ links' = Append(links, link)
      BY <1>3 DEF Create
    <2>3. /\ link.incident = j /\ link.engine = worker.engine
          /\ link.score = worker.alert.body.score /\ link.score \in Nat
      BY <1>1, BodiesAssumption DEF Link, Alerts
    <2>4. /\ links'[new] = link /\ \A k \in 1..Len(links) : links'[k] = links[k]
          /\ LinksOf(j)' = LinksOf(j) \cup {new}
          /\ \A i : i # j => LinksOf(i)' = LinksOf(i)
      BY <1>0, <2>2, <2>3, LinkAdded
    <2>5. LinksOf(j) = {}
      <3> DEFINE Rows == [incident : 1..Len(incidents), alert : 1..MaxAlerts, engine : Engines,
                          score : Nat]
      <3>0. links \in Seq(Rows) /\ \A r \in Rows : r.incident \in 1..Len(incidents)
        BY <1>0 DEF TypeOK
      <3>1. \A k \in 1..Len(links) : links[k].incident \in 1..Len(incidents)
        <4> HIDE DEF Rows
        <4> QED BY <3>0
      <3>2. j \notin 1..Len(incidents)
        BY <1>0 DEF TypeOK
      <3> QED BY <3>1, <3>2 DEF LinksOf
    <2>6. /\ Len(incidents) \in Nat /\ 1..Len(incidents') = 1..Len(incidents) \cup {j}
          /\ incidents'[j] = row
          /\ \A i \in 1..Len(incidents) : i # j /\ incidents'[i] = incidents[i]
      <3>1. incidents \in Seq(IncidentType)
        BY <1>0 DEF TypeOK
      <3> QED BY <2>2, <3>1
    <2>7. Agrees(j)'
      <3>1. LinksOf(j)' = {new}
        BY <2>4, <2>5
      <3>2. Counted(j)'
        BY <2>1, <2>6, <3>1, FS_Singleton DEF Counted
      <3>3. Corroborated(j)'
        <4>1. {links'[k].engine : k \in LinksOf(j)'} = {worker.engine}
          BY <2>3, <2>4, <3>1
        <4>2. {worker.engine} # Engines
          BY <1>1 DEF Engines
        <4> QED BY <2>1, <2>6, <4>1, <4>2 DEF Corroborated
      <3>4. Worst(j)'
        BY <2>1, <2>3, <2>4, <2>6, <3>1 DEF Worst
      <3> QED BY <3>2, <3>3, <3>4 DEF Agrees
    <2>8. ASSUME NEW i \in 1..Len(incidents)
          PROVE  Agrees(i)'
      BY <1>0, <2>4, <2>6, AgreesStill
    <2> QED BY <1>2, <2>6, <2>7, <2>8 DEF IInv
  <1>4. CASE ~EngineColumnsMapped
    <2>1. incidents' = incidents /\ links' = links
      BY <1>4 DEF Create
    <2>2. ASSUME NEW i \in 1..Len(incidents)
          PROVE  Agrees(i)'
      <3>1. LinksOf(i)' = LinksOf(i)
        BY <2>1 DEF LinksOf
      <3> QED BY <1>0, <2>1, <3>1, AgreesStill
    <2> QED BY <1>2, <2>1, <2>2 DEF IInv
  <1> QED BY <1>3, <1>4

(* An incident's severity is never lowered, and is that of its maximum.    *)
LEMMA EscalatedSeverity ==
    ASSUME NEW old \in Nat, NEW score \in Nat, NEW max, max = Greater(old, score)
    PROVE  /\ max \in {old, score} /\ old <= max /\ score <= max
           /\ Escalated(SeverityOf(old), max) = SeverityOf(max)
  BY DEF Greater, Escalated, SeverityOf

LEMMA BundleAgrees ==
    ASSUME IInv, TypeOK', Bundle
    PROVE  IInv'
  <1>0. TypeOK /\ ReadIsCurrent /\ \A i \in 1..Len(incidents) : Agrees(i)
    BY DEF IInv
  <1>1. worker \in [pc : {"bundle"}, engine : Engines, alert : Alerts, began : Nat,
                    incident : 1..Len(incidents), row : IncidentType]
    BY <1>0 DEF TypeOK, Bundle, WorkerType, Idle
  <1>2. ReadIsCurrent'
    BY DEF Bundle, ReadIsCurrent, Idle
  <1>3. CASE EngineColumnsMapped
    <2> PICK j, new, row, link :
             /\ j = worker.incident /\ new = Len(links) + 1
             /\ row = Bundled(incidents[j], worker.row, worker.alert, worker.engine, worker.began)
             /\ link = Link(j, worker.alert, worker.engine)
      OBVIOUS
    <2>1. /\ worker.alert \in Alerts /\ worker.engine \in Engines /\ worker.began \in Nat
          /\ worker.row \in IncidentType /\ j \in 1..Len(incidents)
          /\ incidents \in Seq(IncidentType)
      BY <1>0, <1>1 DEF TypeOK
    <2>2. incidents[j] \in IncidentType
      BY <2>1
    <2> PICK max : max = Greater(worker.row.maxScore, worker.alert.body.score)
      OBVIOUS
    <2>3. /\ row.count = worker.row.count + 1 /\ row.maxScore = max
          /\ row.severity = Escalated(worker.row.severity, max)
          /\ row.sources = worker.row.sources \cup {worker.engine}
      <3>1. row = Bundled(incidents[j], worker.row, worker.alert, worker.engine, worker.began)
        OBVIOUS
      <3>2. row.count = worker.row.count + 1
        <4> PICK current \in IncidentType, read \in IncidentType, alert \in Alerts,
                 engine \in Engines, time \in Nat :
               /\ current = incidents[j] /\ read = worker.row /\ alert = worker.alert
               /\ engine = worker.engine /\ time = worker.began
          BY <2>1, <2>2
        <4>1. Bundled(current, read, alert, engine, time).count = read.count + 1
          BY BundledRow
        <4> QED BY <3>1, <4>1
      <3>2a. row.sources = worker.row.sources \cup {worker.engine}
        BY <2>1, <2>2, <3>1, BundledRow
      <3>3. row.maxScore = max
        BY <2>1, <2>2, <3>1, BundledRow
      <3>4. row.severity = Escalated(worker.row.severity, max)
        BY <2>1, <2>2, <3>1, BundledRow
      <3> QED BY <3>2, <3>2a, <3>3, <3>4
    <2>3a. row.corroborated <=> Cardinality(worker.row.sources \cup {worker.engine}) > 1
      BY <2>1, <2>2, BundledFlag
    <2>4. /\ worker.row.count = incidents[j].count /\ worker.row.sources = incidents[j].sources
          /\ worker.row.maxScore = incidents[j].maxScore
          /\ worker.row.severity = incidents[j].severity
      BY <1>0, <1>1 DEF ReadIsCurrent
    <2>5. incidents' = [incidents EXCEPT ![j] = row] /\ links' = Append(links, link)
      BY <1>3 DEF Bundle
    <2>6. /\ link.incident = j /\ link.engine = worker.engine
          /\ link.score = worker.alert.body.score /\ link.score \in Nat
      BY <1>1, BodiesAssumption DEF Link, Alerts
    <2>7. /\ links'[new] = link /\ \A k \in 1..Len(links) : links'[k] = links[k]
          /\ new \notin 1..Len(links)
          /\ LinksOf(j)' = LinksOf(j) \cup {new}
          /\ \A i : i # j => LinksOf(i)' = LinksOf(i)
      BY <1>0, <2>5, <2>6, LinkAdded
    <2>8. /\ 1..Len(incidents') = 1..Len(incidents) /\ incidents'[j] = row
          /\ \A i \in 1..Len(incidents) : i # j => incidents'[i] = incidents[i]
      BY <2>1, <2>5
    <2>9. /\ LinksOf(j) \subseteq 1..Len(links) /\ IsFiniteSet(LinksOf(j))
          /\ Cardinality(LinksOf(j)) \in Nat
      BY <1>0, LinksOfFinite
    <2>10. Counted(j) /\ Corroborated(j) /\ Worst(j)
      BY <1>0, <2>1 DEF Agrees
    <2>11. \A k \in LinksOf(j) : links'[k] = links[k]
      BY <2>7, <2>9
    <2>12. Counted(j)'
      <3>1. Cardinality(LinksOf(j)') = Cardinality(LinksOf(j)) + 1
        BY <2>7, <2>9, FS_AddElement
      <3> QED BY <2>3, <2>4, <2>8, <2>10, <3>1 DEF Counted
    <2>13. Corroborated(j)'
      <3>1. {links'[k].engine : k \in LinksOf(j)'}
              = {links[k].engine : k \in LinksOf(j)} \cup {worker.engine}
        BY <2>6, <2>7, <2>11
      <3>2. row.sources = {links'[k].engine : k \in LinksOf(j)'}
        BY <2>3, <2>4, <2>10, <3>1 DEF Corroborated
      <3>3. row.sources \in SUBSET Engines /\ (row.corroborated <=> Cardinality(row.sources) > 1)
        BY <2>1, <2>3, <2>3a DEF IncidentType
      <3> QED BY <2>8, <3>2, <3>3, BothEngines DEF Corroborated
    <2>14. Worst(j)'
      <3>1. PICK k \in LinksOf(j) :
              /\ \A m \in LinksOf(j) : links[m].score <= links[k].score
              /\ incidents[j].maxScore = links[k].score
              /\ incidents[j].severity = SeverityOf(links[k].score)
        BY <2>10 DEF Worst
      <3>2. \A m \in LinksOf(j) : links[m].score \in Nat
        <4> DEFINE Rows == [incident : 1..Len(incidents), alert : 1..MaxAlerts,
                            engine : Engines, score : Nat]
        <4>1. links \in Seq(Rows) /\ \A r \in Rows : r.score \in Nat
          BY <1>0 DEF TypeOK
        <4> HIDE DEF Rows
        <4> QED BY <2>9, <4>1
      <3>3. /\ max \in {links[k].score, link.score}
            /\ links[k].score <= max /\ link.score <= max
            /\ Escalated(SeverityOf(links[k].score), max) = SeverityOf(max)
        BY <2>4, <2>6, <3>1, <3>2, EscalatedSeverity
      <3>4. row.maxScore = max /\ row.severity = SeverityOf(max)
        BY <2>3, <2>4, <3>1, <3>3
      <3>5. max \in Nat
        BY <2>6, <3>2, <3>3
      <3>6. \A m \in LinksOf(j)' : links'[m].score <= max
        BY <2>6, <2>7, <2>11, <3>1, <3>2, <3>3, <3>5
      <3>7. CASE max = links[k].score
        BY <2>7, <2>8, <2>11, <3>4, <3>6, <3>7 DEF Worst
      <3>8. CASE max = link.score
        BY <2>7, <2>8, <3>4, <3>6, <3>8 DEF Worst
      <3> QED BY <3>3, <3>7, <3>8
    <2>15. ASSUME NEW i \in 1..Len(incidents), i # j
           PROVE  Agrees(i)'
      BY <1>0, <2>7, <2>8, <2>15, AgreesStill
    <2> QED BY <1>2, <2>8, <2>12, <2>13, <2>14, <2>15 DEF IInv, Agrees
  <1>4. CASE ~EngineColumnsMapped
    <2>1. incidents' = incidents /\ links' = links
      BY <1>4 DEF Bundle
    <2>2. ASSUME NEW i \in 1..Len(incidents)
          PROVE  Agrees(i)'
      <3>1. LinksOf(i)' = LinksOf(i)
        BY <2>1 DEF LinksOf
      <3> QED BY <1>0, <2>1, <3>1, AgreesStill
    <2> QED BY <1>2, <2>1, <2>2 DEF IInv
  <1> QED BY <1>3, <1>4

(* An analyst's commit leaves the worker's columns alone. *)
LEMMA CommitAgrees ==
    ASSUME IInv, TypeOK', NEW a \in Analysts, CommitStatus(a) \/ CommitAssign(a)
    PROVE  IInv'
  <1>0. TypeOK /\ ReadIsCurrent /\ \A i \in 1..Len(incidents) : Agrees(i)
    BY DEF IInv
  <1>1. links' = links /\ worker' = worker
    BY DEF CommitStatus, CommitAssign
  <1> DEFINE SameColumns ==
        /\ Len(incidents') = Len(incidents)
        /\ \A i \in 1..Len(incidents) :
             /\ incidents'[i].count = incidents[i].count
             /\ incidents'[i].sources = incidents[i].sources
             /\ incidents'[i].corroborated = incidents[i].corroborated
             /\ incidents'[i].maxScore = incidents[i].maxScore
             /\ incidents'[i].severity = incidents[i].severity
  <1>2. SameColumns
    <2>1. incidents \in Seq(IncidentType) /\ \A i \in 1..Len(incidents) : incidents[i] \in IncidentType
      BY <1>0 DEF TypeOK
    <2>2. CASE CommitStatus(a)
      <3>1. incidents' = [incidents EXCEPT ![requests[a].incident] = WithStatus(@, requests[a])]
        BY SMTT(30), <2>2 DEF CommitStatus
      <3> QED BY <2>1, <3>1 DEF WithStatus, IncidentType
    <2>3. CASE CommitAssign(a)
      <3> PICK r : r = requests[a]
        OBVIOUS
      <3>1. \/ \E v : incidents' = [incidents EXCEPT ![r.incident] =
                       [@ EXCEPT !.status = "INVESTIGATING", !.updatedAt = r.began,
                                 !.assigned = v]]
            \/ \E v : incidents' = [incidents EXCEPT ![r.incident] =
                       [@ EXCEPT !.assigned = v, !.updatedAt = r.began]]
            \/ incidents' = incidents
        BY <2>3 DEF CommitAssign
      <3>2. ASSUME NEW v, incidents' = [incidents EXCEPT ![r.incident] =
                       [@ EXCEPT !.status = "INVESTIGATING", !.updatedAt = r.began,
                                 !.assigned = v]]
            PROVE  SameColumns
        BY SMTT(30), <2>1, <3>2 DEF IncidentType
      <3>3. ASSUME NEW v, incidents' = [incidents EXCEPT ![r.incident] =
                       [@ EXCEPT !.assigned = v, !.updatedAt = r.began]]
            PROVE  SameColumns
        BY SMTT(30), <2>1, <3>3 DEF IncidentType
      <3>4. CASE incidents' = incidents
        BY <3>4
      <3> QED BY <3>1, <3>2, <3>3, <3>4
    <2> QED BY <2>2, <2>3
  <1>3. ReadIsCurrent'
    <2>1. worker.pc = "bundle" => worker.incident \in 1..Len(incidents)
      <3>1. worker \in WorkerType
        BY <1>0 DEF TypeOK
      <3> QED BY <3>1 DEF WorkerType, Idle
    <2> QED BY <1>0, <1>1, <1>2, <2>1 DEF ReadIsCurrent
  <1>4. ASSUME NEW i \in 1..Len(incidents)
        PROVE  Agrees(i)'
    <2>1. LinksOf(i)' = LinksOf(i)
      BY <1>1 DEF LinksOf
    <2> QED BY <1>0, <1>1, <1>2, <2>1, AgreesStill
  <1> QED BY <1>2, <1>3, <1>4 DEF IInv

LEMMA IInvInit == Init => IInv
  <1>1. Init => Len(incidents) = 0 /\ worker = Idle
    BY DEF Init
  <1> QED BY <1>1, TypeInit DEF IInv, ReadIsCurrent, Idle

LEMMA IInvStep == IInv /\ [Next]_vars => IInv'
  <1> SUFFICES ASSUME IInv, [Next]_vars PROVE IInv'
    OBVIOUS
  <1>1. TypeOK'
    BY TypeStep DEF IInv
  <1>2. ASSUME UNCHANGED <<incidents, links>>, ReadIsCurrent'
        PROVE  IInv'
    <2>1. incidents' = incidents /\ links' = links
      BY <1>2
    <2>2. ASSUME NEW i \in 1..Len(incidents)
          PROVE  Agrees(i)'
      <3>1. Agrees(i)
        BY <2>1, <2>2 DEF IInv
      <3> QED BY <2>1, <3>1 DEF Agrees, Counted, Corroborated, Worst, LinksOf
    <2> QED BY <1>1, <1>2, <2>1, <2>2 DEF IInv
  <1>3. CASE \E engine \in Engines, body \in Bodies : Publish(engine, body)
    BY <1>2, <1>3 DEF Publish, tables, IInv, ReadIsCurrent
  <1>4. CASE \E engine \in Engines : Fetch(engine)
    BY <1>2, <1>4 DEF Fetch, tables, ReadIsCurrent
  <1>5. CASE Lookup
    <2>1. ReadIsCurrent'
      BY <1>5 DEF Lookup, tables, ReadIsCurrent, Idle
    <2> QED BY <1>2, <1>5, <2>1 DEF Lookup, tables
  <1>6. CASE Create
    BY <1>1, <1>6, CreateAgrees
  <1>7. CASE Bundle
    BY <1>1, <1>7, BundleAgrees
  <1>8. CASE Fail \/ Crash
    BY <1>2, <1>8 DEF Fail, Crash, tables, ReadIsCurrent, Idle
  <1>9. CASE AutoCommit \/ Rejoin \/ Tick \/ UNCHANGED vars
    BY <1>2, <1>9 DEF AutoCommit, Rejoin, Tick, vars, tables, IInv, ReadIsCurrent
  <1>10. ASSUME NEW a \in Analysts, Analyst(a)
         PROVE  IInv'
    <2>1. CASE CommitStatus(a) \/ CommitAssign(a)
      BY <1>1, <2>1, CommitAgrees
    <2>2. CASE UNCHANGED <<worker, tables>>
      BY <1>2, <2>2 DEF tables, IInv, ReadIsCurrent
    <2> QED BY <1>10, <2>1, <2>2 DEF Analyst, Load
  <1> QED BY <1>3, <1>4, <1>5, <1>6, <1>7, <1>8, <1>9, <1>10 DEF Next, Worker

LEMMA IInvAlways == Spec => []IInv
  BY IInvInit, IInvStep, PTL DEF Spec

(* CountMatchesLinks: alert_count, computed from a row read earlier, is    *)
(* the number of the incident's alert rows after any crashes, failures and *)
(* analysts.                                                               *)
THEOREM CountIsExact == Spec => []CountMatchesLinks
  <1>1. IInv => CountMatchesLinks
    BY DEF IInv, Agrees, Counted, CountMatchesLinks
  <1> QED BY <1>1, IInvAlways, PTL

(* CorroboratedByBoth: engine_sources is the engines of the alert rows,    *)
(* and corroborated says that both are among them, in any order of their   *)
(* alerts.                                                                 *)
THEOREM CorroborationIsExact == Spec => []CorroboratedByBoth
  <1>1. IInv => CorroboratedByBoth
    BY DEF IInv, Agrees, Corroborated, CorroboratedByBoth
  <1> QED BY <1>1, IInvAlways, PTL

(* SeverityOfWorstAlert: an incident has the severity its worst alert row  *)
(* calls for, in any order of their arrival.                               *)
THEOREM SeverityIsWorst == Spec => []SeverityOfWorstAlert
  <1>1. IInv => SeverityOfWorstAlert
    BY DEF IInv, Agrees, Worst, SeverityOfWorstAlert
  <1> QED BY <1>1, IInvAlways, PTL

-----------------------------------------------------------------------------
(* A member of the group records an alert once. *)

RowsOf(n) == {k \in 1..Len(links) : links[k].alert = n}

(* The alert the worker has in hand is one more to come. *)
InHand(n) == IF worker.pc # "idle" /\ worker.alert.id = n THEN 1 ELSE 0

(* An alert is at one place of the topics, and has an id of its own. *)
IdsDistinct ==
    /\ \A e \in Engines : \A p \in 1..Len(log[e]) : log[e][p].id <= Published
    /\ \A e, f \in Engines : \A p \in 1..Len(log[e]), q \in 1..Len(log[f]) :
         log[e][p].id = log[f][q].id => e = f /\ p = q

(* What the worker has in hand is a message of its topics: the last one it *)
(* fetched, unless it joined the group again meanwhile.                    *)
HoldsMessage ==
    worker.pc # "idle" =>
        \E p \in 1..Len(log[worker.engine]) : worker.alert = log[worker.engine][p]

(* Alert rows are about messages of the topics. *)
FromTopics ==
    \A k \in 1..Len(links) :
        \E e \in Engines : \E p \in 1..Len(log[e]) : links[k].alert = log[e][p].id

Sessions == crashes + evictions

(* A message has been in hand once for every crash and every lost          *)
(* membership, and once more if the position is past it.                   *)
Passed(e, p) == IF p <= position[e] THEN 1 ELSE 0

OncePerPass ==
    \A e \in Engines : \A p \in 1..Len(log[e]) :
        Cardinality(RowsOf(log[e][p].id)) + InHand(log[e][p].id) <= Sessions + Passed(e, p)

OnceInv == TypeOK /\ IdsDistinct /\ HoldsMessage /\ FromTopics /\ OncePerPass

LEMMA RowsOfFinite ==
    ASSUME TypeOK, NEW n
    PROVE  /\ RowsOf(n) \subseteq 1..Len(links)
           /\ IsFiniteSet(RowsOf(n)) /\ Cardinality(RowsOf(n)) \in Nat
  <1>1. Len(links) \in Nat
    BY DEF TypeOK
  <1>2. RowsOf(n) \subseteq 1..Len(links) /\ IsFiniteSet(1..Len(links))
    BY <1>1, FS_Interval DEF RowsOf
  <1> QED BY <1>2, FS_Subset, FS_CardinalityType

LEMMA LogFacts ==
    ASSUME TypeOK
    PROVE  /\ Published \in Nat
           /\ \A e \in Engines :
                /\ log[e] \in Seq(Alerts) /\ Len(log[e]) \in Nat /\ position[e] \in Nat
                /\ position[e] <= Len(log[e]) /\ committed[e] <= position[e]
                /\ \A p \in 1..Len(log[e]) : log[e][p] \in Alerts
           /\ Sessions \in Nat
  <1>1. \A e \in Engines : log[e] \in Seq(Alerts) /\ Len(log[e]) \in Nat /\ position[e] \in Nat
    BY DEF TypeOK
  <1>2. \A e \in Engines : \A p \in 1..Len(log[e]) : log[e][p] \in Alerts
    BY <1>1
  <1>3. Published \in Nat
    <2>1. "flink-primary" \in Engines /\ "python-secondary" \in Engines
      BY DEF Engines
    <2>2. Len(log["flink-primary"]) \in Nat /\ Len(log["python-secondary"]) \in Nat
      BY <1>1, <2>1
    <2>3. PICK m \in Nat, n \in Nat :
            m = Len(log["flink-primary"]) /\ n = Len(log["python-secondary"])
      BY <2>2
    <2>4. m + n \in Nat
      OBVIOUS
    <2>5. Published = m + n
      BY <2>3, Zenon DEF Published
    <2> QED BY <2>4, <2>5, Zenon
  <1> QED BY <1>1, <1>2, <1>3 DEF TypeOK, Sessions

LEMMA PublishOnce ==
    ASSUME OnceInv, TypeOK', NEW engine \in Engines, NEW body \in Bodies, Publish(engine, body)
    PROVE  OnceInv'
  <1>0. TypeOK /\ IdsDistinct /\ HoldsMessage /\ FromTopics /\ OncePerPass
    BY DEF OnceInv
  <1> PICK alert, last : alert = [id |-> Published + 1, body |-> body] /\ last = Len(log[engine]) + 1
    OBVIOUS
  <1>1. /\ log' = [log EXCEPT ![engine] = Append(@, alert)] /\ alert.id = Published + 1
        /\ position' = position /\ worker' = worker /\ links' = links /\ Sessions' = Sessions
    BY DEF Publish, tables, counts, Sessions
  <1>2. /\ \A e \in Engines : e # engine => log'[e] = log[e]
        /\ Len(log'[engine]) = last /\ log'[engine][last] = alert
        /\ \A p \in 1..Len(log[engine]) : log'[engine][p] = log[engine][p]
        /\ Len(log[engine]) \in Nat
    BY <1>0, <1>1, LogFacts DEF TypeOK
  <1>3. Published' = Published + 1 /\ Published \in Nat
    <2>1. Published \in Nat
      BY <1>0, LogFacts
    <2>2. "flink-primary" \in Engines /\ "python-secondary" \in Engines
      BY DEF Engines
    <2>3. /\ Len(log["flink-primary"]) \in Nat /\ Len(log["python-secondary"]) \in Nat
      BY <1>0, <2>2, LogFacts
    <2>4. PICK m, n, m2, n2 :
            /\ m \in Nat /\ m = Len(log["flink-primary"])
            /\ n \in Nat /\ n = Len(log["python-secondary"])
            /\ m2 = Len(log'["flink-primary"]) /\ n2 = Len(log'["python-secondary"])
      BY <2>3
    <2>5. Published = m + n /\ Published' = m2 + n2
      BY <2>4, Zenon DEF Published
    <2>6. (m2 = m + 1 /\ n2 = n) \/ (m2 = m /\ n2 = n + 1)
      BY <1>2, <2>2, <2>4 DEF Engines
    <2>7. m2 + n2 = m + n + 1
      <3>1. m \in Nat /\ n \in Nat
        BY <2>4
      <3> QED BY <2>6, <3>1
    <2> QED BY <2>1, <2>5, <2>7, Zenon
  <1>4. \A e \in Engines : \A p \in 1..Len(log'[e]) :
          \/ p \in 1..Len(log[e]) /\ log'[e][p] = log[e][p]
          \/ e = engine /\ p = last /\ log'[e][p] = alert
    BY <1>2
  <1>5. \A e \in Engines : \A p \in 1..Len(log[e]) : log[e][p].id <= Published /\ log[e][p].id \in Nat
    BY <1>0, LogFacts DEF IdsDistinct, Alerts
  <1>6. IdsDistinct'
    <2>1. \A e \in Engines : \A p \in 1..Len(log'[e]) : log'[e][p].id <= Published'
      BY <1>1, <1>3, <1>4, <1>5
    <2>2. ASSUME NEW e \in Engines, NEW f \in Engines,
                 NEW p \in 1..Len(log'[e]), NEW q \in 1..Len(log'[f]),
                 log'[e][p].id = log'[f][q].id
          PROVE  e = f /\ p = q
      <3>1. CASE p \in 1..Len(log[e]) /\ log'[e][p] = log[e][p]
        <4>1. CASE q \in 1..Len(log[f]) /\ log'[f][q] = log[f][q]
          BY <1>0, <2>2, <3>1, <4>1 DEF IdsDistinct
        <4>2. CASE f = engine /\ q = last /\ log'[f][q] = alert
          <5>1. log[e][p].id = Published + 1
            BY <1>1, <2>2, <3>1, <4>2
          <5>2. log[e][p].id <= Published /\ log[e][p].id \in Nat
            BY <1>5, <3>1
          <5> QED BY <1>3, <5>1, <5>2
        <4> QED BY <1>4, <4>1, <4>2
      <3>2. CASE e = engine /\ p = last /\ log'[e][p] = alert
        BY <1>1, <1>3, <1>4, <1>5, <2>2, <3>2
      <3> QED BY <1>4, <3>1, <3>2
    <2> QED BY <2>1, <2>2 DEF IdsDistinct
  <1>7. HoldsMessage'
    <2>1. worker.pc # "idle" => worker.engine \in Engines
      <3>1. worker \in WorkerType
        BY <1>0 DEF TypeOK
      <3> QED BY <3>1 DEF WorkerType, Idle
    <2> QED BY <1>0, <1>1, <1>2, <2>1 DEF HoldsMessage
  <1>8. FromTopics'
    <2>1. \A e \in Engines : \A p \in 1..Len(log[e]) :
            p \in 1..Len(log'[e]) /\ log'[e][p] = log[e][p]
      BY <1>2
    <2> QED BY <1>0, <1>1, <2>1 DEF FromTopics
  <1>9. OncePerPass'
    <2>1. \A n : RowsOf(n)' = RowsOf(n) /\ InHand(n)' = InHand(n)
      BY <1>1 DEF RowsOf, InHand
    <2>2. \A e \in Engines : \A p : Passed(e, p)' = Passed(e, p)
      BY <1>1 DEF Passed
    <2>3. RowsOf(alert.id) = {}
      <3>1. ASSUME NEW k \in 1..Len(links), links[k].alert = alert.id
            PROVE  FALSE
        <4>1. PICK e \in Engines : \E p \in 1..Len(log[e]) : links[k].alert = log[e][p].id
          BY <1>0 DEF FromTopics
        <4>2. PICK p \in 1..Len(log[e]) : links[k].alert = log[e][p].id
          BY <4>1
        <4>3. log[e][p].id <= Published /\ log[e][p].id \in Nat
          BY <1>5
        <4> QED BY <1>1, <1>3, <3>1, <4>2, <4>3
      <3> QED BY <3>1 DEF RowsOf
    <2>4. InHand(alert.id) = 0
      <3>1. worker.pc # "idle" => worker.engine \in Engines
        <4>1. worker \in WorkerType
          BY <1>0 DEF TypeOK
        <4> QED BY <4>1 DEF WorkerType, Idle
      <3> QED BY <1>0, <1>1, <1>3, <1>5, <3>1 DEF HoldsMessage, InHand
    <2>5. ASSUME NEW e \in Engines, NEW p \in 1..Len(log'[e])
          PROVE  Cardinality(RowsOf(log'[e][p].id)) + InHand(log'[e][p].id)
                   <= Sessions + Passed(e, p)
      <3>1. CASE p \in 1..Len(log[e]) /\ log'[e][p] = log[e][p]
        BY <1>0, <3>1 DEF OncePerPass
      <3>2. CASE e = engine /\ p = last /\ log'[e][p] = alert
        <4>1. Sessions \in Nat /\ Passed(e, p) \in Nat
          BY <1>0, LogFacts DEF Passed
        <4>2. Cardinality(RowsOf(alert.id)) = 0
          BY <2>3, FS_EmptySet
        <4>3. log'[e][p].id = alert.id
          BY <3>2
        <4>4. Cardinality(RowsOf(log'[e][p].id)) = 0 /\ InHand(log'[e][p].id) = 0
          BY <2>4, <4>2, <4>3
        <4> QED BY <4>1, <4>4
      <3> QED BY <1>4, <3>1, <3>2
    <2> QED BY <1>1, <2>1, <2>2, <2>5 DEF OncePerPass
  <1> QED BY <1>6, <1>7, <1>8, <1>9 DEF OnceInv

LEMMA WorkerFacts ==
    ASSUME TypeOK, worker.pc # "idle"
    PROVE  /\ worker.engine \in Engines /\ worker.alert \in Alerts
           /\ worker.pc \in {"lookup", "create", "bundle"}
           /\ worker.pc = "bundle" => worker.incident \in 1..Len(incidents)
  <1>1. worker \in WorkerType
    BY DEF TypeOK
  <1> QED BY <1>1 DEF WorkerType, Idle

(* Where the topics are left alone, what matters is each message's count.  *)
LEMMA OnceFrom ==
    ASSUME OnceInv, TypeOK', log' = log, HoldsMessage', FromTopics',
           \A e \in Engines : \A p \in 1..Len(log[e]) :
             Cardinality(RowsOf(log[e][p].id)') + InHand(log[e][p].id)'
               <= Sessions' + Passed(e, p)'
    PROVE  OnceInv'
  <1>1. Published' = Published
    BY DEF Published
  <1>2. IdsDistinct'
    BY <1>1 DEF OnceInv, IdsDistinct
  <1>3. OncePerPass'
    <2>1. ASSUME NEW e \in Engines, NEW p \in 1..Len(log'[e])
          PROVE  /\ Cardinality({k \in 1..Len(links') : links'[k].alert = log'[e][p].id})
                    + (IF worker'.pc # "idle" /\ worker'.alert.id = log'[e][p].id THEN 1 ELSE 0)
                      <= Sessions' + (IF p <= position'[e] THEN 1 ELSE 0)
      BY <2>1 DEF RowsOf, InHand, Passed
    <2> QED BY <2>1 DEF OncePerPass, RowsOf, InHand, Passed
  <1> QED BY <1>2, <1>3 DEF OnceInv

(* A step that writes no alert row and takes no message. *)
LEMMA NothingRecorded ==
    ASSUME OnceInv, TypeOK', log' = log, links' = links, position' = position,
           Sessions' = Sessions,
           \/ worker'.pc = "idle"
           \/ /\ worker.pc # "idle" /\ worker'.pc # "idle"
              /\ worker'.alert = worker.alert /\ worker'.engine = worker.engine
           \/ worker' = worker
    PROVE  OnceInv'
  <1>0. TypeOK /\ IdsDistinct /\ HoldsMessage /\ FromTopics /\ OncePerPass
    BY DEF OnceInv
  <1>1. HoldsMessage' /\ FromTopics'
    BY <1>0 DEF HoldsMessage, FromTopics
  <1>2. \A n : /\ RowsOf(n)' = RowsOf(n)
               /\ InHand(n)' \in {0, 1} /\ InHand(n) \in {0, 1} /\ InHand(n)' <= InHand(n)
    BY DEF RowsOf, InHand
  <1>3. ASSUME NEW e \in Engines, NEW p \in 1..Len(log[e])
        PROVE  Cardinality(RowsOf(log[e][p].id)') + InHand(log[e][p].id)'
                 <= Sessions' + Passed(e, p)'
    <2> PICK n : n = log[e][p].id
      OBVIOUS
    <2>1. Cardinality(RowsOf(n)) + InHand(n) <= Sessions + Passed(e, p)
      BY <1>0 DEF OncePerPass
    <2>2. Cardinality(RowsOf(n)) \in Nat /\ Sessions \in Nat
      BY <1>0, RowsOfFinite, LogFacts
    <2>3. Passed(e, p)' = Passed(e, p) /\ Passed(e, p) \in {0, 1}
      BY DEF Passed
    <2>4. Cardinality(RowsOf(n)') + InHand(n)' <= Sessions' + Passed(e, p)'
      BY <1>2, <2>1, <2>2, <2>3
    <2> QED BY <2>4
  <1> QED BY <1>1, <1>3, OnceFrom

LEMMA FetchOnce ==
    ASSUME OnceInv, TypeOK', NEW engine \in Engines, Fetch(engine)
    PROVE  OnceInv'
  <1>0. TypeOK /\ IdsDistinct /\ HoldsMessage /\ FromTopics /\ OncePerPass
    BY DEF OnceInv
  <1> PICK next : next = position[engine] + 1
    OBVIOUS
  <1>1. /\ next \in 1..Len(log[engine]) /\ position \in [Engines -> Nat]
        /\ position' = [position EXCEPT ![engine] = next]
        /\ worker.pc = "idle" /\ worker'.pc # "idle" /\ worker'.engine = engine
        /\ worker'.alert = log[engine][next]
        /\ log' = log /\ links' = links /\ Sessions' = Sessions
    BY <1>0, LogFacts DEF Fetch, tables, counts, TypeOK, Sessions
  <1>2. position'[engine] = next /\ \A e \in Engines : e # engine => position'[e] = position[e]
    BY <1>1
  <1>3. HoldsMessage' /\ FromTopics'
    BY <1>0, <1>1, <1>2 DEF HoldsMessage, FromTopics
  <1>4. ASSUME NEW e \in Engines, NEW p \in 1..Len(log[e])
        PROVE  Cardinality(RowsOf(log[e][p].id)') + InHand(log[e][p].id)'
                 <= Sessions' + Passed(e, p)'
    <2> PICK n : n = log[e][p].id
      OBVIOUS
    <2>1. Cardinality(RowsOf(n)) + InHand(n) <= Sessions + Passed(e, p)
      BY <1>0 DEF OncePerPass
    <2>2. Cardinality(RowsOf(n)) \in Nat /\ Sessions \in Nat /\ position[e] \in Nat
      BY <1>0, RowsOfFinite, LogFacts
    <2>3. RowsOf(n)' = RowsOf(n) /\ InHand(n) = 0
      BY <1>1 DEF RowsOf, InHand
    <2>4. CASE e = engine /\ p = next
      <3>1. Passed(e, p) = 0 /\ Passed(e, p)' = 1 /\ InHand(n)' \in {0, 1}
        BY <1>1, <1>2, <2>2, <2>4 DEF Passed, InHand
      <3> QED BY <1>1, <2>1, <2>2, <2>3, <3>1
    <2>5. CASE ~(e = engine /\ p = next)
      <3>1. InHand(n)' = 0
        BY <1>0, <1>1, <2>5 DEF IdsDistinct, InHand
      <3>2. Passed(e, p) <= Passed(e, p)' /\ Passed(e, p) \in {0, 1} /\ Passed(e, p)' \in {0, 1}
        BY <1>1, <1>2, <2>2 DEF Passed
      <3> QED BY <1>1, <2>1, <2>2, <2>3, <3>1, <3>2
    <2> QED BY <2>4, <2>5
  <1> QED BY <1>1, <1>3, <1>4, OnceFrom

(* The consumer goes back to the committed positions. *)
LEMMA CrashOnce ==
    ASSUME OnceInv, TypeOK', Crash \/ Rejoin
    PROVE  OnceInv'
  <1>0. TypeOK /\ IdsDistinct /\ HoldsMessage /\ FromTopics /\ OncePerPass
    BY DEF OnceInv
  <1>1. /\ worker'.pc = "idle" \/ worker' = worker
        /\ position' = committed /\ log' = log /\ links' = links
    BY DEF Crash, Rejoin, Idle, tables
  <1>5. Sessions' = Sessions + 1
    <2>1. crashes \in Nat /\ evictions \in Nat
      BY <1>0 DEF TypeOK
    <2>2. \/ crashes' = crashes + 1 /\ evictions' = evictions
          \/ crashes' = crashes /\ evictions' = evictions + 1
      BY DEF Crash, Rejoin
    <2> QED BY <2>1, <2>2 DEF Sessions
  <1>2. HoldsMessage' /\ FromTopics'
    BY <1>0, <1>1 DEF HoldsMessage, FromTopics
  <1>3. ASSUME NEW e \in Engines, NEW p \in 1..Len(log[e])
        PROVE  Cardinality(RowsOf(log[e][p].id)') + InHand(log[e][p].id)'
                 <= Sessions' + Passed(e, p)'
    <2> PICK n : n = log[e][p].id
      OBVIOUS
    <2>1. Cardinality(RowsOf(n)) + InHand(n) <= Sessions + Passed(e, p)
      BY <1>0 DEF OncePerPass
    <2>2. Cardinality(RowsOf(n)) \in Nat /\ Sessions \in Nat
      BY <1>0, RowsOfFinite, LogFacts
    <2>3. /\ RowsOf(n)' = RowsOf(n) /\ InHand(n) \in {0, 1} /\ InHand(n)' \in {0, 1}
          /\ InHand(n)' <= InHand(n)
          /\ Passed(e, p) \in {0, 1} /\ Passed(e, p)' \in {0, 1}
      BY <1>1 DEF RowsOf, InHand, Passed
    <2> QED BY <1>1, <1>5, <2>1, <2>2, <2>3
  <1> QED BY <1>1, <1>2, <1>3, OnceFrom

(* An alert row is added for the message in hand, which is done with. *)
LEMMA RecordOnce ==
    ASSUME OnceInv, TypeOK', NEW i, worker.pc # "idle", worker'.pc = "idle",
           links' = Append(links, Link(i, worker.alert, worker.engine)),
           log' = log, position' = position, Sessions' = Sessions
    PROVE  OnceInv'
  <1>0. TypeOK /\ IdsDistinct /\ HoldsMessage /\ FromTopics /\ OncePerPass
    BY DEF OnceInv
  <1> PICK link, new : link = Link(i, worker.alert, worker.engine) /\ new = Len(links) + 1
    OBVIOUS
  <1>1. /\ Len(links) \in Nat /\ Len(links') = new /\ links'[new] = link
        /\ \A k \in 1..Len(links) : links'[k] = links[k]
        /\ 1..Len(links') = 1..Len(links) \cup {new} /\ new \notin 1..Len(links)
    <2>1. links \in Seq([incident : 1..Len(incidents), alert : 1..MaxAlerts,
                         engine : Engines, score : Nat])
      BY <1>0 DEF TypeOK
    <2> QED BY <2>1
  <1>2. link.alert = worker.alert.id
    BY DEF Link
  <1>3. /\ worker.engine \in Engines /\ worker.alert \in Alerts
        /\ \E p \in 1..Len(log[worker.engine]) : worker.alert = log[worker.engine][p]
    BY <1>0, WorkerFacts DEF HoldsMessage
  <1>4. HoldsMessage'
    BY DEF HoldsMessage
  <1>5. FromTopics'
    BY <1>0, <1>1, <1>2, <1>3 DEF FromTopics
  <1>6. ASSUME NEW e \in Engines, NEW p \in 1..Len(log[e])
        PROVE  Cardinality(RowsOf(log[e][p].id)') + InHand(log[e][p].id)'
                 <= Sessions' + Passed(e, p)'
    <2> PICK n : n = log[e][p].id
      OBVIOUS
    <2>1. Cardinality(RowsOf(n)) + InHand(n) <= Sessions + Passed(e, p)
      BY <1>0 DEF OncePerPass
    <2>2. /\ RowsOf(n) \subseteq 1..Len(links) /\ IsFiniteSet(RowsOf(n))
          /\ Cardinality(RowsOf(n)) \in Nat /\ Sessions \in Nat
      BY <1>0, RowsOfFinite, LogFacts
    <2>3. InHand(n)' = 0 /\ Passed(e, p)' = Passed(e, p) /\ Passed(e, p) \in {0, 1}
      BY DEF InHand, Passed
    <2>4. CASE n = worker.alert.id
      <3>1. RowsOf(n)' = RowsOf(n) \cup {new} /\ new \notin RowsOf(n)
        BY <1>1, <1>2, <2>2, <2>4 DEF RowsOf
      <3>2. Cardinality(RowsOf(n)') = Cardinality(RowsOf(n)) + 1
        BY <2>2, <3>1, FS_AddElement
      <3>3. InHand(n) = 1
        BY <2>4 DEF InHand
      <3> QED BY <2>1, <2>2, <2>3, <3>2, <3>3
    <2>5. CASE n # worker.alert.id
      <3>1. RowsOf(n)' = RowsOf(n)
        BY <1>1, <1>2, <2>5 DEF RowsOf
      <3>2. InHand(n) = 0
        BY <2>5 DEF InHand
      <3> QED BY <2>1, <2>2, <2>3, <3>1, <3>2
    <2> QED BY <2>4, <2>5
  <1> QED BY <1>4, <1>5, <1>6, OnceFrom

LEMMA OnceInit == Init => OnceInv
  <1> SUFFICES ASSUME Init PROVE OnceInv
    OBVIOUS
  <1>1. TypeOK
    BY TypeInit
  <1>2. Len(links) = 0 /\ worker.pc = "idle" /\ \A e \in Engines : Len(log[e]) = 0
    BY DEF Init, Idle
  <1> QED BY <1>1, <1>2 DEF OnceInv, IdsDistinct, HoldsMessage, FromTopics, OncePerPass

LEMMA OnceStep == OnceInv /\ [Next]_vars => OnceInv'
  <1> SUFFICES ASSUME OnceInv, [Next]_vars PROVE OnceInv'
    OBVIOUS
  <1>1. TypeOK'
    BY TypeStep DEF OnceInv
  <1>2. CASE \E engine \in Engines, body \in Bodies : Publish(engine, body)
    BY <1>1, <1>2, PublishOnce
  <1>3. CASE \E engine \in Engines : Fetch(engine)
    BY <1>1, <1>3, FetchOnce
  <1>4. CASE Lookup
    <2>1. worker.pc = "lookup" /\ log' = log /\ links' = links /\ position' = position
          /\ Sessions' = Sessions
      BY <1>4 DEF Lookup, kafka, tables, counts, Sessions
    <2>2. \/ worker'.pc = "idle"
          \/ /\ worker'.pc # "idle"
             /\ worker'.alert = worker.alert /\ worker'.engine = worker.engine
      BY <1>4 DEF Lookup, Idle
    <2> QED BY <1>1, <2>1, <2>2, NothingRecorded
  <1>5. CASE Create \/ Bundle
    <2>1. /\ worker.pc # "idle" /\ worker'.pc = "idle"
          /\ log' = log /\ position' = position /\ Sessions' = Sessions
      BY <1>5 DEF Create, Bundle, kafka, counts, Idle, Sessions
    <2>2. \/ links' = links
          \/ \E i : links' = Append(links, Link(i, worker.alert, worker.engine))
      BY <1>5 DEF Create, Bundle
    <2> QED BY <1>1, <2>1, <2>2, NothingRecorded, RecordOnce
  <1>6. CASE Fail
    <2>1. /\ worker'.pc = "idle" /\ log' = log /\ links' = links /\ position' = position
          /\ Sessions' = Sessions
      BY <1>6 DEF Fail, kafka, tables, Idle, Sessions
    <2> QED BY <1>1, <2>1, NothingRecorded
  <1>7. CASE Crash \/ Rejoin
    BY <1>1, <1>7, CrashOnce
  <1>8. CASE AutoCommit \/ Tick \/ UNCHANGED vars \/ \E a \in Analysts : Analyst(a)
    <2>1. /\ worker' = worker /\ log' = log /\ links' = links /\ position' = position
          /\ Sessions' = Sessions
      BY <1>8 DEF AutoCommit, Tick, vars, kafka, tables, counts, Sessions, Analyst, Load,
                  CommitStatus, CommitAssign
    <2> QED BY <1>1, <2>1, NothingRecorded
  <1> QED BY <1>2, <1>3, <1>4, <1>5, <1>6, <1>7, <1>8 DEF Next, Worker

(* RecordedOncePerSession: an alert has at most one row for every session  *)
(* of the worker in the group, however seldom its positions are committed. *)
THEOREM RecordedOnce == Spec => []RecordedOncePerSession
  <1>1. ASSUME OnceInv, NEW n \in 1..MaxAlerts
        PROVE  Cardinality(RowsOf(n)) <= 1 + Sessions
    <2>1. TypeOK /\ Sessions \in Nat
      BY <1>1, LogFacts DEF OnceInv
    <2>2. CASE \E e \in Engines : \E p \in 1..Len(log[e]) : log[e][p].id = n
      <3>1. PICK e \in Engines : \E p \in 1..Len(log[e]) : log[e][p].id = n
        BY <2>2
      <3>2. PICK p \in 1..Len(log[e]) : log[e][p].id = n
        BY <3>1
      <3>3. Cardinality(RowsOf(n)) + InHand(n) <= Sessions + Passed(e, p)
        BY <1>1, <3>2 DEF OnceInv, OncePerPass
      <3>4. Cardinality(RowsOf(n)) \in Nat /\ InHand(n) \in {0, 1} /\ Passed(e, p) \in {0, 1}
        BY <2>1, RowsOfFinite DEF InHand, Passed
      <3> QED BY <2>1, <3>3, <3>4
    <2>3. CASE ~\E e \in Engines : \E p \in 1..Len(log[e]) : log[e][p].id = n
      <3>1. RowsOf(n) = {}
        BY <1>1, <2>3 DEF OnceInv, FromTopics, RowsOf
      <3> QED BY <2>1, <3>1, FS_EmptySet
    <2> QED BY <2>2, <2>3
  <1>2. OnceInv => RecordedOncePerSession
    <2> SUFFICES ASSUME OnceInv, NEW n \in 1..MaxAlerts
                 PROVE  Cardinality(RowsOf(n)) <= 1 + crashes + evictions
      BY DEF RecordedOncePerSession, RowsOf
    <2>1. crashes \in Nat /\ evictions \in Nat /\ Cardinality(RowsOf(n)) \in Nat
      BY RowsOfFinite DEF OnceInv, TypeOK
    <2> QED BY <1>1, <2>1 DEF Sessions
  <1>3. Spec => []OnceInv
    BY OnceInit, OnceStep, PTL DEF Spec
  <1> QED BY <1>2, <1>3, PTL

-----------------------------------------------------------------------------
(* The audit log tells an incident's status. *)

Changing(m, i) == audit[m].incident = i /\ audit[m].previous # audit[m].new

(* The status an incident has after the first n rows of the log. *)
ChangedTo(i, s, n) ==
    \/ s = "OPEN" /\ \A m \in 1..n : ~Changing(m, i)
    \/ \E k \in 1..n : /\ Changing(k, i) /\ audit[k].new = s
                       /\ \A m \in 1..n : Changing(m, i) => m <= k

(* A status the incident was given by one of the first n rows. *)
Given(i, s, n) ==
    s = "OPEN" \/ \E m \in 1..n : audit[m].incident = i /\ audit[m].new = s

(* The status a request read, which its audit row will start from, was the *)
(* incident's at some time, though another request may have replaced it.   *)
ReadWasGiven ==
    \A a \in Analysts :
        requests[a] # Idle => Given(requests[a].incident, requests[a].row.status, Len(audit))

AuditInv ==
    /\ TypeOK /\ ReadWasGiven
    /\ \A k \in 1..Len(audit) : Given(audit[k].incident, audit[k].previous, k - 1)
    /\ \A i \in 1..Len(incidents) : ChangedTo(i, incidents[i].status, Len(audit))

(* The worker's update of a row leaves the status alone. *)
LEMMA BundledStatus ==
    ASSUME NEW alert, NEW engine, NEW time, NEW current \in IncidentType, NEW read
    PROVE  Bundled(current, read, alert, engine, time).status = current.status
  BY DEF Bundled, IncidentType

LEMMA TableFacts ==
    ASSUME TypeOK
    PROVE  /\ incidents \in Seq(IncidentType) /\ Len(incidents) \in Nat
           /\ \A i \in 1..Len(incidents) : incidents[i] \in IncidentType
           /\ Len(audit) \in Nat
           /\ audit \in Seq([incident : 1..Len(incidents), previous : Statuses, new : Statuses])
  BY DEF TypeOK

(* A step that relabels nothing. *)
Quiet ==
    /\ audit' = audit /\ Len(incidents) <= Len(incidents')
    /\ \A i \in 1..Len(incidents) : incidents'[i].status = incidents[i].status
    /\ \A i \in Len(incidents) + 1..Len(incidents') : incidents'[i].status = "OPEN"
    /\ \A a \in Analysts :
         requests'[a] \in {Idle, requests[a]}
         \/ /\ requests'[a].incident \in 1..Len(incidents)
            /\ requests'[a].row = incidents[requests'[a].incident]

(* A step that writes an audit row, from what its request read.            *)
Audits(a) ==
    LET i   == requests[a].incident
        old == requests[a].row.status
    IN  /\ requests[a] # Idle /\ requests' = [requests EXCEPT ![a] = Idle]
        /\ \E row, new :
              /\ incidents' = [incidents EXCEPT ![i] = row]
              /\ audit' = Append(audit, AuditRow(i, old, new))
              /\ row.status = IF new = old THEN incidents[i].status ELSE new

LEMMA RequestFacts ==
    ASSUME TypeOK, NEW a \in Analysts, requests[a] # Idle
    PROVE  requests[a].incident \in 1..Len(incidents)
  <1>1. requests[a] \in RequestType
    BY DEF TypeOK
  <1> QED BY <1>1 DEF RequestType

LEMMA CreateQuiet == ASSUME TypeOK, Create PROVE Quiet
  <1>1. audit' = audit /\ requests' = requests
    BY DEF Create
  <1>2. CASE EngineColumnsMapped
    <2> PICK row : row = NewIncident(worker.alert, worker.engine, worker.began)
      OBVIOUS
    <2>1. incidents' = Append(incidents, row) /\ row.status = "OPEN"
      BY <1>2 DEF Create, NewIncident
    <2> QED BY <1>1, <2>1, TableFacts DEF Quiet
  <1>3. CASE ~EngineColumnsMapped
    BY <1>1, <1>3, TableFacts DEF Create, Quiet
  <1> QED BY <1>2, <1>3

LEMMA BundleQuiet == ASSUME TypeOK, Bundle PROVE Quiet
  <1>1. audit' = audit /\ requests' = requests
    BY DEF Bundle
  <1>2. CASE EngineColumnsMapped
    <2> PICK j, row : /\ j = worker.incident
                      /\ row = Bundled(incidents[j], worker.row, worker.alert, worker.engine,
                                       worker.began)
      OBVIOUS
    <2>1. incidents' = [incidents EXCEPT ![j] = row]
      BY <1>2 DEF Bundle
    <2>2. j \in 1..Len(incidents)
      BY WorkerFacts DEF Bundle
    <2>3. row.status = incidents[j].status
      BY <2>2, TableFacts, BundledStatus
    <2> QED BY <1>1, <2>1, <2>2, <2>3, TableFacts DEF Quiet
  <1>3. CASE ~EngineColumnsMapped
    BY <1>1, <1>3, TableFacts DEF Bundle, Quiet
  <1> QED BY <1>2, <1>3

LEMMA LoadQuiet ==
    ASSUME TypeOK, NEW a \in Analysts, NEW i \in 1..Len(incidents), NEW op, NEW value,
           Load(a, i, op, value)
    PROVE  Quiet
  <1> PICK r : r = [pc |-> op, incident |-> i, value |-> value, row |-> incidents[i],
                    began |-> now]
    OBVIOUS
  <1>1. r.incident = i /\ r.row = incidents[i]
    OBVIOUS
  <1>2. /\ requests' = [requests EXCEPT ![a] = r] /\ DOMAIN requests = Analysts
        /\ audit' = audit /\ incidents' = incidents
    BY DEF Load, tables, TypeOK
  <1>3. \A b \in Analysts : requests'[b] = IF b = a THEN r ELSE requests[b]
    BY <1>2
  <1> QED BY <1>1, <1>2, <1>3, TableFacts DEF Quiet

LEMMA CommitStatusAudits ==
    ASSUME TypeOK, NEW a \in Analysts, CommitStatus(a)
    PROVE  Audits(a)
  <1> PICK r, i, row : /\ r = requests[a] /\ i = r.incident
                       /\ row = WithStatus(incidents[i], r)
    OBVIOUS
  <1>1. /\ r # Idle /\ requests' = [requests EXCEPT ![a] = Idle]
        /\ incidents' = [incidents EXCEPT ![i] = row]
        /\ audit' = Append(audit, AuditRow(i, r.row.status, r.value))
    BY DEF CommitStatus, Idle
  <1>2. i \in 1..Len(incidents)
    BY <1>1, RequestFacts
  <1>3. row.status = IF r.value = r.row.status THEN incidents[i].status ELSE r.value
    BY <1>2, TableFacts DEF WithStatus, IncidentType
  <1> QED BY <1>1, <1>3 DEF Audits

LEMMA CommitAssignAudits ==
    ASSUME TypeOK, NEW a \in Analysts, CommitAssign(a)
    PROVE  Quiet \/ Audits(a)
  <1> PICK r, i : r = requests[a] /\ i = r.incident
    OBVIOUS
  <1>1. r # Idle /\ requests' = [requests EXCEPT ![a] = Idle] /\ DOMAIN requests = Analysts
    BY DEF CommitAssign, Idle, TypeOK
  <1>2. i \in 1..Len(incidents)
    BY <1>1, RequestFacts
  <1>3. \A b \in Analysts : requests'[b] \in {Idle, requests[b]}
    BY <1>1
  <1>4. CASE Advances(r.row)
    <2> PICK row : row = [incidents[i] EXCEPT !.status = "INVESTIGATING",
                                              !.updatedAt = r.began, !.assigned = r.value]
      OBVIOUS
    <2>1. /\ incidents' = [incidents EXCEPT ![i] = row]
          /\ audit' = Append(audit, AuditRow(i, r.row.status, "INVESTIGATING"))
      BY <1>4 DEF CommitAssign
    <2>2. row.status = "INVESTIGATING"
      BY <1>2, TableFacts DEF IncidentType
    <2>3. r.row.status # "INVESTIGATING"
      BY <1>4 DEF Advances
    <2> QED BY <1>1, <2>1, <2>2, <2>3 DEF Audits
  <1>5. CASE /\ audit' = audit
             /\ incidents' = [incidents EXCEPT ![i] =
                                [@ EXCEPT !.assigned = r.value, !.updatedAt = r.began]]
    <2> PICK row : row = [incidents[i] EXCEPT !.assigned = r.value, !.updatedAt = r.began]
      OBVIOUS
    <2>1. row.status = incidents[i].status
      BY <1>2, TableFacts DEF IncidentType
    <2>2. incidents' = [incidents EXCEPT ![i] = row]
      BY <1>5
    <2> QED BY <1>2, <1>3, <1>5, <2>1, <2>2, TableFacts DEF Quiet
  <1>6. CASE audit' = audit /\ incidents' = incidents
    BY <1>3, <1>6, TableFacts DEF Quiet
  <1> QED BY <1>4, <1>5, <1>6 DEF CommitAssign

LEMMA StepKinds ==
    ASSUME TypeOK, [Next]_vars
    PROVE  Quiet \/ \E a \in Analysts : Audits(a)
  <1>1. CASE audit' = audit /\ incidents' = incidents /\ requests' = requests
    BY <1>1, TableFacts DEF Quiet
  <1>2. CASE Create
    BY <1>2, CreateQuiet
  <1>3. CASE Bundle
    BY <1>3, BundleQuiet
  <1>4. CASE \E a \in Analysts : Analyst(a)
    BY <1>4, LoadQuiet, CommitStatusAudits, CommitAssignAudits DEF Analyst
  <1>5. \/ audit' = audit /\ incidents' = incidents /\ requests' = requests
        \/ Create \/ Bundle
        \/ \E a \in Analysts : Analyst(a)
    BY DEF Next, vars, tables, Publish, Worker, Fetch, Lookup, Fail, AutoCommit, Crash, Rejoin,
           Tick
  <1> QED BY <1>1, <1>2, <1>3, <1>4, <1>5

(* Where the log did not grow, it says what it said.                       *)
LEMMA SameLog ==
    ASSUME audit' = audit
    PROVE  \A i, s, n : /\ ChangedTo(i, s, n)' <=> ChangedTo(i, s, n)
                        /\ Given(i, s, n)' <=> Given(i, s, n)
  BY DEF ChangedTo, Given, Changing

(* The status of an incident is one that it was given. *)
LEMMA ChangedIsGiven ==
    ASSUME NEW i, NEW s, NEW n, ChangedTo(i, s, n)
    PROVE  Given(i, s, n)
  BY DEF ChangedTo, Given, Changing

LEMMA QuietAudit == ASSUME AuditInv, Quiet, TypeOK' PROVE AuditInv'
  <1>1. /\ audit' = audit /\ Len(incidents) \in Nat /\ Len(incidents') \in Nat
        /\ Len(incidents) <= Len(incidents') /\ Len(audit) \in Nat
        /\ \A m \in 1..Len(audit) : audit[m].incident \in 1..Len(incidents)
    <2>1. /\ audit' = audit /\ Len(incidents) \in Nat /\ Len(incidents') \in Nat
          /\ Len(incidents) <= Len(incidents')
      BY TableFacts DEF AuditInv, Quiet, TypeOK
    <2>2. ASSUME NEW m \in 1..Len(audit)
          PROVE  audit[m].incident \in 1..Len(incidents)
      <3> DEFINE Rows == [incident : 1..Len(incidents), previous : Statuses, new : Statuses]
      <3>1. audit \in Seq(Rows)
        BY TableFacts DEF AuditInv
      <3>2. audit[m] \in Rows
        <4> HIDE DEF Rows
        <4> QED BY <3>1
      <3> QED BY <3>2
    <2> QED BY <2>1, <2>2, TableFacts DEF AuditInv
  <1>2. \A i, s, n : /\ ChangedTo(i, s, n)' <=> ChangedTo(i, s, n)
                     /\ Given(i, s, n)' <=> Given(i, s, n)
    BY <1>1, SameLog
  <1>3. ASSUME NEW a \in Analysts, requests'[a] # Idle
        PROVE  Given(requests'[a].incident, requests'[a].row.status, Len(audit))
    <2>1. CASE requests'[a] = requests[a]
      BY <1>3, <2>1 DEF AuditInv, ReadWasGiven
    <2>2. CASE /\ requests'[a].incident \in 1..Len(incidents)
               /\ requests'[a].row = incidents[requests'[a].incident]
      BY <2>2, ChangedIsGiven DEF AuditInv
    <2> QED BY <1>3, <2>1, <2>2 DEF Quiet
  <1>4. ASSUME NEW i \in 1..Len(incidents')
        PROVE  ChangedTo(i, incidents'[i].status, Len(audit))
    <2>1. CASE i \in 1..Len(incidents)
      BY <2>1 DEF AuditInv, Quiet
    <2>2. CASE i \in Len(incidents) + 1..Len(incidents')
      <3>1. incidents'[i].status = "OPEN"
        BY <2>2 DEF Quiet
      <3>2. \A m \in 1..Len(audit) : audit[m].incident # i
        BY <1>1, <2>2
      <3> QED BY <3>1, <3>2 DEF ChangedTo, Changing
    <2> QED BY <1>1, <2>1, <2>2
  <1>5. ReadWasGiven'
    BY <1>1, <1>3 DEF ReadWasGiven, Given
  <1>6. \A k \in 1..Len(audit') : Given(audit[k].incident, audit[k].previous, k - 1)'
    BY <1>1 DEF AuditInv, Given
  <1>7. \A i \in 1..Len(incidents') : ChangedTo(i, incidents[i].status, Len(audit))'
    BY <1>1, <1>4 DEF ChangedTo, Changing
  <1> QED BY <1>5, <1>6, <1>7 DEF AuditInv

(* A new row starts from a status the incident was given, and changes the  *)
(* status of its incident only, or none.                                   *)
LEMMA AuditsAudit ==
    ASSUME AuditInv, NEW a \in Analysts, Audits(a), TypeOK'
    PROVE  AuditInv'
  <1> PICK i, N, old : i = requests[a].incident /\ N = Len(audit) /\ old = requests[a].row.status
    OBVIOUS
  <1> PICK row, new : /\ incidents' = [incidents EXCEPT ![i] = row]
                      /\ audit' = Append(audit, AuditRow(i, old, new))
                      /\ row.status = IF new = old THEN incidents[i].status ELSE new
    BY DEF Audits
  <1>1. i \in 1..Len(incidents) /\ N \in Nat
    BY RequestFacts, TableFacts DEF AuditInv, Audits
  <1>2. /\ Len(incidents') = Len(incidents) /\ incidents'[i] = row
        /\ \A j \in 1..Len(incidents) : j # i => incidents'[j] = incidents[j]
    BY <1>1, TableFacts DEF AuditInv
  <1>3. /\ Len(audit') = N + 1 /\ \A m \in 1..N : audit'[m] = audit[m]
        /\ audit'[N + 1].incident = i /\ audit'[N + 1].previous = old
        /\ audit'[N + 1].new = new
    <2> PICK added : added = AuditRow(i, old, new)
      OBVIOUS
    <2>1. added.incident = i /\ added.previous = old /\ added.new = new
      BY DEF AuditRow
    <2> QED BY <1>1, <2>1, TableFacts DEF AuditInv
  <1>4. Given(i, old, N)
    BY DEF AuditInv, ReadWasGiven, Audits
  <1>5. ASSUME NEW j, NEW s, NEW n \in 0..N, Given(j, s, n)
        PROVE  Given(j, s, n)' /\ Given(j, s, N + 1)'
    <2>1. \A m \in 1..n : audit'[m] = audit[m] /\ m \in 1..N + 1
      BY <1>1, <1>3
    <2> QED BY <1>5, <2>1 DEF Given
  <1>6. ASSUME NEW k \in 1..Len(audit')
        PROVE  Given(audit[k].incident, audit[k].previous, k - 1)'
    <2>1. CASE k \in 1..N
      <3>1. Given(audit[k].incident, audit[k].previous, k - 1) /\ k - 1 \in 0..N
        BY <1>1, <2>1 DEF AuditInv
      <3>2. audit'[k] = audit[k]
        BY <1>3, <2>1
      <3> PICK j, s : j = audit[k].incident /\ s = audit[k].previous
        OBVIOUS
      <3>3. s = "OPEN" \/ \E m \in 1..k - 1 : audit[m].incident = j /\ audit[m].new = s
        BY <3>1 DEF Given
      <3>4. \A m \in 1..k - 1 : audit'[m] = audit[m]
        BY <1>1, <1>3, <2>1
      <3>5. s = "OPEN" \/ \E m \in 1..k - 1 : audit'[m].incident = j /\ audit'[m].new = s
        BY <3>3, <3>4
      <3> QED BY <3>2, <3>5 DEF Given
    <2>2. CASE k = N + 1
      <3>1. k - 1 = N /\ audit'[k].incident = i /\ audit'[k].previous = old /\ N \in 0..N
        BY <1>1, <1>3, <2>2
      <3>2. Given(i, old, N)'
        BY <1>4, <1>5, <3>1
      <3> QED BY <3>1, <3>2 DEF Given
    <2> QED BY <1>1, <1>3, <2>1, <2>2
  <1>7. ASSUME NEW j \in 1..Len(incidents')
        PROVE  ChangedTo(j, incidents[j].status, Len(audit))'
    <2>1. \A m \in 1..N + 1 : m \in 1..N \/ m = N + 1
      BY <1>1
    <2>2. /\ \A m \in 1..N : Changing(m, j)' <=> Changing(m, j)
          /\ Changing(N + 1, j)' <=> j = i /\ old # new
      BY <1>3 DEF Changing
    <2>3. CASE j = i /\ old # new
      <3>1. N + 1 \in 1..Len(audit') /\ \A m \in 1..Len(audit') : m <= N + 1
        BY <1>1, <1>3
      <3>2. incidents'[j].status = new
        BY <1>2, <2>3
      <3> QED BY <1>3, <2>2, <2>3, <3>1, <3>2 DEF ChangedTo
    <2>4. CASE ~(j = i /\ old # new)
      <3>1. incidents'[j].status = incidents[j].status
        BY <1>2, <2>4
      <3>2. ChangedTo(j, incidents[j].status, N)
        BY <1>2 DEF AuditInv
      <3>3. CASE incidents[j].status = "OPEN" /\ \A m \in 1..N : ~Changing(m, j)
        <4>1. \A m \in 1..N + 1 : ~Changing(m, j)'
          BY <2>1, <2>2, <2>4, <3>3
        <4> QED BY <1>3, <3>1, <3>3, <4>1 DEF ChangedTo
      <3>4. CASE \E k \in 1..N : /\ Changing(k, j) /\ audit[k].new = incidents[j].status
                                 /\ \A m \in 1..N : Changing(m, j) => m <= k
        <4>1. PICK k \in 1..N : /\ Changing(k, j) /\ audit[k].new = incidents[j].status
                                /\ \A m \in 1..N : Changing(m, j) => m <= k
          BY <3>4
        <4>2. k \in 1..N + 1 /\ audit'[k] = audit[k] /\ Changing(k, j)'
          BY <1>1, <1>3, <2>2, <4>1
        <4>3. \A m \in 1..N + 1 : Changing(m, j)' => m <= k
          BY <2>1, <2>2, <2>4, <4>1
        <4> QED BY <1>3, <3>1, <4>1, <4>2, <4>3 DEF ChangedTo
      <3> QED BY <3>2, <3>3, <3>4 DEF ChangedTo
    <2> QED BY <2>3, <2>4
  <1>8. ReadWasGiven'
    <2>1. ASSUME NEW b \in Analysts, requests'[b] # Idle
          PROVE  Given(requests'[b].incident, requests'[b].row.status, N)
      <3>1. requests'[b] = requests[b]
        BY <2>1 DEF Audits, AuditInv, TypeOK
      <3> QED BY <2>1, <3>1 DEF AuditInv, ReadWasGiven
    <2>2. ASSUME NEW b \in Analysts, requests'[b] # Idle
          PROVE  \/ requests'[b].row.status = "OPEN"
                 \/ \E m \in 1..N + 1 : /\ audit'[m].incident = requests'[b].incident
                                        /\ audit'[m].new = requests'[b].row.status
      <3>1. \A m \in 1..N : m \in 1..N + 1 /\ audit'[m] = audit[m]
        BY <1>1, <1>3
      <3> QED BY <2>1, <2>2, <3>1 DEF Given
    <2> QED BY <1>3, <2>2 DEF ReadWasGiven, Given
  <1> QED BY <1>6, <1>7, <1>8 DEF AuditInv

LEMMA AuditInit == Init => AuditInv
  <1> SUFFICES ASSUME Init PROVE AuditInv
    OBVIOUS
  <1>1. TypeOK
    BY TypeInit
  <1>2. /\ audit = <<>> /\ incidents = <<>> /\ \A a \in Analysts : requests[a] = Idle
    BY DEF Init
  <1> QED BY <1>1, <1>2 DEF AuditInv, ReadWasGiven

LEMMA AuditStep == AuditInv /\ [Next]_vars => AuditInv'
  <1> SUFFICES ASSUME AuditInv, [Next]_vars PROVE AuditInv'
    OBVIOUS
  <1>1. TypeOK'
    BY TypeStep DEF AuditInv
  <1>2. Quiet \/ \E a \in Analysts : Audits(a)
    BY StepKinds DEF AuditInv
  <1> QED BY <1>1, <1>2, QuietAudit, AuditsAudit

(* StatusAudited: for any number of analysts and requests, and whatever    *)
(* the worker writes meanwhile, the status of an incident is the one that  *)
(* the last row of the audit log which changed it names.                   *)
THEOREM StatusIsAudited == Spec => []StatusAudited
  <1>1. AuditInv => StatusAudited
    <2> SUFFICES ASSUME AuditInv, NEW i \in 1..Len(incidents)
                 PROVE  /\ \/ Changes(i) = {} /\ incidents[i].status = "OPEN"
                           \/ \E k \in Changes(i) : /\ \A m \in Changes(i) : m <= k
                                                    /\ audit[k].new = incidents[i].status
                        /\ \A k \in AuditOf(i) :
                             \/ audit[k].previous = "OPEN"
                             \/ \E m \in AuditOf(i) : m < k /\ audit[m].new = audit[k].previous
      BY DEF StatusAudited
    <2>1. Len(audit) \in Nat
      BY TableFacts DEF AuditInv
    <2>2. ChangedTo(i, incidents[i].status, Len(audit))
      BY DEF AuditInv
    <2>3. \A m : m \in Changes(i) <=> m \in 1..Len(audit) /\ Changing(m, i)
      BY DEF Changes, AuditOf, Changing
    <2>4. ASSUME NEW k \in AuditOf(i), audit[k].previous # "OPEN"
          PROVE  \E m \in AuditOf(i) : m < k /\ audit[m].new = audit[k].previous
      <3>1. k \in 1..Len(audit) /\ Given(i, audit[k].previous, k - 1)
        BY DEF AuditInv, AuditOf
      <3>2. PICK m \in 1..k - 1 : audit[m].incident = i /\ audit[m].new = audit[k].previous
        BY <2>4, <3>1 DEF Given
      <3>3. m \in 1..Len(audit) /\ m < k
        BY <2>1, <3>1
      <3> QED BY <3>2, <3>3 DEF AuditOf
    <2>5. \/ Changes(i) = {} /\ incidents[i].status = "OPEN"
          \/ \E k \in Changes(i) : /\ \A m \in Changes(i) : m <= k
                                   /\ audit[k].new = incidents[i].status
      BY <2>2, <2>3 DEF ChangedTo
    <2> QED BY <2>4, <2>5
  <1> QED BY <1>1, AuditInit, AuditStep, PTL DEF Spec

-----------------------------------------------------------------------------
(* The numbers of one metrics answer differ by relabelled incidents, which  *)
(* the audit log shows.                                                     *)

(* What the first statement returned. *)
Total    == UNION {report.status[s] : s \in Statuses}
Labelled == report.status["CONFIRMED_FRAUD"] \cup report.status["FALSE_POSITIVE"]

(* The incidents the audit log shows relabelled since. *)
Relabelled == {audit[k].incident : k \in report.audited + 1..Len(audit)}

(* Until the last statement has run, an incident that was not relabelled   *)
(* has the label it was counted with; from then on, it was averaged as it  *)
(* was counted.                                                            *)
Explained ==
    /\ report.pc \in {"severities", "average", "done"}
    /\ report.audited \in 0..Len(audit)
    /\ Total \subseteq 1..Len(incidents) /\ Labelled \subseteq 1..Len(incidents)
    /\ report.pc # "done" =>
         \A i \in 1..Len(incidents) :
             i \notin Relabelled => (i \in Labelled <=> incidents[i].status \in Resolved)
    /\ report.pc # "severities" =>
         Total \subseteq UNION {report.severity[s] : s \in DOMAIN report.severity}
    /\ report.pc = "done" =>
         \A i : i \notin Relabelled => (i \in Labelled <=> i \in report.averaged)

MInv == TypeOK /\ (report = Idle \/ Explained)

-----------------------------------------------------------------------------
(* A step of the worker or an analyst changes a status only with an audit  *)
(* row about it; incidents and audit rows are only added.                  *)
Audited ==
    /\ Len(audit) <= Len(audit') /\ \A k \in 1..Len(audit) : audit'[k] = audit[k]
    /\ Len(incidents) <= Len(incidents')
    /\ \A i \in 1..Len(incidents) :
         \/ incidents'[i].status = incidents[i].status
         \/ \E k \in Len(audit) + 1..Len(audit') : audit'[k].incident = i
    /\ \A i \in Len(incidents) + 1..Len(incidents') : incidents'[i].status = "OPEN"

LEMMA CreateAudited ==
    ASSUME TypeOK, Create
    PROVE  Audited
  <1>1. audit' = audit
    BY DEF Create
  <1>2. CASE EngineColumnsMapped
    <2> PICK row : row = NewIncident(worker.alert, worker.engine, worker.began)
      OBVIOUS
    <2>1. incidents' = Append(incidents, row) /\ row.status = "OPEN"
      BY <1>2 DEF Create, NewIncident
    <2> QED BY <1>1, <2>1, TableFacts DEF Audited
  <1>3. CASE ~EngineColumnsMapped
    BY <1>1, <1>3, TableFacts DEF Create, Audited
  <1> QED BY <1>2, <1>3

LEMMA BundleAudited ==
    ASSUME TypeOK, Bundle
    PROVE  Audited
  <1>1. audit' = audit
    BY DEF Bundle
  <1>2. CASE EngineColumnsMapped
    <2> PICK j, row : /\ j = worker.incident
                      /\ row = Bundled(incidents[j], worker.row, worker.alert, worker.engine,
                                       worker.began)
      OBVIOUS
    <2>1. incidents' = [incidents EXCEPT ![j] = row]
      BY <1>2 DEF Bundle
    <2>2. j \in 1..Len(incidents)
      BY WorkerFacts DEF Bundle
    <2>3. row.status = incidents[j].status
      BY <2>2, TableFacts, BundledStatus
    <2> QED BY <1>1, <2>1, <2>2, <2>3, TableFacts DEF Audited
  <1>3. CASE ~EngineColumnsMapped
    BY <1>1, <1>3, TableFacts DEF Bundle, Audited
  <1> QED BY <1>2, <1>3

LEMMA CommitAudited ==
    ASSUME TypeOK, NEW a \in Analysts, CommitStatus(a) \/ CommitAssign(a)
    PROVE  Audited
  <1> PICK r, i : r = requests[a] /\ i = r.incident
    OBVIOUS
  <1>1. \/ /\ \E row : incidents' = [incidents EXCEPT ![i] = row]
           /\ \E new : audit' = Append(audit, new) /\ new.incident = i
        \/ /\ \E row : /\ incidents' = [incidents EXCEPT ![i] = row]
                       /\ i \in 1..Len(incidents) => row.status = incidents[i].status
           /\ audit' = audit
        \/ incidents' = incidents /\ audit' = audit
    <2>1. CASE CommitStatus(a)
      <3> PICK row, new : row = WithStatus(incidents[i], r) /\ new = AuditRow(i, r.row.status, r.value)
        OBVIOUS
      <3>1. incidents' = [incidents EXCEPT ![i] = row] /\ audit' = Append(audit, new)
        BY <2>1 DEF CommitStatus
      <3>2. new.incident = i
        BY DEF AuditRow
      <3> QED BY <3>1, <3>2
    <2>2. CASE CommitAssign(a)
      <3>1. CASE Advances(r.row)
        <4> PICK row, new :
              /\ row = [incidents[i] EXCEPT !.status = "INVESTIGATING", !.updatedAt = r.began,
                                            !.assigned = r.value]
              /\ new = AuditRow(i, r.row.status, "INVESTIGATING")
          OBVIOUS
        <4>1. incidents' = [incidents EXCEPT ![i] = row] /\ audit' = Append(audit, new)
          BY <2>2, <3>1 DEF CommitAssign
        <4>2. new.incident = i
          BY DEF AuditRow
        <4> QED BY <4>1, <4>2
      <3>2. CASE ~Advances(r.row) /\ audit' = audit /\ incidents' = incidents
        BY <3>2
      <3>3. CASE /\ audit' = audit
                 /\ incidents' = [incidents EXCEPT ![i] =
                                    [@ EXCEPT !.assigned = r.value, !.updatedAt = r.began]]
        <4>1. i \in 1..Len(incidents) =>
                [incidents[i] EXCEPT !.assigned = r.value, !.updatedAt = r.began].status
                  = incidents[i].status
          BY TableFacts DEF IncidentType
        <4> QED BY <3>3, <4>1
      <3> QED BY <2>2, <3>1, <3>2, <3>3 DEF CommitAssign
    <2> QED BY <2>1, <2>2
  <1>2. CASE /\ \E row : incidents' = [incidents EXCEPT ![i] = row]
             /\ \E new : audit' = Append(audit, new) /\ new.incident = i
    BY <1>2, TableFacts DEF Audited
  <1>3. CASE /\ \E row : /\ incidents' = [incidents EXCEPT ![i] = row]
                         /\ i \in 1..Len(incidents) => row.status = incidents[i].status
             /\ audit' = audit
    BY <1>3, TableFacts DEF Audited
  <1>4. CASE incidents' = incidents /\ audit' = audit
    BY <1>4, TableFacts DEF Audited
  <1> QED BY <1>1, <1>2, <1>3, <1>4

LEMMA StepAudited ==
    ASSUME TypeOK, [Next]_vars
    PROVE  Audited
  <1>1. CASE incidents' = incidents /\ audit' = audit
    BY <1>1, TableFacts DEF Audited
  <1>2. CASE Create
    BY <1>2, CreateAudited
  <1>3. CASE Bundle
    BY <1>3, BundleAudited
  <1>4. ASSUME NEW a \in Analysts, CommitStatus(a) \/ CommitAssign(a)
        PROVE  Audited
    BY <1>4, CommitAudited
  <1>5. \/ incidents' = incidents /\ audit' = audit
        \/ Create \/ Bundle
        \/ \E a \in Analysts : CommitStatus(a) \/ CommitAssign(a)
    BY DEF Next, vars, tables, Publish, Worker, Fetch, Lookup, Fail, AutoCommit, Crash, Rejoin,
           Analyst, Load, Tick
  <1> QED BY <1>1, <1>2, <1>3, <1>4, <1>5

-----------------------------------------------------------------------------
(* The statements of a request. *)

LEMMA SeverityCounted ==
    ASSUME TypeOK, NEW i \in 1..Len(incidents)
    PROVE  incidents[i].severity \in {"MEDIUM", "HIGH", "CRITICAL"}
  BY TableFacts DEF IncidentType

(* While a worker or an analyst goes on, what was counted stays explained. *)
LEMMA StepExplained ==
    ASSUME TypeOK, Explained, Audited, UNCHANGED report
    PROVE  Explained'
  <1>1. Len(audit) \in Nat /\ Len(incidents) \in Nat /\ Len(audit) <= Len(audit')
        /\ Len(incidents) <= Len(incidents') /\ Len(audit') \in Nat /\ Len(incidents') \in Nat
    BY TableFacts DEF Audited
  <1>2. Total' = Total /\ Labelled' = Labelled
    BY DEF Total, Labelled
  <1>3. report.audited \in 0..Len(audit) /\ report.audited \in 0..Len(audit')
    BY <1>1 DEF Explained
  <1>4. Relabelled \subseteq Relabelled'
    BY <1>1, <1>3 DEF Relabelled, Audited
  <1>5. ASSUME report.pc # "done", NEW i \in 1..Len(incidents'), i \notin Relabelled'
        PROVE  i \in Labelled <=> incidents'[i].status \in Resolved
    <2>1. CASE i \in 1..Len(incidents)
      <3>1. i \in Labelled <=> incidents[i].status \in Resolved
        BY <1>4, <1>5, <2>1 DEF Explained
      <3>2. ASSUME NEW k \in Len(audit) + 1..Len(audit')
            PROVE  audit'[k].incident # i
        BY <1>1, <1>3, <1>5 DEF Relabelled
      <3>3. incidents'[i].status = incidents[i].status
        BY <2>1, <3>2 DEF Audited
      <3> QED BY <3>1, <3>3
    <2>2. CASE i \in Len(incidents) + 1..Len(incidents')
      <3>1. incidents'[i].status = "OPEN"
        BY <2>2 DEF Audited
      <3>2. i \notin Labelled
        BY <1>1, <2>2 DEF Explained
      <3> QED BY <3>1, <3>2 DEF Resolved
    <2> QED BY <1>1, <2>1, <2>2
  <1> QED BY <1>1, <1>2, <1>3, <1>4, <1>5 DEF Explained

LEMMA CountStatusesExplained ==
    ASSUME TypeOK, CountStatuses
    PROVE  Explained'
  <1>1. /\ report'.pc = "severities" /\ report'.audited = Len(audit)
        /\ audit' = audit /\ incidents' = incidents
        /\ \A s \in Statuses : report'.status[s] = WithStatusIn({s})
    BY DEF CountStatuses, vars, tables
  <1>2. Total' \subseteq 1..Len(incidents)
    BY <1>1 DEF Total, WithStatusIn
  <1>3. Labelled' = WithStatusIn(Resolved)
    BY <1>1 DEF Labelled, WithStatusIn, Resolved, Statuses
  <1>4. Labelled' \subseteq 1..Len(incidents)
        /\ \A i \in 1..Len(incidents) : i \in Labelled' <=> incidents[i].status \in Resolved
    BY <1>3 DEF WithStatusIn
  <1> QED BY <1>1, <1>2, <1>4, TableFacts DEF Explained

(* Every incident has one of the three severities, and none is deleted: *)
(* what the first statement counted, the second one counts.             *)
LEMMA CountSeveritiesExplained ==
    ASSUME TypeOK, Explained, CountSeverities
    PROVE  Explained'
  <1>1. /\ report.pc = "severities" /\ report'.pc = "average"
        /\ report'.audited = report.audited /\ report'.status = report.status
        /\ report'.severity = [s \in {"MEDIUM", "HIGH", "CRITICAL"} |-> WithSeverity(s)]
        /\ audit' = audit /\ incidents' = incidents
    BY DEF CountSeverities, vars, tables
  <1>2. Total' = Total /\ Labelled' = Labelled /\ Relabelled' = Relabelled
    BY <1>1 DEF Total, Labelled, Relabelled
  <1>3. ASSUME NEW i \in Total
        PROVE  i \in UNION {report'.severity[s] : s \in DOMAIN report'.severity}
    <2>1. i \in 1..Len(incidents)
      BY DEF Explained
    <2>2. i \in report'.severity[incidents[i].severity]
          /\ incidents[i].severity \in DOMAIN report'.severity
      BY <1>1, <2>1, SeverityCounted DEF WithSeverity
    <2> QED BY <2>2
  <1> QED BY <1>1, <1>2, <1>3 DEF Explained

LEMMA AverageExplained ==
    ASSUME TypeOK, Explained, AverageResolution
    PROVE  Explained'
  <1>1. /\ report.pc = "average" /\ report'.pc = "done"
        /\ report'.audited = report.audited /\ report'.status = report.status
        /\ report'.severity = report.severity /\ report'.averaged = WithStatusIn(Resolved)
        /\ audit' = audit /\ incidents' = incidents
    BY DEF AverageResolution, Averaged, vars, tables
  <1>2. Total' = Total /\ Labelled' = Labelled /\ Relabelled' = Relabelled
    BY <1>1 DEF Total, Labelled, Relabelled
  <1>3. ASSUME NEW i, i \notin Relabelled
        PROVE  i \in Labelled <=> i \in report'.averaged
    BY <1>1, <1>3 DEF Explained, WithStatusIn
  <1> QED BY <1>1, <1>2, <1>3 DEF Explained

LEMMA MInvInit == MetricsInit => MInv
  BY TypeInit DEF MetricsInit, MInv

LEMMA MInvStep == MInv /\ [MetricsNext]_metricsVars => MInv'
  <1> SUFFICES ASSUME MInv, [MetricsNext]_metricsVars
               PROVE  MInv'
    OBVIOUS
  <1>1. TypeOK /\ (report = Idle \/ Explained)
    BY DEF MInv
  <1>2. [Next]_vars
    BY DEF MetricsNext, metricsVars, CountStatuses, CountSeverities, AverageResolution, Respond
  <1>3. TypeOK'
    BY <1>1, <1>2, TypeStep
  <1>4. CASE UNCHANGED report
    BY <1>1, <1>2, <1>3, <1>4, StepAudited, StepExplained DEF MInv, Idle
  <1>5. CASE CountStatuses
    BY <1>1, <1>3, <1>5, CountStatusesExplained DEF MInv
  <1>6. CASE CountSeverities
    BY <1>1, <1>3, <1>6, CountSeveritiesExplained DEF MInv, CountSeverities, Idle
  <1>7. CASE AverageResolution
    BY <1>1, <1>3, <1>7, AverageExplained DEF MInv, AverageResolution, Idle
  <1>8. CASE Respond
    BY <1>3, <1>8 DEF MInv, Respond, Idle
  <1> QED BY <1>4, <1>5, <1>6, <1>7, <1>8 DEF MetricsNext, metricsVars

(* MetricsExplained: the three statements of get_analyst_metrics see       *)
(* different moments, and their results differ by incidents relabelled     *)
(* meanwhile only, with any number of analysts and requests.               *)
THEOREM MetricsAreExplained == MetricsSpec => []MetricsExplained
  <1>1. MInv => MetricsExplained
    BY DEF MInv, Explained, Total, Labelled, Relabelled, MetricsExplained, Idle
  <1> QED BY <1>1, MInvInit, MInvStep, PTL DEF MetricsSpec
=============================================================================
