----------------------------- MODULE Incidents -----------------------------
(***************************************************************************)
(* Case management: the alert aggregator worker, which reads the alert     *)
(* topics of both risk engines and bundles alerts into incidents, and the  *)
(* incidents API, through which analysts label and assign the same rows.   *)
(*                                                                         *)
(* The worker is one process; every analyst has at most one request in     *)
(* flight.  Each of them reads rows in one step and commits what it made   *)
(* of them in a later one: the database is PostgreSQL at READ COMMITTED,   *)
(* and the mapper writes only the columns an object changed.               *)
(***************************************************************************)
EXTENDS Integers, Sequences, FiniteSets

CONSTANTS None, Analysts, Identities,
          Bodies,               \* alerts: customer_id, account_id and risk score
          Window,               \* WINDOW_MINUTES: an incident silent for longer takes no alert
          EngineColumnsMapped,  \* do the model and the table have engine_sources, corroborated?
          MaxAlerts, MaxRequests, MaxCrashes, MaxEvictions, MaxFailures, MaxTime   \* bounds

VARIABLES log,        \* engine |-> its alert topics, merged in order
          position,   \* engine |-> next message the consumer fetches, less one
          committed,  \* engine |-> the group's committed position
          worker,     \* the alert in process: where it is, what it read
          requests,   \* analyst |-> the request in process
          incidents,  \* table incidents, in order of creation
          links,      \* table incident_alerts, in order of insertion
          audit,      \* table incident_audit_logs, in order of insertion
          now,        \* wall clock
          served, crashes, evictions, failures   \* counters of the bounds

tables == <<incidents, links, audit>>
kafka  == <<log, position, committed>>
counts == <<served, crashes, evictions, failures>>
vars   == <<kafka, worker, requests, tables, now, counts>>

ASSUME AnalystsAssumption == None \notin Analysts
ASSUME WindowAssumption == Window \in Nat
ASSUME MappedAssumption == EngineColumnsMapped \in BOOLEAN
ASSUME BoundsAssumption == MaxAlerts \in Nat
ASSUME BodiesAssumption ==
    Bodies \subseteq [customer : Identities \cup {None}, account : Identities \cup {None},
                      score : Nat]

-----------------------------------------------------------------------------
(* The topics with suffix _v2 are the Flink engine's, the other two the    *)
(* secondary engine's; the topic an alert came from names its engine.      *)
Engines == {"flink-primary", "python-secondary"}

Active == {"OPEN", "INVESTIGATING"}
Statuses == Active \cup {"FALSE_POSITIVE", "CONFIRMED_FRAUD", "RESOLVED_OTHER"}

Alerts == [id : 1..MaxAlerts, body : Bodies]

Identity(alert) ==
    IF alert.body.customer # None THEN alert.body.customer
    ELSE IF alert.body.account # None THEN alert.body.account
    ELSE "UNKNOWN"

Idle == [pc |-> "idle"]

(* Severity of a new incident; an incident is raised to it, never lowered. *)
SeverityOf(score) == IF score >= 90 THEN "CRITICAL" ELSE IF score >= 70 THEN "HIGH" ELSE "MEDIUM"

(* Mutant: an incident is raised to CRITICAL only. *)
EscalatedToCritical(severity, maxScore) == IF maxScore >= 90 THEN "CRITICAL" ELSE severity

Escalated(severity, maxScore) == IF maxScore >= 70 THEN SeverityOf(maxScore) ELSE severity

Greater(a, b) == IF a >= b THEN a ELSE b

NewIncident(alert, engine, time) ==
    [identity |-> Identity(alert), status |-> "OPEN", severity |-> SeverityOf(alert.body.score),
     count |-> 1, maxScore |-> alert.body.score, sources |-> {engine}, corroborated |-> FALSE,
     assigned |-> None, updatedAt |-> time]

(* Mutant: corroboration is decided before the alert's engine is added. *)
BundledLate(current, read, alert, engine, time) ==
    LET max == Greater(read.maxScore, alert.body.score)
    IN  [current EXCEPT !.count = read.count + 1, !.maxScore = max,
                        !.severity = Escalated(read.severity, max),
                        !.sources = read.sources \cup {engine},
                        !.corroborated = Cardinality(read.sources) > 1, !.updatedAt = time]

(* The columns the worker writes, from the row it read; the others keep    *)
(* what the table holds at commit.                                         *)
Bundled(current, read, alert, engine, time) ==
    LET sources == read.sources \cup {engine}
        max     == Greater(read.maxScore, alert.body.score)
    IN  [current EXCEPT !.count = read.count + 1, !.maxScore = max,
                        !.severity = Escalated(read.severity, max),
                        !.sources = sources, !.corroborated = Cardinality(sources) > 1,
                        !.updatedAt = time]

Link(i, alert, engine) == [incident |-> i, alert |-> alert.id, engine |-> engine,
                           score |-> alert.body.score]

AuditRow(i, previous, new) == [incident |-> i, previous |-> previous, new |-> new]

-----------------------------------------------------------------------------
Init ==
    /\ log = [e \in Engines |-> <<>>]
    /\ position = [e \in Engines |-> 0]
    /\ committed = [e \in Engines |-> 0]
    /\ worker = Idle
    /\ requests = [a \in Analysts |-> Idle]
    /\ incidents = <<>> /\ links = <<>> /\ audit = <<>>
    /\ now = 0
    /\ served = 0 /\ crashes = 0 /\ evictions = 0 /\ failures = 0

Published == Len(log["flink-primary"]) + Len(log["python-secondary"])

(* A risk engine produces an alert. *)
Publish(engine, body) ==
    /\ Published < MaxAlerts
    /\ log' = [log EXCEPT ![engine] = Append(@, [id |-> Published + 1, body |-> body])]
    /\ UNCHANGED <<position, committed, worker, requests, tables, now, counts>>

-----------------------------------------------------------------------------
(* The worker: consume() and process_alert().                              *)

(* Mutant: the consumer reads from the position the group committed. *)
FetchCommitted(engine) ==
    /\ worker.pc = "idle"
    /\ committed[engine] < Len(log[engine])
    /\ position' = [position EXCEPT ![engine] = committed[engine] + 1]
    /\ worker' = [pc |-> "lookup", engine |-> engine,
                  alert |-> log[engine][committed[engine] + 1]]
    /\ UNCHANGED <<log, committed, requests, tables, now, counts>>

Fetch(engine) ==
    /\ worker.pc = "idle"
    /\ position[engine] < Len(log[engine])
    /\ position' = [position EXCEPT ![engine] = @ + 1]
    /\ worker' = [pc |-> "lookup", engine |-> engine, alert |-> log[engine][position[engine] + 1]]
    /\ UNCHANGED <<log, committed, requests, tables, now, counts>>

(* The incidents the lookup of an alert selects. *)
Candidates(identity) ==
    {i \in 1..Len(incidents) : /\ incidents[i].identity = identity
                               /\ incidents[i].status \in Active
                               /\ incidents[i].updatedAt >= now - Window}

Found == Candidates(Identity(worker.alert))

(* scalar_one_or_none: no row, or the only row, or MultipleResultsFound,   *)
(* which consume() swallows.                                               *)
Lookup ==
    /\ worker.pc = "lookup"
    /\ \/ /\ Found = {}
          /\ worker' = [pc |-> "create", engine |-> worker.engine, alert |-> worker.alert,
                        began |-> now]
       \/ \E i \in Found :
            /\ Found = {i}
            /\ worker' = [pc |-> "bundle", engine |-> worker.engine, alert |-> worker.alert,
                          began |-> now, incident |-> i, row |-> incidents[i]]
       \/ /\ Cardinality(Found) > 1
          /\ worker' = Idle
    /\ UNCHANGED <<kafka, requests, tables, now, counts>>

(* One transaction: the incident and its first alert.  Without the columns *)
(* the model's constructor raises; consume() prints the exception and goes *)
(* on to the next alert.                                                   *)
Create ==
    /\ worker.pc = "create"
    /\ worker' = Idle
    /\ IF EngineColumnsMapped
       THEN /\ incidents' = Append(incidents,
                               NewIncident(worker.alert, worker.engine, worker.began))
            /\ links' = Append(links, Link(Len(incidents) + 1, worker.alert, worker.engine))
       ELSE UNCHANGED <<incidents, links>>
    /\ UNCHANGED <<kafka, requests, audit, now, counts>>

(* Mutant: the alert's own row is forgotten. *)
BundleUnlinked ==
    /\ worker.pc = "bundle"
    /\ worker' = Idle
    /\ incidents' = [incidents EXCEPT ![worker.incident] =
                        Bundled(@, worker.row, worker.alert, worker.engine, worker.began)]
    /\ UNCHANGED <<kafka, requests, links, audit, now, counts>>

(* One transaction: the incident's new columns and the alert. *)
Bundle ==
    /\ worker.pc = "bundle"
    /\ worker' = Idle
    /\ IF EngineColumnsMapped
       THEN /\ incidents' = [incidents EXCEPT ![worker.incident] =
                     Bundled(@, worker.row, worker.alert, worker.engine, worker.began)]
            /\ links' = Append(links, Link(worker.incident, worker.alert, worker.engine))
       ELSE UNCHANGED <<incidents, links>>
    /\ UNCHANGED <<kafka, requests, audit, now, counts>>

(* Decoding or the database fails: the transaction rolls back, the         *)
(* exception is swallowed and the alert is not tried again.                *)
Fail ==
    /\ worker.pc # "idle"
    /\ failures < MaxFailures
    /\ failures' = failures + 1
    /\ worker' = Idle
    /\ UNCHANGED <<kafka, requests, tables, now, served, crashes, evictions>>

(* The consumer's periodic auto-commit, whatever the worker is doing.  The *)
(* committed positions are read after a crash or a lost membership only:   *)
(* no commit is taken once neither is left.                                *)
AutoCommit ==
    /\ committed # position
    /\ crashes < MaxCrashes \/ evictions < MaxEvictions
    /\ committed' = position
    /\ UNCHANGED <<log, position, worker, requests, tables, now, counts>>

(* The process dies and is restarted at the committed positions. *)
Crash ==
    /\ crashes < MaxCrashes
    /\ crashes' = crashes + 1
    /\ worker' = Idle
    /\ position' = committed
    /\ UNCHANGED <<log, committed, requests, tables, now, served, evictions, failures>>

(* The group takes the consumer for lost: it sends no heartbeat while      *)
(* decode_message blocks its event loop in urlopen.  It joins again at the *)
(* committed positions, the commit of its old generation refused, and goes *)
(* on with the alert it has in hand.                                       *)
Rejoin ==
    /\ evictions < MaxEvictions
    /\ evictions' = evictions + 1
    /\ position' = committed
    /\ UNCHANGED <<log, committed, worker, requests, tables, now, served, crashes, failures>>

-----------------------------------------------------------------------------
(* The incidents API.  A request reads the incident, then commits.         *)

Load(a, i, op, value) ==
    /\ requests[a] = Idle
    /\ served < MaxRequests
    /\ served' = served + 1
    /\ requests' = [requests EXCEPT ![a] = [pc |-> op, incident |-> i, value |-> value,
                                            row |-> incidents[i], began |-> now]]
    /\ UNCHANGED <<kafka, worker, tables, now, crashes, evictions, failures>>

(* Mutant: the request writes every column of the row it read. *)
WithStatusOfRead(current, r) == [r.row EXCEPT !.status = r.value, !.updatedAt = r.began]

(* Mutant: the status is written though it is the one read. *)
WithStatusAlways(current, r) == [current EXCEPT !.status = r.value, !.updatedAt = r.began]

WithStatus(current, r) ==
    [current EXCEPT !.status = IF r.value = r.row.status THEN @ ELSE r.value,
                    !.updatedAt = r.began]

Advances(row) == row.status = "OPEN"

(* update_incident_status: any status may follow any other.  A status      *)
(* equal to the one read is not written.                                   *)
CommitStatus(a) ==
    /\ requests[a].pc = "status"
    /\ LET r == requests[a]
       IN  /\ incidents' = [incidents EXCEPT ![r.incident] = WithStatus(@, r)]
           /\ audit' = Append(audit, AuditRow(r.incident, r.row.status, r.value))
    /\ requests' = [requests EXCEPT ![a] = Idle]
    /\ UNCHANGED <<kafka, worker, links, now, counts>>

(* assign_incident: an incident that was read OPEN advances. *)
CommitAssign(a) ==
    /\ requests[a].pc = "assign"
    /\ LET r == requests[a]
       IN  \/ /\ Advances(r.row)
              /\ incidents' = [incidents EXCEPT ![r.incident] =
                     [@ EXCEPT !.status = "INVESTIGATING", !.updatedAt = r.began,
                               !.assigned = r.value]]
              /\ audit' = Append(audit, AuditRow(r.incident, r.row.status, "INVESTIGATING"))
           \/ /\ ~Advances(r.row)
              /\ r.row.assigned # r.value
              /\ incidents' = [incidents EXCEPT ![r.incident] =
                     [@ EXCEPT !.assigned = r.value, !.updatedAt = r.began]]
              /\ audit' = audit
           \/ /\ ~Advances(r.row)
              /\ r.row.assigned = r.value
              /\ UNCHANGED <<incidents, audit>>
    /\ requests' = [requests EXCEPT ![a] = Idle]
    /\ UNCHANGED <<kafka, worker, links, now, counts>>

Tick ==
    /\ now < MaxTime
    /\ now' = now + 1
    /\ UNCHANGED <<kafka, worker, requests, tables, counts>>

Worker == \/ \E engine \in Engines : Fetch(engine)
          \/ Lookup \/ Create \/ Bundle

Analyst(a) ==
    \/ \E i \in 1..Len(incidents) :
          \/ \E s \in Statuses : Load(a, i, "status", s)
          \/ \E u \in Analysts : Load(a, i, "assign", u)
    \/ CommitStatus(a)
    \/ CommitAssign(a)

Next ==
    \/ \E engine \in Engines, body \in Bodies : Publish(engine, body)
    \/ Worker
    \/ Fail \/ AutoCommit \/ Crash \/ Rejoin
    \/ \E a \in Analysts : Analyst(a)
    \/ Tick

Spec == Init /\ [][Next]_vars

(* The worker's loop takes the next message whenever there is one.         *)
FairSpec == Spec /\ WF_vars(Worker)

-----------------------------------------------------------------------------
IncidentType == [identity : Identities \cup {"UNKNOWN"}, status : Statuses,
                 severity : {"MEDIUM", "HIGH", "CRITICAL"}, count : Nat, maxScore : Nat,
                 sources : SUBSET Engines, corroborated : BOOLEAN,
                 assigned : Analysts \cup {None}, updatedAt : Nat]

WorkerType ==
    {Idle}
    \cup [pc : {"lookup"}, engine : Engines, alert : Alerts]
    \cup [pc : {"create"}, engine : Engines, alert : Alerts, began : Nat]
    \cup [pc : {"bundle"}, engine : Engines, alert : Alerts, began : Nat,
          incident : 1..Len(incidents), row : IncidentType]

RequestType ==
    {Idle} \cup [pc : {"status"}, incident : 1..Len(incidents), value : Statuses,
                 row : IncidentType, began : Nat]
           \cup [pc : {"assign"}, incident : 1..Len(incidents), value : Analysts,
                 row : IncidentType, began : Nat]

(* Rows, requests in flight and Kafka positions have the types of the      *)
(* models; whatever a worker or a request holds points to an existing row. *)
TypeOK ==
    /\ log \in [Engines -> Seq(Alerts)]
    /\ position \in [Engines -> Nat]
    /\ committed \in [Engines -> Nat]
    /\ \A e \in Engines : committed[e] <= position[e] /\ position[e] <= Len(log[e])
    /\ incidents \in Seq(IncidentType)
    /\ links \in Seq([incident : 1..Len(incidents), alert : 1..MaxAlerts, engine : Engines,
                      score : Nat])
    /\ audit \in Seq([incident : 1..Len(incidents), previous : Statuses, new : Statuses])
    /\ worker \in WorkerType
    /\ requests \in [Analysts -> RequestType]
    /\ now \in Nat
    /\ served \in Nat /\ crashes \in Nat /\ evictions \in Nat /\ failures \in Nat

LinksOf(i) == {k \in 1..Len(links) : links[k].incident = i}

(* alert_count, which the worker writes as an absolute value computed from *)
(* the row it read, is the number of alert rows of the incident: no crash, *)
(* failure, lost membership or request of an analyst in between makes them *)
(* disagree.                                                               *)
CountMatchesLinks ==
    \A i \in 1..Len(incidents) : incidents[i].count = Cardinality(LinksOf(i))

(* engine_sources and corroborated tell which engines the incident's own   *)
(* alert rows came from, and that both did.                                *)
CorroboratedByBoth ==
    \A i \in 1..Len(incidents) :
        /\ incidents[i].sources = {links[k].engine : k \in LinksOf(i)}
        /\ incidents[i].corroborated <=> incidents[i].sources = Engines

(* The severity shown to the analysts is the one the worst alert of the    *)
(* incident calls for, in whatever order its alerts arrived.               *)
SeverityOfWorstAlert ==
    \A i \in 1..Len(incidents) : \E k \in LinksOf(i) :
        /\ \A m \in LinksOf(i) : links[m].score <= links[k].score
        /\ incidents[i].maxScore = links[k].score
        /\ incidents[i].severity = SeverityOf(links[k].score)

(* process_alert looks "for an OPEN/INVESTIGATING incident for this        *)
(* identity in the last 30 minutes" with scalar_one_or_none, as if there   *)
(* could be one only.  Not so when an incident gone stale is assigned or   *)
(* labelled after a second was opened, or one that was closed is reopened  *)
(* by a label or by an assignment that had read it open.                   *)
LookupUnambiguous ==
    \A i, j \in 1..Len(incidents) :
        i \in Candidates(incidents[j].identity) /\ j \in Candidates(incidents[j].identity)
            => i = j

AuditOf(i) == {k \in 1..Len(audit) : audit[k].incident = i}

(* The rows of the audit log that changed an incident's status. *)
Changes(i) == {k \in AuditOf(i) : audit[k].previous # audit[k].new}

(* However the requests of several analysts interleave, the audit log      *)
(* tells the status of an incident: that of the last row which changed it, *)
(* OPEN if none did; and no row starts from a status that the incident had *)
(* not been given before.                                                  *)
StatusAudited ==
    \A i \in 1..Len(incidents) :
        /\ \/ Changes(i) = {} /\ incidents[i].status = "OPEN"
           \/ \E k \in Changes(i) : /\ \A m \in Changes(i) : m <= k
                                    /\ audit[k].new = incidents[i].status
        /\ \A k \in AuditOf(i) :
             \/ audit[k].previous = "OPEN"
             \/ \E m \in AuditOf(i) : m < k /\ audit[m].new = audit[k].previous

(* Alerts are not told apart by alert_id: one that is read again is linked *)
(* again.  But it takes a crash of the worker or a lost membership each    *)
(* time: a member of the group goes on from where it is, however old the   *)
(* committed position.                                                     *)
RecordedOncePerSession ==
    \A n \in 1..MaxAlerts :
        Cardinality({k \in 1..Len(links) : links[k].alert = n}) <= 1 + crashes + evictions

(* Every alert either engine publishes ends up in an incident ("incidents  *)
(* keep forming from the other one's alerts"): only a crash of the worker  *)
(* or a failure it swallowed may lose one.  (What is published and what is *)
(* recorded stays so: each alert leads to its record.)                     *)
EveryAlertRecorded ==
    []<>(\A n \in 1..Published : \/ \E k \in 1..Len(links) : links[k].alert = n
                                 \/ crashes + failures > 0)
=============================================================================
