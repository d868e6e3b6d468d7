------------------------------ MODULE Metrics ------------------------------
(***************************************************************************)
(* The metrics of the incidents API: a request that counts the incidents   *)
(* in three statements, each of which sees what is committed when it runs, *)
(* while the worker and the analysts of Incidents go on.  An incident      *)
(* counted is represented by its index, so that two counts can be told     *)
(* apart that happen to be equal.                                          *)
(***************************************************************************)
EXTENDS Incidents

CONSTANT MaxReports   \* bound

VARIABLES report,     \* the request: where it is, what its statements returned
          reports     \* counter of the bound

metricsVars == <<vars, report, reports>>

-----------------------------------------------------------------------------
WithStatusIn(statuses) == {i \in 1..Len(incidents) : incidents[i].status \in statuses}

WithSeverity(severity) == {i \in 1..Len(incidents) : incidents[i].severity = severity}

Resolved == {"CONFIRMED_FRAUD", "FALSE_POSITIVE"}

(* Mutant: every closed case counts as resolved. *)
AveragedOverClosed == Statuses \ Active
Averaged == Resolved

MetricsInit ==
    /\ Init
    /\ report = Idle
    /\ reports = 0

CountStatuses ==
    /\ report = Idle /\ reports < MaxReports
    /\ reports' = reports + 1
    /\ report' = [pc |-> "severities", status |-> [s \in Statuses |-> WithStatusIn({s})],
                  audited |-> Len(audit)]
    /\ UNCHANGED vars

CountSeverities ==
    /\ report.pc = "severities"
    /\ report' = [pc |-> "average", status |-> report.status, audited |-> report.audited,
                  severity |-> [s \in {"MEDIUM", "HIGH", "CRITICAL"} |-> WithSeverity(s)]]
    /\ UNCHANGED <<vars, reports>>

AverageResolution ==
    /\ report.pc = "average"
    /\ report' = [pc |-> "done", status |-> report.status, audited |-> report.audited,
                  severity |-> report.severity, averaged |-> WithStatusIn(Averaged)]
    /\ UNCHANGED <<vars, reports>>

Respond ==
    /\ report.pc = "done"
    /\ report' = Idle
    /\ UNCHANGED <<vars, reports>>

MetricsNext ==
    \/ Next /\ UNCHANGED <<report, reports>>
    \/ CountStatuses \/ CountSeverities \/ AverageResolution \/ Respond

MetricsSpec == MetricsInit /\ [][MetricsNext]_metricsVars

-----------------------------------------------------------------------------
(* What MetricsResponse puts side by side belongs to three moments, and    *)
(* differs by what happened between them only: an incident in the total is *)
(* in the severities too; and one that precision counts and the average    *)
(* does not, or the other way round, was relabelled while the metrics were *)
(* computed, which the audit log shows.                                    *)
MetricsExplained ==
    report.pc = "done" =>
      LET total     == UNION {report.status[s] : s \in Statuses}
          resolved  == report.status["CONFIRMED_FRAUD"] \cup report.status["FALSE_POSITIVE"]
          relabelled == {audit[k].incident : k \in report.audited + 1..Len(audit)}
      IN  /\ total \subseteq UNION {report.severity[s] : s \in DOMAIN report.severity}
          /\ resolved \ report.averaged \subseteq relabelled
          /\ report.averaged \ resolved \subseteq relabelled
=============================================================================
