---------------------------- MODULE AtomicAlerts ----------------------------
(***************************************************************************)
(* What an engine promises that silences an identity with its alert: an    *)
(* alert tells all that stands against the identity when it goes out, and  *)
(* in the same step nothing stands against it any more.                    *)
(***************************************************************************)
EXTENDS Integers, Sequences

CONSTANTS Identities, AlertThreshold, CriticalThreshold, CooldownSec

VARIABLES clock,
          life,      \* how often the engine was started again
          standing,  \* identity |-> its score, its indicators, its last alert's time
          alerts

vars == <<clock, life, standing, alerts>>

Clean == [score |-> 0, indicators |-> <<>>, lastAlert |-> 0]

Init ==
    /\ clock = CooldownSec /\ life = 0
    /\ standing = [i \in Identities |-> Clean]
    /\ alerts = <<>>

(* An event of an identity is judged, or time takes from its score. *)
Assess(i) ==
    /\ \A j \in Identities \ {i} : standing'[j] = standing[j]
    /\ standing'[i].lastAlert = standing[i].lastAlert
    /\ UNCHANGED <<clock, life, alerts>>

Due(i, now) ==
    standing[i].score >= AlertThreshold /\ now - standing[i].lastAlert >= CooldownSec

Alert(i, now) ==
    [identity |-> i, window |-> now \div CooldownSec, time |-> now, life |-> life,
     severity |-> IF standing[i].score >= CriticalThreshold THEN "CRITICAL" ELSE "FRAUD",
     score |-> standing[i].score, indicators |-> standing[i].indicators]

(* An alert goes out, or is lost on its way. *)
Goes(i, now) == Due(i, now) /\ alerts' = Append(alerts, Alert(i, now))

Report(i, now) ==
    /\ Goes(i, now) \/ (Due(i, now) /\ UNCHANGED alerts)
    /\ standing' = [standing EXCEPT ![i] = [Clean EXCEPT !.lastAlert = now]]
    /\ UNCHANGED <<clock, life>>

Restart ==
    /\ life' = life + 1
    /\ (\E i \in Identities, now \in 0..clock : Goes(i, now)) \/ UNCHANGED alerts
    /\ standing' = [i \in Identities |-> Clean]
    /\ UNCHANGED clock

Tick == clock' > clock /\ UNCHANGED <<life, standing, alerts>>

Next ==
    \/ \E i \in Identities : Assess(i) \/ \E now \in 0..clock : Report(i, now)
    \/ Restart
    \/ Tick

Spec == Init /\ [][Next]_vars
=============================================================================
