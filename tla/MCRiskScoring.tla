--------------------------- MODULE MCRiskScoring ---------------------------
(* Small instances of RiskScoring for TLC: the rows an identity produces.   *)
EXTENDS RiskScoring

(* risk-scoring.properties; a label with no weight scores 10. *)
MCWeight ==
    [i \in IndicatorNames |->
        CASE i = "NEW_DEVICE" -> 30
          [] i = "NEW_COUNTRY" -> 35
          [] i = "IMPOSSIBLE_TRAVEL" -> 50
          [] i = "MULTIPLE_FAILED_LOGINS" -> 25
          [] i = "LARGE_TRANSFER_AMOUNT" -> 35
          [] i = "VELOCITY_VIOLATION" -> 30
          [] i = "HIGH_RISK_RECIPIENT" -> 40
          [] i = "SUSPICIOUS_API_PATTERN" -> 20
          [] i = "UNLISTED" -> 10]

Row == [table |-> "sessions", indicator |-> None, device |-> None, country |-> None,
        success |-> None, large |-> FALSE, highRisk |-> FALSE]

Login(device, country, success) ==
    [Row EXCEPT !.table = "login_events", !.device = device, !.country = country,
                !.success = success]
Labelled(label) == [Row EXCEPT !.indicator = label]

(* Two countries: the second login and every later switch score 85. *)
TravelRows == {Login(None, "DE", TRUE), Login(None, "BR", TRUE)}

(* One labelled indicator: with the threshold at 40 every event may alert. *)
LabelledRows == {Labelled("IMPOSSIBLE_TRAVEL")}
=============================================================================
