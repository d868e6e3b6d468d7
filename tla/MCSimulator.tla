----------------------------- MODULE MCSimulator -----------------------------
(* Small instances of Simulator for TLC. *)
EXTENDS Simulator, TLC

CONSTANTS g0, g1, g2

(* risk-scoring.properties *)
MCWeight ==
    [i \in IndicatorNames |->
        CASE i = "NEW_DEVICE" -> 30
          [] i = "NEW_COUNTRY" -> 35
          [] i = "IMPOSSIBLE_TRAVEL" -> 50
          [] i = "MULTIPLE_FAILED_LOGINS" -> 25
          [] i = "LARGE_TRANSFER_AMOUNT" -> 35
          [] i = "VELOCITY_VIOLATION" -> 30
          [] i = "HIGH_RISK_RECIPIENT" -> 40
          [] i = "SUSPICIOUS_API_PATTERN" -> 20
          [] i = "UNLISTED" -> 10]

MCRing  == <<g0, g1>>
MCChain == <<g1, g0>>

MCVictims == [s \in {"account_takeover", "wire_fraud", "social_engineering"} |-> g0]

MCRepeat == [l \in Loops |-> CASE l = "stuffing" -> 3
                               [] l \in {"strikes", "spray", "smurf"} -> 2 [] OTHER -> 1]

MCPeriod == [s \in AllScenarios |-> IF s = "account_takeover" THEN 1 ELSE 0]
=============================================================================
