--------------------------- MODULE RiskIndicators ---------------------------
(***************************************************************************)
(* How the Flink engine turns one raw event of an identity into risk       *)
(* indicators: RiskScoringProcessor.deriveIndicators, together with the    *)
(* part of RiskProfileState it reads and writes (the identity's behaviour  *)
(* memory).  The module has no variables: the operators take the memory    *)
(* and return the indicators and the new memory.                           *)
(***************************************************************************)
EXTENDS Integers, Sequences

CONSTANTS None,                   \* an absent (null) field of an event or of the memory
          Weight,                 \* indicator |-> points (risk-scoring.properties)
          ImpossibleTravelWindow, \* the indicator windows and thresholds of RiskScoringConfig
          FailedLoginWindow, FailedLoginThreshold,
          VelocityWindow, VelocityThreshold,
          ApiRateWindow, ApiRateThreshold,
          MaxRetained,            \* MAX_RETAINED_TIMESTAMPS (50 in the code)
          MaxIndicators           \* length of the indicator ring (8 in the code)

(* "UNLISTED" stands for any explicit label with no configured weight. *)
IndicatorNames == {"NEW_DEVICE", "NEW_COUNTRY", "IMPOSSIBLE_TRAVEL", "MULTIPLE_FAILED_LOGINS",
                   "LARGE_TRANSFER_AMOUNT", "VELOCITY_VIOLATION", "HIGH_RISK_RECIPIENT",
                   "SUSPICIOUS_API_PATTERN", "UNLISTED"}

(* The order in which the indicators of one event are added to the ring. *)
IndicatorOrder == <<"NEW_DEVICE", "NEW_COUNTRY", "IMPOSSIBLE_TRAVEL", "MULTIPLE_FAILED_LOGINS",
                    "LARGE_TRANSFER_AMOUNT", "VELOCITY_VIOLATION", "HIGH_RISK_RECIPIENT",
                    "SUSPICIOUS_API_PATTERN", "UNLISTED">>

ASSUME WeightAssumption == Weight \in [IndicatorNames -> Nat]

-----------------------------------------------------------------------------
NoMemory == [lastDevice |-> None, lastCountry |-> None, lastLoginTs |-> 0,
             failedLogins |-> <<>>, transactions |-> <<>>, apiRequests |-> <<>>,
             ring |-> <<>>]

LastN(s, n) == SubSeq(s, IF Len(s) > n THEN Len(s) - n + 1 ELSE 1, Len(s))

(* The times no longer than the window before `now', in their order.       *)
InWindow(timestamps, now, window) ==
    LET kept[n \in 0..Len(timestamps)] ==
            IF n = 0 THEN <<>>
            ELSE IF now - timestamps[n] <= window THEN Append(kept[n - 1], timestamps[n])
            ELSE kept[n - 1]
    IN  kept[Len(timestamps)]

(* Mutant: the list without its window. *)
RecordAndPruneForever(timestamps, now, window) ==
    LastN(Append(timestamps, now), MaxRetained)

(* The list is filtered against the event time `now', which need not be    *)
(* the largest time in it: events of an identity arrive out of order.      *)
RecordAndPrune(timestamps, now, window) ==
    LastN(InWindow(Append(timestamps, now), now, window), MaxRetained)

AddIndicators(ring, indicators) ==
    LastN(ring \o SelectSeq(IndicatorOrder, LAMBDA i : i \in indicators), MaxIndicators)

Points(indicators, i) == IF i \in indicators THEN Weight[i] ELSE 0

WeightSum(indicators) ==
    Points(indicators, "NEW_DEVICE") + Points(indicators, "NEW_COUNTRY")
  + Points(indicators, "IMPOSSIBLE_TRAVEL") + Points(indicators, "MULTIPLE_FAILED_LOGINS")
  + Points(indicators, "LARGE_TRANSFER_AMOUNT") + Points(indicators, "VELOCITY_VIOLATION")
  + Points(indicators, "HIGH_RISK_RECIPIENT") + Points(indicators, "SUSPICIOUS_API_PATTERN")
  + Points(indicators, "UNLISTED")

-----------------------------------------------------------------------------
Changed(old, new) == old # None /\ new # None /\ old # new

(* Mutant: what was seen first is remembered. *)
KnownFirst(old, new) == IF old # None THEN old ELSE new
Known(old, new) == IF new # None THEN new ELSE old

(* Mutant: no check that a country is known. *)
CountryDiffers(row, m) == m.lastCountry # row.country
CountryChanged(row, m) == Changed(m.lastCountry, row.country)

FasterThanTravel(now, m) ==
    m.lastLoginTs > 0 /\ now - m.lastLoginTs <= ImpossibleTravelWindow

(* Mutant: a successful login clears nothing. *)
FailedLoginsKept(row, now, m) ==
    IF row.success = FALSE THEN RecordAndPrune(m.failedLogins, now, FailedLoginWindow)
    ELSE m.failedLogins

FailedLoginsAfter(row, now, m) ==
    CASE row.success = FALSE -> RecordAndPrune(m.failedLogins, now, FailedLoginWindow)
      [] row.success = TRUE  -> <<>>
      [] OTHER               -> m.failedLogins

LoginIndicators(row, now, m) ==
    {i \in IndicatorNames :
        \/ i = "NEW_DEVICE" /\ Changed(m.lastDevice, row.device)
        \/ i = "NEW_COUNTRY" /\ CountryChanged(row, m)
        \/ i = "IMPOSSIBLE_TRAVEL" /\ CountryChanged(row, m) /\ FasterThanTravel(now, m)
        \/ /\ i = "MULTIPLE_FAILED_LOGINS"
           /\ row.success = FALSE
           /\ Len(FailedLoginsAfter(row, now, m)) >= FailedLoginThreshold}

TransactionIndicators(row, now, m) ==
    {i \in IndicatorNames :
        \/ i = "LARGE_TRANSFER_AMOUNT" /\ row.large
        \/ /\ i = "VELOCITY_VIOLATION"
           /\ Len(RecordAndPrune(m.transactions, now, VelocityWindow)) >= VelocityThreshold
        \/ i = "HIGH_RISK_RECIPIENT" /\ row.highRisk}

ApiIndicators(now, m) ==
    {i \in IndicatorNames :
        /\ i = "SUSPICIOUS_API_PATTERN"
        /\ Len(RecordAndPrune(m.apiRequests, now, ApiRateWindow)) >= ApiRateThreshold}

(* An explicit label short-circuits the derivation; a sessions row, or a   *)
(* row of no known table, derives nothing.                                 *)
DeriveIndicators(row, now, m) ==
    CASE row.indicator # None         -> {row.indicator}
      [] row.indicator = None /\ row.table = "login_events" -> LoginIndicators(row, now, m)
      [] row.indicator = None /\ row.table = "transactions" -> TransactionIndicators(row, now, m)
      [] row.indicator = None /\ row.table = "api_requests" -> ApiIndicators(now, m)
      [] OTHER                        -> {}

ObserveLogin(row, now, m) ==
    [m EXCEPT !.lastDevice = Known(@, row.device), !.lastCountry = Known(@, row.country),
              !.lastLoginTs = now, !.failedLogins = FailedLoginsAfter(row, now, m)]

Observe(row, now, m) ==
    CASE row.indicator # None         -> m
      [] row.indicator = None /\ row.table = "login_events" -> ObserveLogin(row, now, m)
      [] row.indicator = None /\ row.table = "transactions" ->
            [m EXCEPT !.transactions = RecordAndPrune(@, now, VelocityWindow)]
      [] row.indicator = None /\ row.table = "api_requests" ->
            [m EXCEPT !.apiRequests = RecordAndPrune(@, now, ApiRateWindow)]
      [] OTHER                        -> m

(* The behaviour memory after the event: what it recorded, and the ring of *)
(* active indicators with this event's indicators at its end.              *)
MemoryAfter(row, now, m) ==
    [Observe(row, now, m) EXCEPT !.ring = AddIndicators(@, DeriveIndicators(row, now, m))]
=============================================================================
