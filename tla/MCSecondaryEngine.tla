------------------------- MODULE MCSecondaryEngine -------------------------
(* Small instances of SecondaryEngine for TLC: what the topics carry.       *)
EXTENDS SecondaryEngine

CONSTANTS c1, a1, ip1

(* Scores are in quarters of a point, which two halvings leave whole.       *)
MCWeight ==
    [i \in IndicatorNames |->
        4 * CASE i = "NEW_DEVICE" -> 30
              [] i = "NEW_COUNTRY" -> 40
              [] i = "IMPOSSIBLE_TRAVEL" -> 60
              [] i = "MULTIPLE_FAILED_LOGINS" -> 35
              [] i = "LARGE_TRANSFER_AMOUNT" -> 25
              [] i = "VELOCITY_VIOLATION" -> 30
              [] i = "SUSPICIOUS_API_PATTERN" -> 20]

Blank == [topic |-> "banking.accounts", subject |-> None, customer |-> None, device |-> None,
          country |-> None, success |-> TRUE, large |-> FALSE, sensitive |-> FALSE,
          deleted |-> FALSE]

Login(customer, device, country, success) ==
    [Blank EXCEPT !.topic = "banking.login_events", !.subject = customer, !.device = device,
                  !.country = country, !.success = success]
Transfer(account, large) ==
    [Blank EXCEPT !.topic = "banking.transactions", !.subject = account, !.large = large]
ApiCall(address, sensitive) ==
    [Blank EXCEPT !.topic = "api_requests", !.subject = address, !.sensitive = sensitive]
Opened(account, customer) == [Blank EXCEPT !.subject = account, !.customer = customer]
Deleted(m) == [m EXCEPT !.deleted = TRUE]

MCMessages == {Login(c1, "d1", "DE", TRUE), Login(c1, "d2", "BR", FALSE), Transfer(a1, TRUE),
               ApiCall(ip1, TRUE), Opened(a1, c1), Deleted(Opened(a1, c1))}
=============================================================================
