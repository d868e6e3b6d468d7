--------------------------- MODULE MCRiskPipeline ---------------------------
(* Small instances of RiskPipeline for TLC: the rows the topics carry.      *)
EXTENDS RiskPipeline

CONSTANTS a1, c1, ip1

Body == [topic |-> "banking.login_events", value |-> "json", op |-> "c",
         customer |-> None, account |-> None, address |-> None]

Login == [Body EXCEPT !.customer = c1, !.address = ip1]
Transfer == [Body EXCEPT !.topic = "banking.transactions", !.account = a1]
DroppedSession == [Body EXCEPT !.topic = "banking.sessions", !.op = "d"]
Tombstone == [Body EXCEPT !.topic = "banking.sessions", !.value = "null"]
ApiCall == [Body EXCEPT !.topic = "api_requests", !.value = "avro", !.address = ip1]
AccountOf(c) == [Body EXCEPT !.topic = "banking.accounts", !.op = "u", !.account = a1,
                             !.customer = c]
DroppedAccount == [AccountOf(None) EXCEPT !.op = "d"]

MCBodies == {Login, Transfer, DroppedSession, Tombstone, ApiCall,
             AccountOf(c1), AccountOf(None), DroppedAccount}
=============================================================================
