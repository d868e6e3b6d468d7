---------------------------- MODULE MCApiServer ----------------------------
(* A small instance of ApiServer for TLC: a ring of three accounts that one *)
(* transfer closes, by another name of the first, and a longer one that    *)
(* another closes; one of the transfers is of a negative amount.           *)
EXTENDS ApiServer

CONSTANTS a1, a2, a3, a4, b1, c1, d1, d2, ip1

(* The accounts a1 and b1 are one node, as X and ACCT-X are. *)
MCNodeOf(id) == IF id = b1 THEN a1 ELSE id

Row(id, from, to, amount) == [id |-> id, from |-> from, to |-> to, amount |-> amount, at |-> 0]

Chain == [transactions |-> {Row(0, a1, a2, 1), Row(1, a2, a3, 2), Row(2, a1, a2, -1), Row(3, a3, a4, 1)},
          devices |-> {[device |-> d1, customer |-> Mule]},
          logins |-> {[id |-> 0, customer |-> Mule, address |-> ip1, at |-> 0]}]

OneChain == {Chain}

LoginOf(customer, device) == [op |-> "login", customer |-> customer, address |-> ip1, device |-> device]

TransferOf(from, to, amount) ==
    [op |-> "transfer", from |-> from, to |-> to, amount |-> amount, customer |-> c1]

Queries == {[op |-> "detect"]} \cup {[op |-> "entity", center |-> n] : n \in {a1, d2}}

Writes == {TransferOf(a3, b1, 2), TransferOf(a4, a1, 1), LoginOf(c1, d1), LoginOf(c1, d2)}

MCCalls == <<Queries, Writes \cup {[op |-> "detect"]}>>
=============================================================================
