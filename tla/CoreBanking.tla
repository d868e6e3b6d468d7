---------------------------- MODULE CoreBanking ----------------------------
(***************************************************************************)
(* The core banking API: transfers, balance queries, logins, beneficiaries *)
(* and an employee's views, which open the accounts, customers, devices    *)
(* and employees they do not find, and the deletion of sessions.  The      *)
(* other endpoints write nothing.                                          *)
(*                                                                         *)
(* A request is one database transaction and a list of statements; an      *)
(* action executes the statement at the head of one request's list, so     *)
(* requests interleave between any two statements.  The database is        *)
(* PostgreSQL at READ COMMITTED: a statement sees what is committed and    *)
(* what its own transaction wrote; a row written is locked until the       *)
(* transaction ends, and an insert waits for the fate of an equal key.     *)
(*                                                                         *)
(* Money is stored in cents, Numeric(15, 2).  A payload's amount is a      *)
(* float, of any sign and with any fraction of a cent: here a number of    *)
(* parts of a cent.                                                        *)
(***************************************************************************)
EXTENDS Integers, Sequences, FiniteSets

CONSTANTS None, Clients, Accounts, Customers, Devices, Employees,
          Precedes(_, _),   \* the order of account_id
          Mule, Fallback,   \* cust_external_mule, cust_unknown_fallback
          Seeded,           \* the rows startup has seeded
          Parts,            \* how many parts a cent has
          Amounts,          \* what a transfer may move, in parts
          MaxRequests, MaxFailures   \* bounds

VARIABLES table,      \* every row but those only appended: key |-> balance in cents, or a
                      \* device's customer, or 0; None is no row
          ledger,     \* table transactions; `whole', a history, says that no part was lost
          requests,   \* client |-> its request in process
          opened,     \* history: account |-> the balance it was opened with
          effects,    \* history: account |-> the entries of the ledger its balance contains
          served, failures   \* counters of the bounds

vars == <<table, ledger, requests, opened, effects, served, failures>>

Sessions == 1..MaxRequests    \* a session's id is random: here the number of its login

Keys == Accounts \cup Customers \cup Devices \cup Employees \cup Sessions

ASSUME NamesAssumption ==
    /\ None \notin Keys \cup Int
    /\ Accounts \cap (Customers \cup Devices \cup Employees) = {}
    /\ Customers \cap (Devices \cup Employees) = {} /\ Devices \cap Employees = {}
    /\ Sessions \cap (Accounts \cup Devices) = {}
ASSUME BoundsAssumption == Amounts \subseteq Int /\ Parts \in Nat \ {0} /\ MaxRequests \in Nat
(* account_id is a string: account numbers are compared one way, each with *)
(* every other, and the connections to the database are limited.           *)
ASSUME OrderAssumption ==
    /\ \A a \in Accounts : ~Precedes(a, a)
    /\ \A a, b \in Accounts : a # b => Precedes(a, b) \/ Precedes(b, a)
    /\ \A a, b, k \in Accounts : Precedes(a, b) /\ Precedes(b, k) => Precedes(a, k)
ASSUME ClientsAssumption == IsFiniteSet(Clients)
ASSUME SeededAssumption == Seeded \subseteq Keys /\ Mule \in Customers /\ Fallback \in Customers

-----------------------------------------------------------------------------
(* Statements: an operation, the key it is about, and for an insert the    *)
(* row's first balance, for a write the parts to add.                      *)
Statement(op, key, value) == [op |-> op, key |-> key, value |-> value]

(* "find" looks an account up, for the handler to open it if missing with  *)
(* the balance given, with its owner; "owner" does the same for a          *)
(* customer or an employee; "enrol" opens a customer with a first account, *)
(* at login; "claim" gives a device to a customer if it has none; "refer"  *)
(* is a foreign key to a customer.                                         *)
Find(a, owner, balance) == [op |-> "find", key |-> a, value |-> balance, with |-> owner]
Owner(customer)         == Statement("owner", customer, 0)
Claim(device, customer) == Statement("claim", device, customer)
Refer(customer)         == Statement("refer", customer, 0)
Delete(session)         == Statement("delete", session, 0)
Insert(key, balance)    == Statement("insert", key, balance)
Enrol(customer, a)      == [op |-> "enrol", key |-> customer, value |-> 7500, with |-> a]
Read(a)                 == Statement("read", a, 0)
Write(a, amount)        == Statement("write", a, amount)
Commit                  == Statement("commit", None, 0)

Transferred(from, to, amount) == [from |-> from, to |-> to, amount |-> amount]
NoTransfer == Transferred(None, None, 0)

(* Mutant: the updates in the order of the handler's assignments. *)
UpdatesAsAssigned(from, to, amount) == <<Write(from, -amount), Write(to, amount)>>

(* The unit of work flushes updates in the order of the primary key. *)
Updates(from, to, amount) ==
    IF Precedes(from, to) THEN <<Write(from, -amount), Write(to, amount)>>
    ELSE <<Write(to, amount), Write(from, -amount)>>

(* execute_transfer: an account it opens belongs to the caller (who may    *)
(* not have said who it is) or to the external mule.                       *)
TransferStatements(from, to, amount, user) ==
    <<Find(from, user, 15000), Find(to, Mule, 15000), Read(from), Read(to)>>
    \o Updates(from, to, amount) \o <<Commit>>

(* get_account_balance. *)
BalanceStatements(a) == <<Find(a, Fallback, 5000), Commit>>

(* api_login: a new customer gets an account with a random number. *)
LoginStatements(customer, a, device, session) ==
    <<Enrol(customer, a), Claim(device, customer), Insert(session, 0), Commit>>

(* drop_session. *)
DropStatements(session) == <<Delete(session), Commit>>

(* employee_view_account: the employee is opened, the customer is not. *)
ViewStatements(employee, customer) == <<Owner(employee), Refer(customer), Commit>>

(* add_beneficiary. *)
BeneficiaryStatements(customer) == <<Owner(customer), Commit>>

Empty == [k \in {} |-> 0]

Request(statements, transfer) ==
    [todo |-> statements, transfer |-> transfer,
     inserted |-> Empty, written |-> Empty,          \* locked, not committed
     balance |-> Empty, effects |-> Empty]           \* what the handler read
Idle == Request(<<>>, NoTransfer)

-----------------------------------------------------------------------------
Initially(k) == IF k \in Seeded THEN 0 ELSE None

Init ==
    /\ table = [k \in Keys |-> Initially(k)]
    /\ ledger = <<>>
    /\ requests = [c \in Clients |-> Idle]
    /\ opened = [a \in Accounts |-> Initially(a)]
    /\ effects = [a \in Accounts |-> {}]
    /\ served = 0 /\ failures = 0

Begin(c, statements, transfer) ==
    /\ requests[c] = Idle
    /\ served < MaxRequests
    /\ served' = served + 1
    /\ requests' = [requests EXCEPT ![c] = Request(statements, transfer)]
    /\ UNCHANGED <<table, ledger, opened, effects, failures>>

Transfer(c) ==
    \E from, to \in Accounts, amount \in Amounts, user \in Customers \cup {None} :
        /\ from # to
        /\ Begin(c, TransferStatements(from, to, amount, user), Transferred(from, to, amount))

Balance(c) == \E a \in Accounts : Begin(c, BalanceStatements(a), NoTransfer)

Login(c) ==
    \E customer \in Customers, a \in Accounts, device \in Devices :
        Begin(c, LoginStatements(customer, a, device, served + 1), NoTransfer)

DropSession(c) == \E session \in 1..served : Begin(c, DropStatements(session), NoTransfer)

ViewAccount(c) ==
    \E employee \in Employees, customer \in Customers :
        Begin(c, ViewStatements(employee, customer), NoTransfer)

AddBeneficiary(c) ==
    \E customer \in Customers : Begin(c, BeneficiaryStatements(customer), NoTransfer)

-----------------------------------------------------------------------------
Current(c) == Head(requests[c].todo)
Running(c) == requests[c].todo # <<>>
At(c, op) == Running(c) /\ Current(c).op = op

Visible(c, k) == k \in DOMAIN requests[c].inserted \/ (k \in Keys /\ table[k] # None)

Holds(c, k) == k \in DOMAIN requests[c].inserted \cup DOMAIN requests[c].written

(* The row locks: c waits for d to commit or roll back.  A session that is *)
(* not committed yet is not found, and nobody waits to delete it.          *)
WaitsFor(c, d) ==
    /\ c # d
    /\ At(c, "delete") => Visible(c, Current(c).key)
    /\ \E op \in {"insert", "claim", "write", "delete"} : At(c, op)
    /\ Holds(d, Current(c).key)

Blocked(c) == \E d \in Clients : WaitsFor(c, d)

(* Goes on with the rest of the list, after the statements in `more'. *)
Continue(c, r, more) == requests' = [requests EXCEPT ![c] = [r EXCEPT !.todo = more \o Tail(@)]]

(* The statements that open a row which a lookup does not find. *)
Opening(s) ==
    CASE s.op = "find"  -> <<Owner(s.with), Insert(s.key, s.value)>>
      [] s.op = "owner" -> <<Insert(s.key, 0)>>
      [] s.op = "enrol" -> <<Insert(s.key, 0), Insert(s.with, s.value)>>

Lookup(c) ==
    /\ \E op \in {"find", "owner", "enrol"} : At(c, op)
    /\ LET s == Current(c)
       IN  Continue(c, requests[c], IF Visible(c, s.key) THEN <<>> ELSE Opening(s))
    /\ UNCHANGED <<table, ledger, opened, effects, served, failures>>

(* Mutant: the session is not closed, and its locks stay. *)
RollbackUnclosed(c) == requests' = [requests EXCEPT ![c].todo = <<>>]

(* An exception leaves get_db, which closes the session. *)
Rollback(c) == requests' = [requests EXCEPT ![c] = Idle]

Rejected(c, k) == k = None \/ Visible(c, k)

(* A new row, locked until it is committed. *)
WithRow(r, key, value) ==
    [r EXCEPT !.inserted = [k \in DOMAIN @ \cup {key} |-> IF k = key THEN value ELSE @[k]]]

(* The flush of a new row: a null or an equal key raises. *)
InsertRow(c) ==
    /\ At(c, "insert")
    /\ ~Blocked(c)
    /\ LET s == Current(c)
           r == requests[c]
       IN  IF Rejected(c, s.key) THEN Rollback(c)
           ELSE Continue(c, WithRow(r, s.key, s.value), <<>>)
    /\ UNCHANGED <<table, ledger, opened, effects, served, failures>>

(* Mutant: ON CONFLICT DO UPDATE. *)
ClaimAlways(c, device) == TRUE
Unclaimed(c, device) == ~Visible(c, device)

(* INSERT .. ON CONFLICT DO NOTHING: waits as an insert does, and leaves   *)
(* the device with the customer who has it.                                *)
ClaimDevice(c) ==
    /\ At(c, "claim")
    /\ ~Blocked(c)
    /\ LET s == Current(c)
           r == requests[c]
       IN  Continue(c, IF Unclaimed(c, s.key) THEN WithRow(r, s.key, s.value) ELSE r, <<>>)
    /\ UNCHANGED <<table, ledger, opened, effects, served, failures>>

ReferToCustomer(c) ==
    /\ At(c, "refer")
    /\ IF Visible(c, Current(c).key) THEN Continue(c, requests[c], <<>>) ELSE Rollback(c)
    /\ UNCHANGED <<table, ledger, opened, effects, served, failures>>

(* The select of a session, and the deletion of the one it finds.  That    *)
(* another request deletes it between the two is no error.                 *)
DeleteSession(c) ==
    /\ At(c, "delete")
    /\ ~Blocked(c)
    /\ LET s == Current(c)
           r == requests[c]
       IN  Continue(c, IF Visible(c, s.key)
                       THEN [r EXCEPT !.written = [k \in {s.key} |-> None]] ELSE r, <<>>)
    /\ UNCHANGED <<table, ledger, opened, effects, served, failures>>

(* The handler reads an account's balance into memory. *)
ReadBalance(c) ==
    /\ At(c, "read")
    /\ LET a == Current(c).key
           r == requests[c]
           value == IF a \in DOMAIN r.inserted THEN r.inserted[a] ELSE table[a]
       IN  Continue(c, [r EXCEPT
                !.balance = [k \in DOMAIN @ \cup {a} |-> IF k = a THEN value ELSE @[k]],
                !.effects = [k \in DOMAIN @ \cup {a} |-> IF k = a THEN effects[a] ELSE @[k]]],
              <<>>)
    /\ UNCHANGED <<table, ledger, opened, effects, served, failures>>

(* Mutant: the amount is added on both sides. *)
SumUnsigned(balance, amount) == balance + (IF amount < 0 THEN -amount ELSE amount)
Sum(balance, amount) == balance + amount

(* What Numeric(15, 2) may make of a float of so many parts: the nearest   *)
(* cent, and of two equally near the one the float's last bits decide on.  *)
Rounded(parts) ==
    {cents \in (parts \div Parts)..(parts \div Parts) + 1 :
        2 * (cents * Parts - parts) \in -Parts..Parts}

Whole(parts) == (parts \div Parts) * Parts = parts

(* Mutant: every statement is a transaction of its own. *)
WriteAutocommit(c) ==
    /\ At(c, "write")
    /\ ~Blocked(c)
    /\ LET s == Current(c)
       IN  \E cents \in Rounded(Sum(requests[c].balance[s.key] * Parts, s.value)) :
             table' = [table EXCEPT ![s.key] = IF @ = None THEN None ELSE cents]
    /\ Continue(c, requests[c], <<>>)
    /\ UNCHANGED <<ledger, opened, effects, served, failures>>

(* UPDATE accounts SET balance = <what was read, plus the amount>. *)
WriteBalance(c) ==
    /\ At(c, "write")
    /\ ~Blocked(c)
    /\ LET s == Current(c)
           r == requests[c]
       IN  \E cents \in Rounded(Sum(r.balance[s.key] * Parts, s.value)) :
             Continue(c, [r EXCEPT !.written =
                 [k \in DOMAIN @ \cup {s.key} |-> IF k = s.key THEN cents ELSE @[k]]], <<>>)
    /\ UNCHANGED <<table, ledger, opened, effects, served, failures>>

Entry(transfer, cents) ==
    [from |-> transfer.from, to |-> transfer.to, amount |-> cents,
     whole |-> Whole(transfer.amount)]

CommitRequest(c) ==
    /\ At(c, "commit")
    /\ LET r == requests[c]
           new == DOMAIN r.inserted
           updated == DOMAIN r.written
       IN  /\ table' = [k \in Keys |-> IF k \in updated THEN r.written[k]
                                       ELSE IF k \in new THEN r.inserted[k] ELSE table[k]]
           /\ \/ r.transfer = NoTransfer /\ ledger' = ledger
              \/ /\ r.transfer # NoTransfer
                 /\ \E cents \in Rounded(r.transfer.amount) :
                       ledger' = Append(ledger, Entry(r.transfer, cents))
           /\ opened' = [a \in Accounts |-> IF a \in new THEN r.inserted[a] ELSE opened[a]]
           /\ effects' = [a \in Accounts |->
                            IF a \in updated THEN r.effects[a] \cup {Len(ledger')} ELSE effects[a]]
    /\ requests' = [requests EXCEPT ![c] = Idle]
    /\ UNCHANGED <<served, failures>>

(* The connection, the client or the process is lost. *)
Fail(c) ==
    /\ Running(c)
    /\ failures < MaxFailures
    /\ failures' = failures + 1
    /\ Rollback(c)
    /\ UNCHANGED <<table, ledger, opened, effects, served>>

(* Each waits for exactly one of the others: cycles of the waits-for graph. *)
Deadlocked(group) ==
    /\ group # {}
    /\ \A c \in group : \E d \in group : WaitsFor(c, d)
    /\ \A d \in group : \E c \in group : WaitsFor(c, d)

(* The database breaks a deadlock by failing one of its transactions. *)
BreakDeadlock(c) ==
    /\ \E group \in SUBSET Clients : c \in group /\ Deadlocked(group)
    /\ Rollback(c)
    /\ UNCHANGED <<table, ledger, opened, effects, served, failures>>

Step(c) == \/ Lookup(c) \/ InsertRow(c) \/ ReadBalance(c) \/ WriteBalance(c)
           \/ ClaimDevice(c) \/ ReferToCustomer(c) \/ DeleteSession(c)
           \/ CommitRequest(c) \/ BreakDeadlock(c)

Next == \E c \in Clients :
            \/ Transfer(c) \/ Balance(c) \/ Login(c) \/ AddBeneficiary(c)
            \/ DropSession(c) \/ ViewAccount(c)
            \/ Step(c) \/ Fail(c)

Spec == Init /\ [][Next]_vars

(* The event loop resumes every handler whose statement has returned, and  *)
(* the database detects deadlocks.                                         *)
FairSpec == Spec /\ \A c \in Clients : WF_vars(Step(c))

-----------------------------------------------------------------------------
(* The statements of a request are about rows it may touch: it reads only  *)
(* what it found, writes only what it read, and inserts no null key.       *)
TypeOK ==
    /\ table \in [Keys -> Int \cup Customers \cup {None}]
    /\ ledger \in Seq([from : Accounts, to : Accounts, amount : Int, whole : BOOLEAN])
    /\ opened \in [Accounts -> Int \cup {None}]
    /\ effects \in [Accounts -> SUBSET (1..Len(ledger))]
    /\ served \in Nat /\ failures \in Nat
    /\ \A c \in Clients :
         LET r == requests[c]
         IN  /\ r.inserted \in [DOMAIN r.inserted -> Nat \cup Customers]
             /\ DOMAIN r.inserted \subseteq Keys
             /\ DOMAIN r.written \subseteq DOMAIN r.balance \cup Sessions
             /\ r.balance \in [DOMAIN r.balance -> Int]
             /\ \A k \in DOMAIN r.balance : Visible(c, k)
             /\ \A a \in Accounts : At(c, "read") /\ Current(c).key = a => Visible(c, a)

(* What entries S of the transactions table move to an account. *)
Net(S, a) ==
    LET net[n \in 0..Len(ledger)] ==
          IF n = 0 THEN 0
          ELSE net[n - 1] + (IF n \in S /\ ledger[n].to = a THEN ledger[n].amount ELSE 0)
                          - (IF n \in S /\ ledger[n].from = a THEN ledger[n].amount ELSE 0)
    IN  net[Len(ledger)]

(* An account's balance is what it was opened with and what the entries it *)
(* contains say, to a cent for every amount that was not of whole cents:   *)
(* in spite of failures, deadlocks, accounts opened twice and balances     *)
(* read too early, an entry is in a balance once and with its sign, or not *)
(* at all, and the roundings of balance and entry differ by a cent.        *)
LedgerExact ==
    \A a \in Accounts : table[a] # None =>
        LET off == Cardinality({n \in effects[a] : ~ledger[n].whole})
        IN  table[a] - opened[a] - Net(effects[a], a) \in -off..off

(* "Deduct balance from origin account and credit target"                  *)
(* (api/transfers.py:59): what was paid in whole cents is in the balances. *)
(* Not so when two transfers have read the same balance.                   *)
EveryTransferCounts ==
    \A a \in Accounts :
        table[a] # None /\ (\A n \in DOMAIN ledger : ledger[n].whole) =>
            table[a] = opened[a] + Net(DOMAIN ledger, a)

(* Whoever comes first decides: the opening balance of an account, be it a *)
(* transfer, a balance query or a login that opens it, and the customer a  *)
(* device belongs to; no later request resets them.                        *)
OpenedOnce ==
    [][/\ \A a \in Accounts : opened[a] # None => opened'[a] = opened[a]
       /\ \A d \in Devices : table[d] # None => table'[d] = table[d]]_vars

(* Transfers between existing accounts never deadlock, in whatever         *)
(* direction they cross: every deadlock has a request in it that opens     *)
(* rows.                                                                   *)
OnlyInsertsDeadlock ==
    \A group \in SUBSET Clients :
        Deadlocked(group) => \E c \in group : DOMAIN requests[c].inserted # {}

CanGoOn(c) ==
    ~Blocked(c) \/ \E group \in SUBSET Clients : c \in group /\ Deadlocked(group)

(* A request waits for requests in process only, never for a lock that one *)
(* that is over has left behind; and among any that wait for each other    *)
(* and for nobody else in process, one can go on, or is in a deadlock that *)
(* the database breaks.                                                    *)
NobodyStuck ==
    \A group \in (SUBSET {c \in Clients : Running(c)}) \ {{}} :
        (\A c \in group, d \in Clients : WaitsFor(c, d) /\ Running(d) => d \in group)
            => \E c \in group : CanGoOn(c)

(* The handlers execute their statements one by one, but to a client, and  *)
(* to the other programs, a request is one step of the bank: its entry in  *)
(* the ledger, the accounts it opens and both balances come at once, and   *)
(* it gives to one account what it takes from the other, each by what the  *)
(* request has read of it before.                                          *)
Seen(c) ==
    [a \in Accounts |->
        IF a \in DOMAIN requests[c].balance \ DOMAIN requests[c].inserted
        THEN requests[c].balance[a] ELSE None]

Bank == INSTANCE AtomicBank WITH balance <- [a \in Accounts |-> table[a]],
                                 seen <- [c \in Clients |-> Seen(c)],
                                 Cents <- UNION {Rounded(amount) : amount \in Amounts}
ImplementsAtomicBank == Bank!Spec

(* Every request is answered, whatever locks it has to wait for: time and  *)
(* again each client has none running.                                     *)
EveryRequestAnswered == \A c \in Clients : []<>~Running(c)
=============================================================================
