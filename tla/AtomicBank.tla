----------------------------- MODULE AtomicBank -----------------------------
(***************************************************************************)
(* The bank as its clients see it: a client looks at balances, and then    *)
(* its request takes effect in one step, as a whole, or not at all.  What  *)
(* a transfer adds to is the balance its client has seen, which need not   *)
(* be the account's any more.                                              *)
(***************************************************************************)
EXTENDS Integers, Sequences

CONSTANTS None, Clients, Accounts,
          Cents      \* what a transfer may move

VARIABLES balance,   \* account |-> its balance; None is no account
          ledger,
          seen       \* client |-> account |-> the balance it has seen; None is none

vars == <<balance, ledger, seen>>

Nothing == [a \in Accounts |-> None]

Init ==
    /\ balance \in [Accounts -> {0, None}]
    /\ ledger = <<>>
    /\ seen = [c \in Clients |-> Nothing]

Look(c) ==
    /\ \E a \in Accounts : balance[a] # None /\ seen' = [seen EXCEPT ![c][a] = balance[a]]
    /\ UNCHANGED <<balance, ledger>>

(* A request ends without effect. *)
Forget(c) ==
    /\ seen' = [seen EXCEPT ![c] = Nothing]
    /\ UNCHANGED <<balance, ledger>>

IsOpened(a) == balance[a] = None /\ balance'[a] # None

Effect(t, a) == (IF t.to = a THEN t.amount ELSE 0) - (IF t.from = a THEN t.amount ELSE 0)

(* Both balances and the entry are rounded to cents, each by itself. *)
Tolerance(t) == IF t.whole THEN 0 ELSE 1

(* What the client saw, or the transfer opens the account with, and what   *)
(* is moved.                                                               *)
Settles(c, t, a) ==
    \/ /\ seen[c][a] # None /\ balance'[a] # None
       /\ balance'[a] - seen[c][a] - Effect(t, a) \in -Tolerance(t)..Tolerance(t)
    \/ /\ seen[c][a] = None /\ IsOpened(a)
       /\ balance'[a] - Effect(t, a) >= -Tolerance(t)

Transfer(c, t) ==
    /\ t.from # t.to
    /\ ledger' = Append(ledger, t)
    /\ \A a \in {t.from, t.to} : Settles(c, t, a)
    /\ \A a \in Accounts \ {t.from, t.to} : balance'[a] = balance[a]
    /\ seen' = [seen EXCEPT ![c] = Nothing]

(* Any other request may open accounts. *)
Open(c) ==
    /\ \A a \in Accounts : balance'[a] = balance[a] \/ (IsOpened(a) /\ balance'[a] >= 0)
    /\ seen' = [seen EXCEPT ![c] = Nothing]
    /\ UNCHANGED ledger

Next ==
    \E c \in Clients :
        \/ Look(c) \/ Forget(c) \/ Open(c)
        \/ \E t \in [from : Accounts, to : Accounts, amount : Cents, whole : BOOLEAN] :
              Transfer(c, t)

Spec == Init /\ [][Next]_vars
=============================================================================
