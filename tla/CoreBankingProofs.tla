------------------------- MODULE CoreBankingProofs -------------------------
(***************************************************************************)
(* For any clients, requests, accounts, amounts and failures: whoever      *)
(* opens an account or claims a device first decides, from the locks of a  *)
(* transaction and what it may still do (IInv); a balance is the opening   *)
(* one and the entries it contains, from what a request has read and       *)
(* written and has still to write (BInv), which makes a commit the one     *)
(* step in which it takes effect; a deadlock is over a row being opened,   *)
(* from the order in which a request takes its locks (OInv); and nobody is *)
(* stuck, because a request that is over holds none (CInv).                *)
(***************************************************************************)
EXTENDS CoreBanking, FiniteSetTheorems, WellFoundedInduction, TLAPS

LEMMA NatOrder == IsWellFoundedOn({ss \in Nat \X Nat : ss[1] < ss[2]}, Nat)
  BY NatLessThanWellFounded, Zenon DEF OpToRel

(* A set of numbers has a least one.                                       *)
LEMMA LeastNatural ==
    ASSUME NEW T \in SUBSET Nat, T # {}
    PROVE  \E x \in T : \A y \in T : x <= y
  <1> PICK R : R = {ss \in Nat \X Nat : ss[1] < ss[2]}
    OBVIOUS
  <1>1. PICK x \in T : \A y \in T : <<y, x>> \notin R
    BY NatOrder, WFMin
  <1>2. ASSUME NEW y \in T PROVE x <= y
    <2>1. <<y, x>> \in Nat \X Nat /\ <<y, x>>[1] = y /\ <<y, x>>[2] = x
      OBVIOUS
    <2>2. ~(y < x)
      BY <1>1, <2>1
    <2> QED BY <1>2, <2>2
  <1> QED BY <1>2

-----------------------------------------------------------------------------
(* Running sums: what is gained and lost at every step from 1 to n.        *)
Sums(f, n, gain, loss) ==
    /\ f[0] = 0
    /\ \A k \in 1..n : f[k] = f[k - 1] + gain[k] - loss[k]

(* Their recursion determines them.                                        *)
LEMMA SumsAgree ==
    ASSUME NEW n \in Nat, NEW gain, NEW loss, NEW f, NEW g,
           Sums(f, n, gain, loss), Sums(g, n, gain, loss)
    PROVE  \A k \in 0..n : f[k] = g[k]
  <1> PICK T : T = {k \in 0..n : f[k] # g[k]}
    OBVIOUS
  <1>1. ASSUME T # {} PROVE FALSE
    <2>1. T \in SUBSET Nat
      OBVIOUS
    <2>2. PICK k \in T : \A y \in T : k <= y
      BY <1>1, <2>1, LeastNatural
    <2>3. k \in 1..n /\ k - 1 \in 0..n /\ k - 1 \notin T
      BY <2>2 DEF Sums
    <2>4. f[k - 1] = g[k - 1]
      BY <2>3
    <2> QED BY <2>2, <2>3, <2>4 DEF Sums
  <1> QED BY <1>1

(* They exist.                                                             *)
LEMMA SumsExist ==
    ASSUME NEW n \in Nat, NEW gain, NEW loss, \A k \in 1..n : gain[k] \in Int /\ loss[k] \in Int
    PROVE  \E f \in [0..n -> Int] : Sums(f, n, gain, loss)
  <1> DEFINE Has(m) == \E f \in [0..m -> Int] : Sums(f, m, gain, loss)
  <1> PICK T : T = {m \in 0..n : ~Has(m)}
    OBVIOUS
  <1>1. Has(0)
    <2> PICK f : f = [k \in 0..0 |-> 0]
      OBVIOUS
    <2>1. f \in [0..0 -> Int] /\ f[0] = 0
      OBVIOUS
    <2> QED BY <2>1 DEF Sums
  <1>2. ASSUME NEW m \in 1..n, Has(m - 1) PROVE Has(m)
    <2> PICK p : p = m - 1
      OBVIOUS
    <2>1. PICK g \in [0..p -> Int] : Sums(g, p, gain, loss)
      BY <1>2
    <2> PICK f : f = [k \in 0..m |-> IF k = m THEN g[p] + gain[m] - loss[m] ELSE g[k]]
      OBVIOUS
    <2>2. p \in Nat /\ p + 1 = m /\ gain[m] \in Int /\ loss[m] \in Int /\ g[p] \in Int
      BY <1>2, <2>1
    <2>3. f \in [0..m -> Int] /\ f[m] = g[p] + gain[m] - loss[m] /\ \A k \in 0..p : f[k] = g[k]
      BY <1>2, <2>1, <2>2
    <2>4. ASSUME NEW k \in 1..m PROVE f[k] = f[k - 1] + gain[k] - loss[k]
      <3>1. CASE k = m
        BY <2>2, <2>3, <3>1
      <3>2. CASE k # m
        <4>1. k \in 1..p /\ k - 1 \in 0..p /\ k \in 0..p
          BY <1>2, <2>2, <2>4, <3>2
        <4> QED BY <2>1, <2>3, <4>1 DEF Sums
      <3> QED BY <3>1, <3>2
    <2>5. f[0] = 0
      BY <2>1, <2>2, <2>3 DEF Sums
    <2> QED BY <2>3, <2>4, <2>5 DEF Sums
  <1> HIDE DEF Has
  <1>3. ASSUME T # {} PROVE FALSE
    <2>1. T \in SUBSET Nat
      OBVIOUS
    <2>2. PICK k \in T : \A y \in T : k <= y
      BY <1>3, <2>1, LeastNatural
    <2>3. k \in 1..n /\ k - 1 \in 0..n /\ k - 1 \notin T
      BY <1>1, <2>2
    <2> QED BY <1>2, <2>2, <2>3
  <1>4. Has(n)
    BY <1>3
  <1> QED BY <1>4 DEF Has

-----------------------------------------------------------------------------
(* In a finite set that is not empty, some element has none after it, in   *)
(* any order that is transitive and goes one way.                          *)
LEMMA LastElement ==
    ASSUME NEW S, IsFiniteSet(S), S # {}, NEW R,
           \A x \in S : <<x, x>> \notin R,
           \A x, y, z \in S : <<x, y>> \in R /\ <<y, z>> \in R => <<x, z>> \in R
    PROVE  \E x \in S : \A y \in S : <<x, y>> \notin R
  <1> DEFINE After(x) == {y \in S : <<x, y>> \in R}
  <1> PICK T : T = {n \in Nat : \E x \in S : n = Cardinality(After(x))}
    OBVIOUS
  <1>1. \A x \in S : IsFiniteSet(After(x)) /\ Cardinality(After(x)) \in Nat
    BY FS_Subset, FS_CardinalityType
  <1>2. ASSUME NEW x \in S, NEW y \in S, <<x, y>> \in R
        PROVE  Cardinality(After(y)) < Cardinality(After(x))
    <2>1. After(y) \in SUBSET After(x) /\ y \in After(x) /\ y \notin After(y)
      BY <1>2
    <2>2. After(y) # After(x)
      BY <2>1
    <2> HIDE DEF After
    <2>3. /\ Cardinality(After(y)) <= Cardinality(After(x))
          /\ Cardinality(After(y)) # Cardinality(After(x))
      BY <1>1, <1>2, <2>1, <2>2, FS_Subset
    <2> QED BY <1>1, <1>2, <2>3
  <1> HIDE DEF After
  <1>3. T \in SUBSET Nat /\ T # {}
    BY <1>1
  <1>4. PICK n \in T : \A m \in T : n <= m
    BY <1>3, LeastNatural
  <1>5. PICK x \in S : n = Cardinality(After(x))
    BY <1>4
  <1>6. ASSUME NEW y \in S, <<x, y>> \in R PROVE FALSE
    <2>1. Cardinality(After(y)) \in T
      BY <1>1, <1>6
    <2>2. Cardinality(After(y)) < n
      BY <1>2, <1>5, <1>6
    <2> QED BY <1>4, <2>1, <2>2
  <1> QED BY <1>5, <1>6

-----------------------------------------------------------------------------

Operations == {"find", "owner", "enrol", "insert", "claim", "refer", "delete", "read", "write",
               "commit"}

Statements ==
    [op : Operations, key : Keys \cup {None}, value : Int \cup Customers]
    \cup [op : {"find", "enrol"}, key : Keys, value : Int, with : Keys \cup {None}]

(* What a statement of each kind is about. *)
Typed(s) ==
    /\ s.op \in Operations
    /\ s.op \in {"find", "read", "write"} => s.key \in Accounts
    /\ s.op \in {"find", "insert", "enrol"} => s.value \in Nat
    /\ s.op = "write" => s.value \in Int
    /\ s.op = "find" => s.with \in Customers \cup {None}
    /\ s.op = "owner" => s.key \in Customers \cup Employees \cup {None}
    /\ s.op = "enrol" => s.key \in Customers /\ s.with \in Accounts
    /\ s.op = "insert" => s.key \in Keys \cup {None}
    /\ s.op = "claim" => s.key \in Devices /\ s.value \in Customers
    /\ s.op = "delete" => s.key \in Sessions

(* A statement of this kind is about a key in hand, or an earlier one of   *)
(* the operations named will see to that.                                  *)
Planned(todo, kind, ops, have) ==
    \A i \in 1..Len(todo) :
        todo[i].op = kind =>
            \/ todo[i].key \in have
            \/ \E j \in 1..i - 1 : todo[j].op \in ops /\ todo[j].key = todo[i].key

Fields == {"todo", "transfer", "inserted", "written", "balance", "effects"}

(* The rows a request sees in table t. *)
Rows(r, t) == DOMAIN r.inserted \cup {k \in Keys : t[k] # None}

Locked(r) == DOMAIN r.inserted \cup DOMAIN r.written

(* What a request has done is not in the table yet; its accounts' balances *)
(* are numbers, and it opens none with less than nothing.                  *)
Done(r, t) ==
    /\ DOMAIN r = Fields
    /\ DOMAIN r.inserted \subseteq Keys
    /\ \A k \in DOMAIN r.inserted : /\ t[k] = None
                                    /\ k \in Accounts => r.inserted[k] \in Nat
    /\ DOMAIN r.written \subseteq Accounts \cup Sessions
    /\ \A a \in DOMAIN r.written \cap Accounts : r.written[a] \in Int
    /\ \A a \in DOMAIN r.balance : r.balance[a] \in Int

Sound(r, t) ==
    /\ Done(r, t)
    /\ r.todo \in Seq(Statements) /\ \A i \in 1..Len(r.todo) : Typed(r.todo[i])
    /\ Planned(r.todo, "read", {"find", "insert"}, Rows(r, t))
    /\ Planned(r.todo, "write", {"read"}, DOMAIN r.balance)

(* A row is locked by one transaction at a time. *)
Exclusive ==
    \A c, d \in Clients : c # d => Locked(requests[c]) \cap Locked(requests[d]) = {}

IInv ==
    /\ DOMAIN table = Keys /\ DOMAIN opened = Accounts /\ served \in 0..MaxRequests
    /\ \A a \in Accounts : /\ table[a] \in Int \cup {None}
                           /\ opened[a] # None => table[a] # None
    /\ DOMAIN requests = Clients /\ \A c \in Clients : Sound(requests[c], table)
    /\ Exclusive

-----------------------------------------------------------------------------
(* Lists of statements. *)

LEMMA Continued ==
    ASSUME NEW todo \in Seq(Statements), todo # <<>>, NEW more \in Seq(Statements),
           NEW new, new = more \o Tail(todo)
    PROVE  /\ new \in Seq(Statements) /\ Len(new) = Len(more) + Len(todo) - 1
           /\ \A i \in 1..Len(more) : new[i] = more[i]
           /\ \A i \in 2..Len(todo) : new[Len(more) + i - 1] = todo[i]
  <1> PICK rest, n : rest = Tail(todo) /\ n = Len(more)
    OBVIOUS
  <1>1. /\ rest \in Seq(Statements) /\ Len(rest) = Len(todo) - 1 /\ Len(todo) \in Nat \ {0}
        /\ \A i \in 1..Len(todo) - 1 : rest[i] = todo[i + 1]
    OBVIOUS
  <1>2. /\ new \in Seq(Statements) /\ Len(new) = n + Len(rest) /\ n \in Nat
        /\ \A i \in 1..n : new[i] = more[i]
        /\ \A i \in 1..Len(rest) : new[n + i] = rest[i]
    BY <1>1
  <1>3. ASSUME NEW i \in 2..Len(todo) PROVE new[n + i - 1] = todo[i]
    <2> PICK j : j = i - 1
      OBVIOUS
    <2>1. j \in 1..Len(todo) - 1 /\ j + 1 = i /\ n + j = n + i - 1
      BY <1>1, <1>2
    <2>2. new[n + j] = rest[j] /\ rest[j] = todo[j + 1]
      BY <1>1, <1>2, <2>1
    <2> QED BY <2>1, <2>2
  <1> QED BY <1>1, <1>2, <1>3

LEMMA TypedContinued ==
    ASSUME NEW todo \in Seq(Statements), todo # <<>>, \A i \in 1..Len(todo) : Typed(todo[i]),
           NEW more \in Seq(Statements), \A i \in 1..Len(more) : Typed(more[i]),
           NEW new, new = more \o Tail(todo)
    PROVE  new \in Seq(Statements) /\ \A i \in 1..Len(new) : Typed(new[i])
  <1> PICK n, m : n = Len(more) /\ m = Len(todo)
    OBVIOUS
  <1>1. /\ new \in Seq(Statements) /\ Len(new) = n + m - 1 /\ n \in Nat /\ m \in Nat
        /\ \A i \in 1..n : new[i] = more[i]
        /\ \A i \in 2..m : new[n + i - 1] = todo[i]
    BY Continued
  <1>2. ASSUME NEW i \in 1..Len(new) PROVE Typed(new[i])
    <2>1. CASE i \in 1..n
      BY <1>1, <2>1
    <2>2. CASE i \notin 1..n
      <3> PICK j : j = i - n + 1
        OBVIOUS
      <3>1. j \in 2..m /\ n + j - 1 = i /\ j \in 1..m
        BY <1>1, <2>2
      <3>2. new[i] = todo[j]
        BY <1>1, <3>1
      <3> QED BY <3>1, <3>2
    <2> QED BY <2>1, <2>2
  <1> QED BY <1>1, <1>2

(* The statement taken has done its part, or put it before the rest. *)
LEMMA PlanContinued ==
    ASSUME NEW todo \in Seq(Statements), todo # <<>>, NEW more \in Seq(Statements),
           NEW kind, NEW ops, NEW have, NEW having, have \subseteq having,
           Planned(todo, kind, ops, have),
           \A i \in 1..Len(more) : more[i].op # kind,
           Head(todo).op \in ops =>
               \/ Head(todo).key \in having
               \/ \E i \in 1..Len(more) : more[i].op \in ops /\ more[i].key = Head(todo).key,
           NEW new, new = more \o Tail(todo)
    PROVE  Planned(new, kind, ops, having)
  <1> PICK n, m : n = Len(more) /\ m = Len(todo)
    OBVIOUS
  <1>1. /\ Len(new) = n + m - 1 /\ n \in Nat /\ m \in Nat \ {0} /\ Head(todo) = todo[1]
        /\ \A i \in 1..n : new[i] = more[i]
        /\ \A i \in 2..m : new[n + i - 1] = todo[i]
    BY Continued
  <1>2. ASSUME NEW i \in 1..Len(new), new[i].op = kind
        PROVE  \/ new[i].key \in having
               \/ \E j \in 1..i - 1 : new[j].op \in ops /\ new[j].key = new[i].key
    <2> PICK k : k = i - n + 1
      OBVIOUS
    <2>1. i \notin 1..n
      BY <1>1, <1>2
    <2>2. k \in 2..m /\ k \in 1..m /\ n + k - 1 = i
      BY <1>1, <2>1
    <2>3. new[i] = todo[k]
      BY <1>1, <2>2
    <2>4. CASE todo[k].key \in have
      BY <2>3, <2>4
    <2>5. ASSUME NEW j \in 1..k - 1, todo[j].op \in ops, todo[j].key = todo[k].key
          PROVE  \/ new[i].key \in having
                 \/ \E l \in 1..i - 1 : new[l].op \in ops /\ new[l].key = new[i].key
      <3>1. CASE j = 1
        <4>1. ASSUME NEW l \in 1..n, more[l].op \in ops, more[l].key = todo[k].key
              PROVE  \E l2 \in 1..i - 1 : new[l2].op \in ops /\ new[l2].key = new[i].key
          <5>1. l \in 1..i - 1 /\ new[l] = more[l]
            BY <1>1, <2>2, <4>1
          <5> QED BY <2>3, <4>1, <5>1
        <4> QED BY <1>1, <2>3, <2>5, <3>1, <4>1
      <3>2. CASE j # 1
        <4> PICK l : l = n + j - 1
          OBVIOUS
        <4>1. l \in 1..i - 1 /\ new[l] = todo[j]
          BY <1>1, <2>2, <3>2
        <4> QED BY <2>3, <2>5, <4>1
      <3> QED BY <3>1, <3>2
    <2> QED BY <1>2, <2>2, <2>3, <2>4, <2>5 DEF Planned
  <1> QED BY <1>2 DEF Planned

-----------------------------------------------------------------------------
(* One request goes on. *)

(* Statements that a lookup puts before the rest: they read and write no   *)
(* balance, delete nothing and do not commit.                              *)
Plain(more) ==
    \A i \in 1..Len(more) :
        Typed(more[i]) /\ more[i].op \notin {"read", "write", "delete", "commit"}

(* The account looked up or inserted is in hand, or about to be inserted. *)
Opens(s, more, have) ==
    s.op \in {"find", "insert"} =>
        \/ s.key \in have
        \/ \E i \in 1..Len(more) : more[i].op \in {"find", "insert"} /\ more[i].key = s.key

LEMMA SoundContinued ==
    ASSUME NEW t, NEW r, NEW r2, NEW more \in Seq(Statements),
           Sound(r, t), r.todo # <<>>, NEW s, s = Head(r.todo),
           Done(r2, t), r2.todo = more \o Tail(r.todo),
           Plain(more), Opens(s, more, Rows(r2, t)),
           DOMAIN r.inserted \subseteq DOMAIN r2.inserted,
           DOMAIN r.balance \subseteq DOMAIN r2.balance,
           s.op = "read" => s.key \in DOMAIN r2.balance
    PROVE  Sound(r2, t)
  <1> PICK todo, new : todo = r.todo /\ new = r2.todo
    OBVIOUS
  <1>1. /\ todo \in Seq(Statements) /\ todo # <<>> /\ new = more \o Tail(todo)
        /\ \A i \in 1..Len(todo) : Typed(todo[i]) /\ Head(todo) = s
        /\ Planned(todo, "read", {"find", "insert"}, Rows(r, t))
        /\ Planned(todo, "write", {"read"}, DOMAIN r.balance)
    BY DEF Sound
  <1>2. new \in Seq(Statements) /\ \A i \in 1..Len(new) : Typed(new[i])
    BY <1>1, TypedContinued DEF Plain
  <1>3. Planned(new, "read", {"find", "insert"}, Rows(r2, t))
    <2> PICK ops, have, having : /\ ops = {"find", "insert"} /\ have = Rows(r, t)
                                 /\ having = Rows(r2, t)
      OBVIOUS
    <2>1. have \subseteq having
      BY DEF Rows
    <2>2. /\ \A i \in 1..Len(more) : more[i].op # "read"
          /\ Head(todo).op \in ops =>
               \/ Head(todo).key \in having
               \/ \E i \in 1..Len(more) : more[i].op \in ops /\ more[i].key = Head(todo).key
      BY <1>1 DEF Plain, Opens
    <2>3. Planned(new, "read", ops, having)
      BY <1>1, <2>1, <2>2, PlanContinued, Zenon
    <2> QED BY <2>3
  <1>4. Planned(new, "write", {"read"}, DOMAIN r2.balance)
    <2> PICK ops, have, having : /\ ops = {"read"} /\ have = DOMAIN r.balance
                                 /\ having = DOMAIN r2.balance
      OBVIOUS
    <2>1. /\ Head(todo).op \in ops => Head(todo).key \in having
          /\ \A i \in 1..Len(more) : more[i].op # "write"
      BY <1>1 DEF Plain
    <2>2. Planned(new, "write", ops, having)
      BY <1>1, <2>1, PlanContinued, Zenon
    <2> QED BY <2>2
  <1> QED BY <1>2, <1>3, <1>4 DEF Sound

(* What r locks, c had locked or nobody else has. *)
Free(c, r) ==
    \A k \in Locked(r) : \/ k \in Locked(requests[c])
                         \/ \A d \in Clients \ {c} : k \notin Locked(requests[d])

LEMMA Advance ==
    ASSUME IInv, NEW c \in Clients, NEW r2, Sound(r2, table),
           requests' = [requests EXCEPT ![c] = r2], UNCHANGED <<table, opened>>,
           served' \in 0..MaxRequests, Free(c, r2)
    PROVE  IInv'
  <1>1. /\ DOMAIN requests' = Clients /\ requests'[c] = r2
        /\ \A d \in Clients \ {c} : requests'[d] = requests[d]
    BY DEF IInv
  <1>2. \A d \in Clients : Sound(requests'[d], table')
    BY <1>1 DEF IInv
  <1>3. ASSUME NEW d \in Clients \ {c} PROVE Locked(r2) \cap Locked(requests[d]) = {}
    BY DEF IInv, Exclusive, Free
  <1>4. ASSUME NEW d \in Clients, NEW e \in Clients, d # e
        PROVE  Locked(requests'[d]) \cap Locked(requests'[e]) = {}
    <2>1. CASE d = c
      BY <1>1, <1>3, <1>4, <2>1
    <2>2. CASE e = c
      BY <1>1, <1>3, <1>4, <2>2
    <2>3. CASE d # c /\ e # c
      BY <1>1, <1>4, <2>3 DEF IInv, Exclusive
    <2> QED BY <2>1, <2>2, <2>3
  <1> QED BY <1>1, <1>2, <1>4 DEF IInv, Exclusive

LEMMA IdleSound == ASSUME NEW t PROVE Sound(Idle, t) /\ Locked(Idle) = {}
  <1> PICK none : none = Empty
    OBVIOUS
  <1>1. DOMAIN none = {}
    BY DEF Empty
  <1>2. /\ Idle.todo = <<>> /\ Idle.inserted = none /\ Idle.written = none
        /\ Idle.balance = none /\ DOMAIN Idle = Fields
    BY DEF Idle, Request, Fields
  <1>3. Len(<<>>) = 0 /\ <<>> \in Seq(Statements)
    OBVIOUS
  <1>4. \A i \in 1..Len(Idle.todo) : FALSE
    BY <1>2, <1>3
  <1> QED BY <1>1, <1>2, <1>3, <1>4 DEF Sound, Done, Planned, Locked

LEMMA RollbackKeeps ==
    ASSUME IInv, NEW c \in Clients, Rollback(c), UNCHANGED <<table, opened, served>>
    PROVE  IInv'
  <1> PICK idle : idle = Idle
    OBVIOUS
  <1>1. Sound(idle, table) /\ Free(c, idle)
    BY IdleSound DEF Free
  <1>2. requests' = [requests EXCEPT ![c] = idle] /\ served' \in 0..MaxRequests
    BY DEF Rollback, IInv
  <1> QED BY <1>1, <1>2, Advance, Zenon

-----------------------------------------------------------------------------
(* What the handlers plan. *)

LEMMA BeginKeeps ==
    ASSUME IInv, NEW c \in Clients, NEW statements \in Seq(Statements), NEW transfer,
           \A i \in 1..Len(statements) : Typed(statements[i]),
           Planned(statements, "read", {"find", "insert"}, {}),
           Planned(statements, "write", {"read"}, {}),
           Begin(c, statements, transfer)
    PROVE  IInv'
  <1> PICK none, r2 : none = Empty /\ r2 = Request(statements, transfer)
    OBVIOUS
  <1>1. DOMAIN none = {}
    BY DEF Empty
  <1>2. /\ DOMAIN r2 = Fields /\ r2.todo = statements /\ r2.inserted = none
        /\ r2.written = none /\ r2.balance = none
    BY DEF Request, Fields
  <1>3. Sound(r2, table)
    BY <1>1, <1>2 DEF Sound, Done, Planned, Rows
  <1>4. Free(c, r2)
    BY <1>1, <1>2 DEF Locked, Free
  <1>5. served' \in 0..MaxRequests
    BY BoundsAssumption DEF Begin, IInv
  <1>6. /\ requests' = [requests EXCEPT ![c] = r2] /\ UNCHANGED <<table, opened>>
    BY DEF Begin
  <1> QED BY <1>3, <1>4, <1>5, <1>6, Advance, Zenon

LEMMA StatementKinds ==
    /\ \A op \in Operations, key \in Keys \cup {None}, value \in Int \cup Customers :
         /\ Statement(op, key, value) \in Statements
         /\ Statement(op, key, value).op = op /\ Statement(op, key, value).key = key
         /\ Statement(op, key, value).value = value
    /\ \A a \in Accounts, owner \in Customers \cup {None}, balance \in Nat :
         /\ Find(a, owner, balance) \in Statements /\ Typed(Find(a, owner, balance))
         /\ Find(a, owner, balance).op = "find" /\ Find(a, owner, balance).key = a
    /\ \A customer \in Customers, a \in Accounts :
         /\ Enrol(customer, a) \in Statements /\ Typed(Enrol(customer, a))
         /\ Enrol(customer, a).op = "enrol"
  BY DEF Statement, Find, Enrol, Statements, Typed, Operations, Keys

(* A write that moves the amount at one end of a transfer. *)
Moves(s, from, to, amount) ==
    /\ s.op = "write"
    /\ (s.key = from /\ s.value = -amount) \/ (s.key = to /\ s.value = amount)

(* execute_transfer: look both accounts up, read both, write both, commit. *)
TransferPlan(plan, from, to, amount) ==
    /\ plan \in Seq(Statements) /\ Len(plan) = 7 /\ \A i \in 1..7 : Typed(plan[i])
    /\ plan[1].op = "find" /\ plan[1].key = from /\ plan[2].op = "find" /\ plan[2].key = to
    /\ plan[3].op = "read" /\ plan[3].key = from /\ plan[4].op = "read" /\ plan[4].key = to
    /\ Moves(plan[5], from, to, amount) /\ Moves(plan[6], from, to, amount)
    /\ {plan[5].key, plan[6].key} = {from, to}
    /\ from # to => Precedes(plan[5].key, plan[6].key)
    /\ plan[7].op = "commit"

LEMMA UpdatesPlanned ==
    ASSUME NEW from \in Accounts, NEW to \in Accounts, NEW amount \in Amounts
    PROVE  \E u, v \in Statements :
             /\ Updates(from, to, amount) = <<u, v>> /\ Typed(u) /\ Typed(v)
             /\ Moves(u, from, to, amount) /\ Moves(v, from, to, amount)
             /\ {u.key, v.key} = {from, to} /\ (from # to => Precedes(u.key, v.key))
  <1>1. amount \in Int /\ -amount \in Int
    BY BoundsAssumption
  <1>2. ASSUME NEW a \in Accounts, NEW n \in Int
        PROVE  /\ Write(a, n) \in Statements /\ Typed(Write(a, n))
               /\ Write(a, n).op = "write" /\ Write(a, n).key = a /\ Write(a, n).value = n
    BY DEF Write, Statement, Statements, Typed, Operations, Keys
  <1> PICK u, v : u = Write(from, -amount) /\ v = Write(to, amount)
    OBVIOUS
  <1>3. /\ u \in Statements /\ Typed(u) /\ u.op = "write" /\ u.key = from /\ u.value = -amount
        /\ v \in Statements /\ Typed(v) /\ v.op = "write" /\ v.key = to /\ v.value = amount
    BY <1>1, <1>2
  <1>4. \/ Updates(from, to, amount) = <<u, v>> /\ (from # to => Precedes(u.key, v.key))
        \/ Updates(from, to, amount) = <<v, u>> /\ (from # to => Precedes(v.key, u.key))
    <2>1. from # to => Precedes(from, to) \/ Precedes(to, from)
      BY OrderAssumption
    <2>2. CASE Precedes(from, to)
      BY <1>3, <2>2, Zenon DEF Updates
    <2>3. CASE ~Precedes(from, to)
      <3>1. from # to => Precedes(v.key, u.key)
        BY <1>3, <2>1, <2>3
      <3> QED BY <2>3, <3>1, Zenon DEF Updates
    <2> QED BY <2>2, <2>3
  <1>5. Moves(u, from, to, amount) /\ Moves(v, from, to, amount) /\ {u.key, v.key} = {from, to}
    BY <1>3 DEF Moves
  <1>6. {v.key, u.key} = {from, to}
    BY <1>5
  <1>7. CASE Updates(from, to, amount) = <<u, v>> /\ (from # to => Precedes(u.key, v.key))
    BY <1>3, <1>5, <1>7, Zenon
  <1>8. CASE Updates(from, to, amount) = <<v, u>> /\ (from # to => Precedes(v.key, u.key))
    BY <1>3, <1>5, <1>6, <1>8, Zenon
  <1> QED BY <1>4, <1>7, <1>8

LEMMA TransferPlanned ==
    ASSUME NEW from \in Accounts, NEW to \in Accounts, NEW amount \in Amounts,
           NEW user \in Customers \cup {None}, NEW plan,
           plan = TransferStatements(from, to, amount, user)
    PROVE  TransferPlan(plan, from, to, amount)
  <1>0. \E n \in Nat :
          plan = <<Find(from, user, n), Find(to, Mule, n), Read(from), Read(to)>>
                 \o Updates(from, to, amount) \o <<Commit>>
    <2>1. PICK n : n = 15000
      OBVIOUS
    <2>2. n \in Nat
      BY <2>1
    <2>3. plan = <<Find(from, user, n), Find(to, Mule, n), Read(from), Read(to)>>
                 \o Updates(from, to, amount) \o <<Commit>>
      BY <2>1 DEF TransferStatements
    <2> QED BY <2>2, <2>3, Zenon
  <1>8. PICK n \in Nat :
          plan = <<Find(from, user, n), Find(to, Mule, n), Read(from), Read(to)>>
                 \o Updates(from, to, amount) \o <<Commit>>
    BY <1>0, Zenon
  <1>9. PICK u \in Statements, v \in Statements :
        /\ Updates(from, to, amount) = <<u, v>> /\ Typed(u) /\ Typed(v)
        /\ Moves(u, from, to, amount) /\ Moves(v, from, to, amount)
        /\ {u.key, v.key} = {from, to} /\ (from # to => Precedes(u.key, v.key))
    BY UpdatesPlanned, Zenon
  <1> PICK s1, s2, s3, s4, s7 :
        /\ s1 = Find(from, user, n) /\ s2 = Find(to, Mule, n)
        /\ s3 = Read(from) /\ s4 = Read(to) /\ s7 = Commit
    OBVIOUS
  <1>1. /\ s1 \in Statements /\ Typed(s1) /\ s1.op = "find" /\ s1.key = from
        /\ s2 \in Statements /\ Typed(s2) /\ s2.op = "find" /\ s2.key = to
    <2>1. Mule \in Customers \cup {None}
      BY SeededAssumption
    <2>2. n \in Nat
      BY <1>8
    <2>3. ASSUME NEW a \in Accounts, NEW owner \in Customers \cup {None}
          PROVE  /\ Find(a, owner, n) \in Statements /\ Typed(Find(a, owner, n))
                 /\ Find(a, owner, n).op = "find" /\ Find(a, owner, n).key = a
      BY <2>2, StatementKinds
    <2> QED BY <2>1, <2>3
  <1>2. /\ s3 \in Statements /\ Typed(s3) /\ s3.op = "read" /\ s3.key = from
        /\ s4 \in Statements /\ Typed(s4) /\ s4.op = "read" /\ s4.key = to
        /\ s7 \in Statements /\ Typed(s7) /\ s7.op = "commit"
    BY DEF Read, Commit, Statement, Statements, Typed, Operations, Keys
  <1> PICK first, middle, last :
        first = <<s1, s2, s3, s4>> /\ middle = <<u, v>> /\ last = <<s7>>
    BY Zenon
  <1> PICK part : part = first \o middle
    BY Zenon
  <1>3. plan = part \o last
    BY <1>8, <1>9, Zenon
  <1>4. /\ first \in Seq(Statements) /\ Len(first) = 4
        /\ first[1] = s1 /\ first[2] = s2 /\ first[3] = s3 /\ first[4] = s4
        /\ middle \in Seq(Statements) /\ Len(middle) = 2 /\ middle[1] = u /\ middle[2] = v
        /\ last \in Seq(Statements) /\ Len(last) = 1 /\ last[1] = s7
    BY <1>1, <1>2, <1>9
  <1>41. /\ part \in Seq(Statements) /\ Len(part) = 6
         /\ part[1] = s1 /\ part[2] = s2 /\ part[3] = s3 /\ part[4] = s4
         /\ part[5] = u /\ part[6] = v
    BY <1>4
  <1>5. /\ plan \in Seq(Statements) /\ Len(plan) = 7
        /\ plan[1] = s1 /\ plan[2] = s2 /\ plan[3] = s3 /\ plan[4] = s4
        /\ plan[5] = u /\ plan[6] = v /\ plan[7] = s7
    BY <1>3, <1>4, <1>41
  <1>6. 1..7 = {1, 2, 3, 4, 5, 6, 7}
    OBVIOUS
  <1>7. \A i \in 1..7 : Typed(plan[i])
    BY <1>1, <1>2, <1>5, <1>6, <1>9
  <1> QED BY <1>1, <1>2, <1>5, <1>7, <1>9 DEF TransferPlan

LEMMA TransferFollows ==
    ASSUME NEW from \in Accounts, NEW to \in Accounts, NEW amount \in Amounts,
           NEW user \in Customers \cup {None}, NEW plan,
           plan = TransferStatements(from, to, amount, user)
    PROVE  /\ plan \in Seq(Statements) /\ \A i \in 1..Len(plan) : Typed(plan[i])
           /\ Planned(plan, "read", {"find", "insert"}, {}) /\ Planned(plan, "write", {"read"}, {})
  <1>1. TransferPlan(plan, from, to, amount)
    BY TransferPlanned, Zenon
  <1>2. 1..7 = {1, 2, 3, 4, 5, 6, 7}
    OBVIOUS
  <1>3. Planned(plan, "read", {"find", "insert"}, {})
    <2>1. ASSUME NEW i \in 1..7, plan[i].op = "read"
          PROVE  \E j \in 1..i - 1 : plan[j].op \in {"find", "insert"} /\ plan[j].key = plan[i].key
      <3>1. i = 3 \/ i = 4
        BY <1>1, <1>2, <2>1 DEF TransferPlan, Moves
      <3>2. 1 \in 1..i - 1 /\ 2 \in 1..i - 1
        BY <3>1
      <3> QED BY <1>1, <3>1, <3>2 DEF TransferPlan
    <2> QED BY <1>1, <2>1 DEF Planned, TransferPlan
  <1>4. Planned(plan, "write", {"read"}, {})
    <2>1. ASSUME NEW i \in 1..7, plan[i].op = "write"
          PROVE  \E j \in 1..i - 1 : plan[j].op \in {"read"} /\ plan[j].key = plan[i].key
      <3>1. i = 5 \/ i = 6
        BY <1>1, <1>2, <2>1 DEF TransferPlan, Moves
      <3>2. 3 \in 1..i - 1 /\ 4 \in 1..i - 1
        BY <3>1
      <3>3. plan[i].key \in {from, to}
        BY <1>1, <3>1 DEF TransferPlan
      <3> QED BY <1>1, <3>2, <3>3 DEF TransferPlan
    <2> QED BY <1>1, <2>1 DEF Planned, TransferPlan
  <1> QED BY <1>1, <1>3, <1>4 DEF TransferPlan

LEMMA TransferKeeps == ASSUME IInv, NEW c \in Clients, Transfer(c) PROVE IInv'
  <1> PICK from \in Accounts, to \in Accounts, amount \in Amounts, user \in Customers \cup {None} :
        Begin(c, TransferStatements(from, to, amount, user), Transferred(from, to, amount))
    BY DEF Transfer
  <1> PICK plan : plan = TransferStatements(from, to, amount, user)
    BY Zenon
  <1>1. Begin(c, plan, Transferred(from, to, amount))
    BY Zenon
  <1>2. /\ plan \in Seq(Statements) /\ \A i \in 1..Len(plan) : Typed(plan[i])
        /\ Planned(plan, "read", {"find", "insert"}, {}) /\ Planned(plan, "write", {"read"}, {})
    BY TransferFollows, Zenon
  <1> QED BY <1>1, <1>2, BeginKeeps, Zenon

(* A plan that reads and writes no balance, commits at its end, and after  *)
(* a deletion does nothing else.                                           *)
Transferless(plan) ==
    /\ plan \in Seq(Statements)
    /\ \A i \in 1..Len(plan) : /\ Typed(plan[i]) /\ plan[i].op \notin {"read", "write"}
                               /\ plan[i].op = "commit" => i = Len(plan)
    /\ \A i, j \in 1..Len(plan) : i < j /\ plan[i].op = "delete" => plan[j].op = "commit"
    /\ Len(plan) # 0 /\ plan[Len(plan)].op = "commit"

LEMMA OthersPlanned ==
    ASSUME IInv, NEW c \in Clients,
           Balance(c) \/ Login(c) \/ DropSession(c) \/ ViewAccount(c) \/ AddBeneficiary(c)
    PROVE  \E plan : Transferless(plan) /\ Begin(c, plan, NoTransfer)
  <1> PICK last : last = Commit
    OBVIOUS
  <1>0. last \in Statements /\ Typed(last) /\ last.op = "commit"
    BY DEF Commit, Statement, Statements, Typed, Operations
  <1>1. ASSUME NEW s \in Statements, Typed(s), s.op \notin {"read", "write", "commit"},
               Begin(c, <<s, last>>, NoTransfer)
        PROVE  \E plan : Transferless(plan) /\ Begin(c, plan, NoTransfer)
    <2> PICK plan : plan = <<s, last>>
      OBVIOUS
    <2>1. plan \in Seq(Statements) /\ Len(plan) = 2 /\ plan[1] = s /\ plan[2] = last /\ 1..2 = {1, 2}
      BY <1>0
    <2>2. Transferless(plan)
      BY <1>0, <1>1, <2>1 DEF Transferless
    <2> QED BY <1>1, <2>2
  <1>2. CASE Balance(c)
    <2> PICK a \in Accounts : Begin(c, BalanceStatements(a), NoTransfer)
      BY <1>2 DEF Balance
    <2> PICK s : s = Find(a, Fallback, 5000)
      OBVIOUS
    <2>1. s \in Statements /\ Typed(s) /\ s.op = "find"
      BY StatementKinds, SeededAssumption
    <2>2. Begin(c, <<s, last>>, NoTransfer)
      BY DEF BalanceStatements
    <2> QED BY <1>1, <2>1, <2>2
  <1>3. CASE Login(c)
    <2> PICK customer \in Customers, a \in Accounts, device \in Devices :
          Begin(c, LoginStatements(customer, a, device, served + 1), NoTransfer)
      BY <1>3 DEF Login
    <2> PICK s1, s2, s3 : /\ s1 = Enrol(customer, a) /\ s2 = Claim(device, customer)
                          /\ s3 = Insert(served + 1, 0)
      OBVIOUS
    <2>1. served + 1 \in Sessions
      BY BoundsAssumption DEF Begin, IInv, Sessions
    <2>2. /\ s1 \in Statements /\ Typed(s1) /\ s1.op = "enrol"
          /\ s2 \in Statements /\ Typed(s2) /\ s2.op = "claim"
          /\ s3 \in Statements /\ Typed(s3) /\ s3.op = "insert"
      BY <2>1, StatementKinds DEF Claim, Insert, Statement, Statements, Typed, Operations, Keys
    <2> PICK plan : plan = <<s1, s2, s3, last>>
      OBVIOUS
    <2>3. /\ plan \in Seq(Statements) /\ Len(plan) = 4 /\ plan[1] = s1 /\ plan[2] = s2
          /\ plan[3] = s3 /\ plan[4] = last /\ 1..4 = {1, 2, 3, 4}
      BY <1>0, <2>2
    <2>4. Begin(c, plan, NoTransfer)
      BY Zenon DEF LoginStatements
    <2>5. Transferless(plan)
      BY <1>0, <2>2, <2>3 DEF Transferless
    <2> QED BY <2>4, <2>5
  <1>4. CASE DropSession(c)
    <2> PICK session \in 1..served : Begin(c, DropStatements(session), NoTransfer)
      BY <1>4 DEF DropSession
    <2> PICK s : s = Delete(session)
      OBVIOUS
    <2>1. session \in Sessions
      BY BoundsAssumption DEF IInv, Sessions
    <2>2. s \in Statements /\ Typed(s) /\ s.op = "delete"
      BY <2>1 DEF Delete, Statement, Statements, Typed, Operations, Keys
    <2>3. Begin(c, <<s, last>>, NoTransfer)
      BY Zenon DEF DropStatements
    <2> QED BY <1>1, <2>2, <2>3
  <1>5. CASE ViewAccount(c)
    <2> PICK employee \in Employees, customer \in Customers :
          Begin(c, ViewStatements(employee, customer), NoTransfer)
      BY <1>5 DEF ViewAccount
    <2> PICK s1, s2 : s1 = Owner(employee) /\ s2 = Refer(customer)
      OBVIOUS
    <2>1. /\ s1 \in Statements /\ Typed(s1) /\ s1.op = "owner"
          /\ s2 \in Statements /\ Typed(s2) /\ s2.op = "refer"
      BY DEF Owner, Refer, Statement, Statements, Typed, Operations, Keys
    <2> PICK plan : plan = <<s1, s2, last>>
      OBVIOUS
    <2>2. /\ plan \in Seq(Statements) /\ Len(plan) = 3 /\ plan[1] = s1 /\ plan[2] = s2
          /\ plan[3] = last /\ 1..3 = {1, 2, 3}
      BY <1>0, <2>1
    <2>3. Begin(c, plan, NoTransfer)
      BY Zenon DEF ViewStatements
    <2>4. Transferless(plan)
      BY <1>0, <2>1, <2>2 DEF Transferless
    <2> QED BY <2>3, <2>4
  <1>6. CASE AddBeneficiary(c)
    <2> PICK customer \in Customers : Begin(c, BeneficiaryStatements(customer), NoTransfer)
      BY <1>6 DEF AddBeneficiary
    <2> PICK s : s = Owner(customer)
      OBVIOUS
    <2>1. s \in Statements /\ Typed(s) /\ s.op = "owner"
      BY DEF Owner, Statement, Statements, Typed, Operations, Keys
    <2>2. Begin(c, <<s, last>>, NoTransfer)
      BY Zenon DEF BeneficiaryStatements
    <2> QED BY <1>1, <2>1, <2>2
  <1> QED BY <1>2, <1>3, <1>4, <1>5, <1>6

LEMMA OthersKeep ==
    ASSUME IInv, NEW c \in Clients,
           Balance(c) \/ Login(c) \/ DropSession(c) \/ ViewAccount(c) \/ AddBeneficiary(c)
    PROVE  IInv'
  <1> PICK plan : Transferless(plan) /\ Begin(c, plan, NoTransfer)
    BY OthersPlanned
  <1>1. /\ plan \in Seq(Statements) /\ \A i \in 1..Len(plan) : Typed(plan[i])
        /\ Planned(plan, "read", {"find", "insert"}, {}) /\ Planned(plan, "write", {"read"}, {})
    BY DEF Planned, Transferless
  <1> QED BY <1>1, BeginKeeps

-----------------------------------------------------------------------------
(* The statements. *)

LEMMA Taken ==
    ASSUME IInv, NEW c \in Clients, Running(c), NEW r, r = requests[c], NEW s, s = Current(c)
    PROVE  /\ Sound(r, table) /\ r.todo \in Seq(Statements) /\ r.todo # <<>>
           /\ s = Head(r.todo) /\ s \in Statements /\ Typed(s)
           /\ Planned(<<s>>, "read", {"find", "insert"}, Rows(r, table))
           /\ Planned(<<s>>, "write", {"read"}, DOMAIN r.balance)
  <1> PICK todo : todo = r.todo
    OBVIOUS
  <1>1. Sound(r, table) /\ todo \in Seq(Statements) /\ todo # <<>>
    BY DEF IInv, Sound, Running
  <1>2. 1 \in 1..Len(todo) /\ s = todo[1] /\ s = Head(todo) /\ s \in Statements
    BY <1>1 DEF Current
  <1>3. Typed(s)
    BY <1>1, <1>2 DEF Sound
  <1>4. ASSUME NEW kind, NEW ops, NEW have, Planned(todo, kind, ops, have)
        PROVE  Planned(<<s>>, kind, ops, have)
    <2> PICK one : one = <<s>>
      OBVIOUS
    <2>1. Len(one) = 1 /\ one[1] = s /\ 1..1 = {1} /\ 1..0 = {} /\ 1 - 1 = 0
      OBVIOUS
    <2>2. s.op = kind => s.key \in have
      BY <1>2, <1>4, <2>1 DEF Planned
    <2> QED BY <2>1, <2>2 DEF Planned
  <1> QED BY <1>1, <1>2, <1>3, <1>4 DEF Sound

LEMMA InHand ==
    ASSUME NEW s, NEW kind, NEW ops, NEW have, Planned(<<s>>, kind, ops, have), s.op = kind
    PROVE  s.key \in have
  <1> PICK one : one = <<s>>
    OBVIOUS
  <1>1. Len(one) = 1 /\ one[1] = s /\ 1 \in 1..1 /\ 1..(1 - 1) = {}
    OBVIOUS
  <1> QED BY <1>1 DEF Planned

LEMMA Unlocked ==
    ASSUME NEW c \in Clients, ~Blocked(c), NEW op \in {"insert", "claim", "write", "delete"},
           At(c, op), op = "delete" => Visible(c, Current(c).key)
    PROVE  \A d \in Clients \ {c} : Current(c).key \notin Locked(requests[d])
  BY DEF Blocked, WaitsFor, Holds, Locked, At

LEMMA Gone ==
    ASSUME NEW r, DOMAIN r = Fields, NEW more, NEW r2, r2 = [r EXCEPT !.todo = more \o Tail(@)]
    PROVE  /\ DOMAIN r2 = Fields /\ r2.todo = more \o Tail(r.todo) /\ r2.inserted = r.inserted
           /\ r2.written = r.written /\ r2.balance = r.balance
  BY DEF Fields

(* A statement has made r1 of the request, and the list goes on.           *)
LEMMA StatementKeeps ==
    ASSUME IInv, NEW c \in Clients, Running(c), NEW r, r = requests[c], NEW s, s = Current(c),
           NEW r1, Done(r1, table), r1.todo = r.todo,
           NEW more \in Seq(Statements), Plain(more), Opens(s, more, Rows(r1, table)),
           s.op = "read" => s.key \in DOMAIN r1.balance,
           DOMAIN r.inserted \subseteq DOMAIN r1.inserted,
           DOMAIN r.balance \subseteq DOMAIN r1.balance,
           Free(c, r1),
           Continue(c, r1, more), UNCHANGED <<table, opened, served>>
    PROVE  IInv'
  <1> PICK r2 : r2 = [r1 EXCEPT !.todo = more \o Tail(@)]
    OBVIOUS
  <1>1. Sound(r, table) /\ r.todo # <<>> /\ s = Head(r.todo)
    BY Taken
  <1>2. DOMAIN r1 = Fields
    BY DEF Done
  <1>3. /\ DOMAIN r2 = Fields /\ r2.todo = more \o Tail(r1.todo) /\ r2.inserted = r1.inserted
        /\ r2.written = r1.written /\ r2.balance = r1.balance
    BY <1>2, Gone
  <1>4. Opens(s, more, Rows(r2, table)) /\ r2.todo = more \o Tail(r.todo)
    BY <1>3 DEF Opens, Rows
  <1>5. Done(r2, table)
    BY <1>3 DEF Done
  <1>6. /\ s.op = "read" => s.key \in DOMAIN r2.balance
        /\ DOMAIN r.inserted \subseteq DOMAIN r2.inserted
        /\ DOMAIN r.balance \subseteq DOMAIN r2.balance
    BY <1>3
  <1>7. Sound(r2, table)
    BY <1>1, <1>4, <1>5, <1>6, SoundContinued, Zenon
  <1>8. Free(c, r2)
    BY <1>3 DEF Locked, Free
  <1>9. requests' = [requests EXCEPT ![c] = r2] /\ UNCHANGED <<table, opened>>
    BY Zenon DEF Continue
  <1>10. served' \in 0..MaxRequests
    BY DEF IInv
  <1> QED BY <1>7, <1>8, <1>9, <1>10, Advance

(* A statement that changes nothing but the list. *)
LEMMA ListKeeps ==
    ASSUME IInv, NEW c \in Clients, Running(c), NEW s, s = Current(c),
           NEW more \in Seq(Statements), s.op # "read",
           Plain(more), Opens(s, more, Rows(requests[c], table)),
           Continue(c, requests[c], more), UNCHANGED <<table, opened, served>>
    PROVE  IInv'
  <1> PICK r : r = requests[c]
    OBVIOUS
  <1>1. Done(r, table)
    BY DEF IInv, Sound
  <1>2. /\ Opens(s, more, Rows(r, table)) /\ Continue(c, r, more)
        /\ DOMAIN r.inserted \subseteq DOMAIN r.inserted /\ DOMAIN r.balance \subseteq DOMAIN r.balance
        /\ Free(c, r)
    BY Zenon DEF Free
  <1> QED BY <1>1, <1>2, StatementKeeps, Zenon

(* What a lookup may put before the rest. *)
LookedUp(s, next) ==
    /\ next.op \in {"owner", "insert"}
    /\ next.op = "insert" /\ next.key \in Accounts => s.op \in {"find", "enrol"}
    /\ s.op = "find" /\ next.op = "insert" => next.key = s.key

LEMMA LookupContinues ==
    ASSUME IInv, NEW c \in Clients, Lookup(c)
    PROVE  \E more \in Seq(Statements) :
              /\ Plain(more) /\ Opens(Current(c), more, Rows(requests[c], table))
              /\ Continue(c, requests[c], more) /\ \A i \in 1..Len(more) : LookedUp(Current(c), more[i])
  <1> PICK s : s = Current(c)
    OBVIOUS
  <1>1. /\ s.op = "find" \/ s.op = "owner" \/ s.op = "enrol"
        /\ Running(c) /\ UNCHANGED <<table, opened, served>>
    BY DEF Lookup, At
  <1>2. Typed(s)
    BY <1>1, Taken
  <1>3. CASE Visible(c, s.key)
    <2> PICK more : more = <<>>
      OBVIOUS
    <2>1. Continue(c, requests[c], more)
      BY <1>3 DEF Lookup
    <2>2. more \in Seq(Statements) /\ Len(more) = 0 /\ 1..0 = {}
      OBVIOUS
    <2>3. Plain(more) /\ Opens(s, more, Rows(requests[c], table))
      BY <1>3, <2>2 DEF Plain, Opens, Visible, Rows
    <2>6. \A i \in 1..Len(more) : LookedUp(s, more[i])
      BY <2>2
    <2> QED BY <1>1, <2>1, <2>2, <2>3, <2>6
  <1>4. CASE ~Visible(c, s.key) /\ s.op = "find"
    <2> PICK s1, s2 : s1 = Owner(s.with) /\ s2 = Insert(s.key, s.value)
      OBVIOUS
    <2>1. /\ s1 \in Statements /\ Typed(s1) /\ s1.op = "owner"
          /\ s2 \in Statements /\ Typed(s2) /\ s2.op = "insert" /\ s2.key = s.key
      BY <1>2, <1>4 DEF Owner, Insert, Statement, Statements, Typed, Operations, Keys
    <2> PICK more : more = <<s1, s2>>
      OBVIOUS
    <2>2. Continue(c, requests[c], more)
      BY <1>4 DEF Lookup, Opening
    <2>3. /\ more \in Seq(Statements) /\ Len(more) = 2 /\ more[1] = s1 /\ more[2] = s2
          /\ 1..2 = {1, 2}
      BY <2>1
    <2>4. Plain(more)
      BY <2>1, <2>3 DEF Plain
    <2>5. Opens(s, more, Rows(requests[c], table))
      BY <2>1, <2>3 DEF Opens
    <2>6. \A i \in 1..Len(more) : LookedUp(s, more[i])
      BY <1>2, <1>4, <2>1, <2>3, NamesAssumption DEF LookedUp, Typed, Keys
    <2> QED BY <1>1, <1>4, <2>2, <2>3, <2>4, <2>5, <2>6
  <1>5. CASE ~Visible(c, s.key) /\ s.op = "owner"
    <2> PICK s1 : s1 = Insert(s.key, 0)
      OBVIOUS
    <2>1. s1 \in Statements /\ Typed(s1) /\ s1.op = "insert" /\ s1.key = s.key
      BY <1>2, <1>5 DEF Insert, Statement, Statements, Typed, Operations, Keys
    <2> PICK more : more = <<s1>>
      OBVIOUS
    <2>2. Continue(c, requests[c], more)
      BY <1>5 DEF Lookup, Opening
    <2>3. more \in Seq(Statements) /\ Len(more) = 1 /\ more[1] = s1 /\ 1..1 = {1}
      BY <2>1
    <2>4. Plain(more)
      BY <2>1, <2>3 DEF Plain
    <2>5. Opens(s, more, Rows(requests[c], table))
      BY <1>5 DEF Opens
    <2>6. \A i \in 1..Len(more) : LookedUp(s, more[i])
      BY <1>2, <1>5, <2>1, <2>3, NamesAssumption DEF LookedUp, Typed, Keys
    <2> QED BY <1>1, <1>5, <2>2, <2>3, <2>4, <2>5, <2>6
  <1>6. CASE ~Visible(c, s.key) /\ s.op = "enrol"
    <2> PICK s1, s2 : s1 = Insert(s.key, 0) /\ s2 = Insert(s.with, s.value)
      OBVIOUS
    <2>1. /\ s1 \in Statements /\ Typed(s1) /\ s1.op = "insert" /\ s1.key = s.key
          /\ s2 \in Statements /\ Typed(s2) /\ s2.op = "insert"
      BY <1>2, <1>6 DEF Insert, Statement, Statements, Typed, Operations, Keys
    <2> PICK more : more = <<s1, s2>>
      OBVIOUS
    <2>2. Continue(c, requests[c], more)
      BY <1>6 DEF Lookup, Opening
    <2>3. /\ more \in Seq(Statements) /\ Len(more) = 2 /\ more[1] = s1 /\ more[2] = s2
          /\ 1..2 = {1, 2}
      BY <2>1
    <2>4. Plain(more)
      BY <2>1, <2>3 DEF Plain
    <2>5. Opens(s, more, Rows(requests[c], table))
      BY <1>6 DEF Opens
    <2>6. \A i \in 1..Len(more) : LookedUp(s, more[i])
      BY <1>2, <1>6, <2>1, <2>3, NamesAssumption DEF LookedUp, Typed, Keys
    <2> QED BY <1>1, <1>6, <2>2, <2>3, <2>4, <2>5, <2>6
  <1> QED BY <1>1, <1>3, <1>4, <1>5, <1>6

LEMMA LookupKeeps == ASSUME IInv, NEW c \in Clients, Lookup(c) PROVE IInv'
  <1> PICK more \in Seq(Statements) :
        /\ Plain(more) /\ Opens(Current(c), more, Rows(requests[c], table))
        /\ Continue(c, requests[c], more)
    BY LookupContinues
  <1>1. /\ Current(c).op # "read" /\ Running(c) /\ UNCHANGED <<table, opened, served>>
    BY DEF Lookup, At
  <1> QED BY <1>1, ListKeeps

LEMMA ReferKeeps == ASSUME IInv, NEW c \in Clients, ReferToCustomer(c) PROVE IInv'
  <1> PICK s, more : s = Current(c) /\ more = <<>>
    OBVIOUS
  <1>1. Running(c) /\ s.op = "refer" /\ UNCHANGED <<table, opened, served>>
    BY DEF ReferToCustomer, At
  <1>2. more \in Seq(Statements) /\ Len(more) = 0 /\ 1..0 = {}
    OBVIOUS
  <1>3. Continue(c, requests[c], more) \/ Rollback(c)
    BY DEF ReferToCustomer
  <1>4. Plain(more) /\ Opens(s, more, Rows(requests[c], table))
    BY <1>1, <1>2 DEF Plain, Opens
  <1> QED BY <1>1, <1>2, <1>3, <1>4, ListKeeps, RollbackKeeps

LEMMA NewRow ==
    ASSUME NEW r, DOMAIN r = Fields, NEW key, NEW value, NEW r1, r1 = WithRow(r, key, value)
    PROVE  /\ DOMAIN r1 = Fields /\ r1.todo = r.todo /\ r1.written = r.written
           /\ r1.balance = r.balance /\ DOMAIN r1.inserted = DOMAIN r.inserted \cup {key}
           /\ r1.inserted[key] = value
           /\ \A k \in DOMAIN r.inserted \ {key} : r1.inserted[k] = r.inserted[k]
  BY DEF Fields, WithRow

(* A row is opened that nobody holds. *)
LEMMA RowKeeps ==
    ASSUME IInv, NEW c \in Clients, Running(c), NEW r, r = requests[c], NEW s, s = Current(c),
           ~Visible(c, s.key), s.key \in Keys, s.key \in Accounts => s.value \in Nat,
           s.op # "read", \A d \in Clients \ {c} : s.key \notin Locked(requests[d]),
           NEW r1, r1 = WithRow(r, s.key, s.value),
           NEW more, more = <<>>, Continue(c, r1, more), UNCHANGED <<table, opened, served>>
    PROVE  IInv'
  <1>1. Done(r, table) /\ DOMAIN r = Fields
    BY DEF IInv, Sound, Done
  <1>2. /\ DOMAIN r1 = Fields /\ r1.todo = r.todo /\ r1.written = r.written
        /\ r1.balance = r.balance /\ DOMAIN r1.inserted = DOMAIN r.inserted \cup {s.key}
        /\ r1.inserted[s.key] = s.value
        /\ \A k \in DOMAIN r.inserted \ {s.key} : r1.inserted[k] = r.inserted[k]
    BY <1>1, NewRow
  <1>3. Done(r1, table)
    BY <1>1, <1>2 DEF Done, Visible
  <1>4. more \in Seq(Statements) /\ Len(more) = 0 /\ 1..0 = {}
    OBVIOUS
  <1>5. Plain(more) /\ Opens(s, more, Rows(r1, table))
    BY <1>2, <1>4 DEF Plain, Opens, Rows
  <1>6. /\ DOMAIN r.inserted \subseteq DOMAIN r1.inserted
        /\ DOMAIN r.balance \subseteq DOMAIN r1.balance
    BY <1>2
  <1>7. Free(c, r1)
    BY <1>2 DEF Locked, Free
  <1> QED BY <1>2, <1>3, <1>4, <1>5, <1>6, <1>7, StatementKeeps, Zenon

LEMMA InsertKeeps == ASSUME IInv, NEW c \in Clients, InsertRow(c) PROVE IInv'
  <1> PICK r, s, more : r = requests[c] /\ s = Current(c) /\ more = <<>>
    OBVIOUS
  <1>1. /\ Running(c) /\ s.op = "insert" /\ At(c, "insert") /\ ~Blocked(c)
        /\ UNCHANGED <<table, opened, served>>
    BY DEF InsertRow, At
  <1>2. Typed(s)
    BY <1>1, Taken
  <1>3. CASE Rejected(c, s.key)
    <2>1. Rollback(c)
      BY <1>3 DEF InsertRow
    <2> QED BY <1>1, <2>1, RollbackKeeps
  <1>4. CASE ~Rejected(c, s.key)
    <2> PICK r1 : r1 = WithRow(r, s.key, s.value)
      OBVIOUS
    <2>1. Continue(c, r1, more)
      BY <1>4 DEF InsertRow
    <2>2. ~Visible(c, s.key) /\ s.key \in Keys /\ s.value \in Nat
      BY <1>1, <1>2, <1>4 DEF Rejected, Typed
    <2>3. \A d \in Clients \ {c} : s.key \notin Locked(requests[d])
      BY <1>1, Unlocked
    <2> QED BY <1>1, <2>1, <2>2, <2>3, RowKeeps
  <1> QED BY <1>3, <1>4

LEMMA ClaimKeeps == ASSUME IInv, NEW c \in Clients, ClaimDevice(c) PROVE IInv'
  <1> PICK r, s, more : r = requests[c] /\ s = Current(c) /\ more = <<>>
    OBVIOUS
  <1>1. /\ Running(c) /\ s.op = "claim" /\ At(c, "claim") /\ ~Blocked(c)
        /\ UNCHANGED <<table, opened, served>>
    BY DEF ClaimDevice, At
  <1>2. s.key \in Keys /\ s.key \notin Accounts
    BY <1>1, Taken, NamesAssumption DEF Typed, Keys
  <1>3. CASE ~Unclaimed(c, s.key)
    <2>1. Continue(c, r, more)
      BY <1>3 DEF ClaimDevice
    <2>2. more \in Seq(Statements) /\ Len(more) = 0 /\ 1..0 = {}
      OBVIOUS
    <2>3. Plain(more) /\ Opens(s, more, Rows(requests[c], table))
      BY <1>1, <2>2 DEF Plain, Opens
    <2> QED BY <1>1, <2>1, <2>2, <2>3, ListKeeps
  <1>4. CASE Unclaimed(c, s.key)
    <2> PICK r1 : r1 = WithRow(r, s.key, s.value)
      OBVIOUS
    <2>1. Continue(c, r1, more)
      BY <1>4 DEF ClaimDevice
    <2>2. ~Visible(c, s.key)
      BY <1>4 DEF Unclaimed
    <2>3. \A d \in Clients \ {c} : s.key \notin Locked(requests[d])
      BY <1>1, Unlocked
    <2> QED BY <1>1, <1>2, <2>1, <2>2, <2>3, RowKeeps
  <1> QED BY <1>3, <1>4

(* A statement that writes a row, or reads one into memory. *)
LEMMA AccountKeeps ==
    ASSUME IInv, NEW c \in Clients, Running(c), NEW r, r = requests[c], NEW s, s = Current(c),
           s.op \notin {"find", "insert"}, NEW r1, Done(r1, table),
           r1.todo = r.todo, r1.inserted = r.inserted, DOMAIN r.balance \subseteq DOMAIN r1.balance,
           s.op = "read" => s.key \in DOMAIN r1.balance,
           \A k \in DOMAIN r1.written :
               \/ k \in DOMAIN r.written
               \/ \A d \in Clients \ {c} : k \notin Locked(requests[d]),
           NEW more, more = <<>>, Continue(c, r1, more), UNCHANGED <<table, opened, served>>
    PROVE  IInv'
  <1>1. more \in Seq(Statements) /\ Len(more) = 0 /\ 1..0 = {}
    OBVIOUS
  <1>2. Plain(more) /\ Opens(s, more, Rows(r1, table)) /\ DOMAIN r.inserted \subseteq DOMAIN r1.inserted
    BY <1>1 DEF Plain, Opens
  <1>3. Free(c, r1)
    BY DEF Locked, Free
  <1> QED BY <1>1, <1>2, <1>3, StatementKeeps, Zenon

LEMMA DeleteKeeps == ASSUME IInv, NEW c \in Clients, DeleteSession(c) PROVE IInv'
  <1> PICK r, s, more : r = requests[c] /\ s = Current(c) /\ more = <<>>
    OBVIOUS
  <1>1. /\ Running(c) /\ s.op = "delete" /\ At(c, "delete") /\ ~Blocked(c)
        /\ UNCHANGED <<table, opened, served>>
    BY DEF DeleteSession, At
  <1>2. Sound(r, table) /\ s.key \in Sessions /\ s.key \notin Accounts
    BY <1>1, Taken, NamesAssumption DEF Typed
  <1>3. CASE ~Visible(c, s.key)
    <2>1. Continue(c, r, more)
      BY <1>3 DEF DeleteSession
    <2>2. more \in Seq(Statements) /\ Len(more) = 0 /\ 1..0 = {}
      OBVIOUS
    <2>3. Plain(more) /\ Opens(s, more, Rows(requests[c], table))
      BY <1>1, <2>2 DEF Plain, Opens
    <2> QED BY <1>1, <2>1, <2>2, <2>3, ListKeeps
  <1>4. CASE Visible(c, s.key)
    <2> PICK r1 : r1 = [r EXCEPT !.written = [k \in {s.key} |-> None]]
      OBVIOUS
    <2>1. Continue(c, r1, more)
      BY <1>4 DEF DeleteSession
    <2>2. /\ DOMAIN r1 = Fields /\ r1.todo = r.todo /\ r1.inserted = r.inserted
          /\ r1.balance = r.balance /\ DOMAIN r1.written = {s.key}
      BY <1>2 DEF Sound, Done, Fields
    <2>3. Done(r1, table)
      BY <1>2, <2>2 DEF Sound, Done
    <2>4. \A d \in Clients \ {c} : s.key \notin Locked(requests[d])
      BY <1>1, <1>4, Unlocked
    <2> QED BY ZenonT(60), <1>1, <2>1, <2>2, <2>3, <2>4, AccountKeeps
  <1> QED BY <1>3, <1>4

LEMMA ReadKeeps == ASSUME IInv, NEW c \in Clients, ReadBalance(c) PROVE IInv'
  <1> PICK r, s, more : r = requests[c] /\ s = Current(c) /\ more = <<>>
    OBVIOUS
  <1> PICK a, value : a = s.key /\ value = IF s.key \in DOMAIN r.inserted
                                           THEN r.inserted[s.key] ELSE table[s.key]
    OBVIOUS
  <1>1. Running(c) /\ s.op = "read" /\ UNCHANGED <<table, opened, served>>
    BY DEF ReadBalance, At
  <1>2. Sound(r, table) /\ a \in Accounts /\ a \in Rows(r, table)
    BY <1>1, Taken, InHand DEF Typed
  <1>3. value \in Int
    BY <1>2 DEF Sound, Done, Rows, IInv
  <1> PICK r1 : r1 = [r EXCEPT
                !.balance = [k \in DOMAIN @ \cup {a} |-> IF k = a THEN value ELSE @[k]],
                !.effects = [k \in DOMAIN @ \cup {a} |-> IF k = a THEN effects[a] ELSE @[k]]]
    OBVIOUS
  <1>4. Continue(c, r1, more)
    BY DEF ReadBalance
  <1>5. /\ DOMAIN r1 = Fields /\ r1.todo = r.todo /\ r1.inserted = r.inserted
        /\ r1.written = r.written
        /\ r1.balance = [k \in DOMAIN r.balance \cup {a} |-> IF k = a THEN value ELSE r.balance[k]]
    BY <1>2 DEF Sound, Done, Fields
  <1>6. Done(r1, table)
    BY <1>2, <1>3, <1>5 DEF Sound, Done
  <1>7. /\ DOMAIN r.balance \subseteq DOMAIN r1.balance /\ s.key \in DOMAIN r1.balance
        /\ \A k \in DOMAIN r1.written : k \in DOMAIN r.written
    BY <1>5
  <1> QED BY <1>1, <1>4, <1>5, <1>6, <1>7, AccountKeeps

(* A float becomes a number of cents.                                      *)
LEMMA RoundedInt == \A parts \in Int : Rounded(parts) \subseteq Int
  <1> TAKE parts \in Int
  <1>1. parts \div Parts \in Int
    BY BoundsAssumption
  <1> QED BY <1>1 DEF Rounded

LEMMA BalanceRounded ==
    \A b, x \in Int : \A cents \in Rounded(Sum(b * Parts, x)) : cents \in Int
  <1> TAKE b, x \in Int
  <1>1. Sum(b * Parts, x) \in Int
    BY BoundsAssumption DEF Sum
  <1> QED BY <1>1, RoundedInt

LEMMA WriteKeeps == ASSUME IInv, NEW c \in Clients, WriteBalance(c) PROVE IInv'
  <1> PICK r, s, more : r = requests[c] /\ s = Current(c) /\ more = <<>>
    OBVIOUS
  <1> PICK a : a = s.key
    OBVIOUS
  <1>1. /\ Running(c) /\ s.op = "write" /\ At(c, "write") /\ ~Blocked(c)
        /\ UNCHANGED <<table, opened, served>>
    BY DEF WriteBalance, At
  <1>2. /\ Sound(r, table) /\ a \in Accounts /\ s.value \in Int
        /\ a \in DOMAIN r.balance
    BY <1>1, Taken, InHand DEF Typed
  <1>3. PICK cents \in Rounded(Sum(r.balance[a] * Parts, s.value)) :
          Continue(c, [r EXCEPT !.written =
              [k \in DOMAIN @ \cup {a} |-> IF k = a THEN cents ELSE @[k]]], more)
    BY DEF WriteBalance
  <1>9. cents \in Int
    BY <1>2, <1>3, BalanceRounded DEF Sound, Done
  <1> PICK r1 : r1 = [r EXCEPT !.written =
                        [k \in DOMAIN @ \cup {a} |-> IF k = a THEN cents ELSE @[k]]]
    OBVIOUS
  <1>4. Continue(c, r1, more)
    BY <1>3
  <1>5. /\ DOMAIN r1 = Fields /\ r1.todo = r.todo /\ r1.inserted = r.inserted
        /\ r1.balance = r.balance
        /\ r1.written = [k \in DOMAIN r.written \cup {a} |->
                            IF k = a THEN cents ELSE r.written[k]]
    BY <1>2 DEF Sound, Done, Fields
  <1>6. Done(r1, table)
    BY <1>2, <1>5, <1>9 DEF Sound, Done
  <1>7. /\ \A d \in Clients \ {c} : s.key \notin Locked(requests[d])
        /\ DOMAIN r.balance \subseteq DOMAIN r1.balance
    BY <1>1, <1>5, Unlocked
  <1>8. \A k \in DOMAIN r1.written :
            k \in DOMAIN r.written \/ \A d \in Clients \ {c} : k \notin Locked(requests[d])
    BY <1>5, <1>7
  <1> QED BY <1>1, <1>4, <1>5, <1>6, <1>7, <1>8, AccountKeeps

-----------------------------------------------------------------------------
(* What a commit writes, nobody else has locked.                           *)
LEMMA CommitKeeps == ASSUME IInv, NEW c \in Clients, CommitRequest(c) PROVE IInv'
  <1> PICK r, idle : r = requests[c] /\ idle = Idle
    OBVIOUS
  <1>1. /\ table' = [k \in Keys |-> IF k \in DOMAIN r.written THEN r.written[k]
                                    ELSE IF k \in DOMAIN r.inserted THEN r.inserted[k]
                                    ELSE table[k]]
        /\ opened' = [a \in Accounts |-> IF a \in DOMAIN r.inserted THEN r.inserted[a]
                                         ELSE opened[a]]
        /\ requests' = [requests EXCEPT ![c] = idle] /\ served' = served
    BY DEF CommitRequest
  <1>2. Sound(r, table) /\ Done(r, table)
    BY DEF IInv, Sound
  <1>3. /\ DOMAIN table' = Keys /\ DOMAIN opened' = Accounts /\ served' \in 0..MaxRequests
        /\ DOMAIN requests' = Clients
    BY <1>1 DEF IInv
  <1>4. ASSUME NEW a \in Accounts
        PROVE  table'[a] \in Int \cup {None} /\ (opened'[a] # None => table'[a] # None)
               /\ (table[a] # None => table'[a] # None)
    <2>1. a \in Keys /\ None \notin Int
      BY NamesAssumption DEF Keys
    <2>2. /\ a \in DOMAIN r.written => r.written[a] \in Int
          /\ a \in DOMAIN r.inserted => r.inserted[a] \in Int
      BY <1>2 DEF Done
    <2> QED BY <1>1, <2>1, <2>2 DEF IInv
  <1>5. ASSUME NEW d \in Clients \ {c} PROVE Sound(requests[d], table')
    <2> PICK q : q = requests[d]
      OBVIOUS
    <2>1. Sound(q, table) /\ Done(q, table)
      BY DEF IInv, Sound
    <2>2. Locked(q) \cap Locked(r) = {}
      BY DEF IInv, Exclusive
    <2>3. ASSUME NEW k \in DOMAIN q.inserted PROVE table'[k] = None
      BY <1>1, <2>1, <2>2 DEF Done, Locked
    <2>4. Done(q, table')
      BY <2>1, <2>3 DEF Done
    <2>5. Planned(q.todo, "read", {"find", "insert"}, Rows(q, table'))
      <3>1. ASSUME NEW i \in 1..Len(q.todo), q.todo[i].op = "read",
                   q.todo[i].key \in Rows(q, table)
            PROVE  q.todo[i].key \in Rows(q, table')
        <4>1. q.todo[i].key \in Accounts
          BY <2>1, <3>1 DEF Sound, Typed
        <4> QED BY <1>4, <3>1, <4>1 DEF Rows, Keys
      <3>2. Planned(q.todo, "read", {"find", "insert"}, Rows(q, table))
        BY <2>1 DEF Sound
      <3> QED BY <3>1, <3>2 DEF Planned
    <2> QED BY <2>1, <2>4, <2>5 DEF Sound
  <1>6. Sound(idle, table') /\ Locked(idle) = {}
    BY IdleSound
  <1>7. /\ requests'[c] = idle /\ \A d \in Clients \ {c} : requests'[d] = requests[d]
    BY <1>1 DEF IInv
  <1>8. \A d \in Clients : Sound(requests'[d], table')
    BY <1>5, <1>6, <1>7
  <1>9. Exclusive'
    BY <1>6, <1>7 DEF IInv, Exclusive
  <1> QED BY <1>3, <1>4, <1>8, <1>9 DEF IInv

LEMMA InitSound == ASSUME Init PROVE IInv
  <1> PICK idle : idle = Idle
    OBVIOUS
  <1>1. requests = [c \in Clients |-> idle] /\ Sound(idle, table) /\ Locked(idle) = {}
    BY IdleSound DEF Init
  <1>2. /\ DOMAIN table = Keys /\ DOMAIN opened = Accounts /\ served \in 0..MaxRequests
        /\ \A a \in Accounts : table[a] \in Int \cup {None} /\ opened[a] = table[a]
    BY BoundsAssumption DEF Init, Initially, Keys
  <1> QED BY <1>1, <1>2 DEF IInv, Exclusive

LEMMA StepKeeps == ASSUME IInv, [Next]_vars PROVE IInv'
  <1>1. CASE Next
    <2> PICK c \in Clients : \/ Transfer(c) \/ Balance(c) \/ Login(c) \/ AddBeneficiary(c)
                             \/ DropSession(c) \/ ViewAccount(c)
                             \/ Step(c) \/ Fail(c)
      BY <1>1 DEF Next
    <2>1. CASE Transfer(c)
      BY <2>1, TransferKeeps
    <2>2. CASE Balance(c) \/ Login(c) \/ AddBeneficiary(c) \/ DropSession(c) \/ ViewAccount(c)
      BY <2>2, OthersKeep
    <2>3. CASE Fail(c)
      BY <2>3, RollbackKeeps DEF Fail
    <2>4. CASE BreakDeadlock(c)
      BY <2>4, RollbackKeeps DEF BreakDeadlock
    <2>5. CASE CommitRequest(c)
      BY <2>5, CommitKeeps
    <2>6. CASE \/ Lookup(c) \/ InsertRow(c) \/ ReadBalance(c) \/ WriteBalance(c)
               \/ ClaimDevice(c) \/ ReferToCustomer(c) \/ DeleteSession(c)
      BY <2>6, LookupKeeps, InsertKeeps, ReadKeeps, WriteKeeps, ClaimKeeps, ReferKeeps, DeleteKeeps
    <2> QED BY <2>1, <2>2, <2>3, <2>4, <2>5, <2>6 DEF Step
  <1>2. CASE UNCHANGED vars
    BY SMTT(30), <1>2 DEF vars, IInv, Exclusive, Sound
  <1> QED BY <1>1, <1>2

LEMMA Opened == ASSUME IInv, [Next]_vars
                PROVE  /\ \A a \in Accounts : opened[a] # None => opened'[a] = opened[a]
                       /\ \A d \in Devices : table[d] # None => table'[d] = table[d]
  <1>1. CASE UNCHANGED <<table, opened>>
    BY <1>1
  <1>2. ASSUME NEW c \in Clients, CommitRequest(c)
        PROVE  /\ \A a \in Accounts : opened[a] # None => opened'[a] = opened[a]
               /\ \A d \in Devices : table[d] # None => table'[d] = table[d]
    <2> PICK r : r = requests[c]
      OBVIOUS
    <2>1. /\ table' = [k \in Keys |-> IF k \in DOMAIN r.written THEN r.written[k]
                                      ELSE IF k \in DOMAIN r.inserted THEN r.inserted[k]
                                      ELSE table[k]]
          /\ opened' = [a \in Accounts |-> IF a \in DOMAIN r.inserted THEN r.inserted[a]
                                           ELSE opened[a]]
      BY <1>2 DEF CommitRequest
    <2>2. Done(r, table)
      BY DEF IInv, Sound
    <2>3. \A d \in Devices : d \in Keys /\ d \notin DOMAIN r.written
      BY <2>2, NamesAssumption DEF Done, Keys
    <2> QED BY <2>1, <2>2, <2>3 DEF Done, IInv
  <1> QED BY <1>1, <1>2 DEF Next, Step, vars, Transfer, Balance, Login, AddBeneficiary, DropSession,
          ViewAccount, Begin, Lookup, InsertRow, ReadBalance, WriteBalance, ClaimDevice,
          ReferToCustomer, DeleteSession, BreakDeadlock, Fail

(* Whoever comes first decides: the opening balance of an account, be it   *)
(* opened by execute_transfer, get_account_balance or api_login, and the   *)
(* customer of a device (on_conflict_do_nothing) are never reset, whatever *)
(* the interleaving of the statements, the failures and the deadlocks.     *)
THEOREM RowsOpenedOnce == Spec => OpenedOnce
  <1>1. Init => IInv
    BY InitSound
  <1>2. IInv /\ [Next]_vars => IInv'
    BY StepKeeps
  <1>3. IInv /\ [Next]_vars =>
            [/\ \A a \in Accounts : opened[a] # None => opened'[a] = opened[a]
             /\ \A d \in Devices : table[d] # None => table'[d] = table[d]]_vars
    BY Opened
  <1> QED BY <1>1, <1>2, <1>3, PTL DEF Spec, OpenedOnce

-----------------------------------------------------------------------------
(* Roundings.                                                              *)

(* What is nearest to a number of parts. *)
Near(w, y) == w \in Int /\ -Parts <= 2 * (w * Parts - y) /\ 2 * (w * Parts - y) <= Parts

LEMMA RoundedNear == ASSUME NEW y \in Int, NEW w \in Rounded(y) PROVE Near(w, y)
  <1>1. y \div Parts \in Int
    BY BoundsAssumption
  <1>2. w \in Int /\ 2 * (w * Parts - y) \in -Parts..Parts
    BY <1>1 DEF Rounded
  <1>3. 2 * (w * Parts - y) \in Int /\ Parts \in Int /\ -Parts \in Int
    BY <1>2, BoundsAssumption
  <1> QED BY <1>2, <1>3 DEF Near

(* A multiple of P that is small is none. *)
LEMMA SmallMultiple ==
    ASSUME NEW P \in Nat \ {0}, NEW k \in Int
    PROVE  /\ -P <= k * P /\ k * P <= P => k \in -1..1
           /\ -P <= 2 * (k * P) /\ 2 * (k * P) <= P => k = 0
  <1>1. k >= 2 => k * P >= 2 * P
    OBVIOUS
  <1>2. k <= -2 => k * P <= -2 * P
    OBVIOUS
  <1>3. k >= 1 => k * P >= P
    OBVIOUS
  <1>4. k <= -1 => k * P <= -P
    OBVIOUS
  <1>5. k * P \in Int
    OBVIOUS
  <1>6. PICK q \in Int : q = k * P
    BY <1>5
  <1> QED BY <1>1, <1>2, <1>3, <1>4, <1>6

(* A balance and an entry of the transactions table are rounded each by    *)
(* itself: the balance moves by the entry's amount to a cent, and exactly  *)
(* if that is a whole number of cents.                                     *)
LEMMA RoundedClose ==
    ASSUME NEW b \in Int, NEW x \in Int, NEW m \in Rounded(x), NEW sign \in {1, -1},
           NEW w \in Rounded(Sum(b * Parts, sign * x))
    PROVE  /\ w \in Int /\ m \in Int /\ w - b - sign * m \in -1..1
           /\ Whole(x) => w - b - sign * m = 0
  <1> PICK P : P = Parts
    OBVIOUS
  <1>1. P \in Nat \ {0}
    BY BoundsAssumption
  <1>2. Near(m, x) /\ Near(w, b * P + sign * x)
    <2>1. b * P + sign * x \in Int
      BY <1>1
    <2> QED BY <2>1, RoundedNear DEF Sum
  <1> PICK u : u = w - b
    OBVIOUS
  <1>3. u \in Int /\ m \in Int /\ w \in Int
    BY <1>2 DEF Near
  <1>4. w * P - (b * P + sign * x) = u * P - sign * x
    BY <1>1, <1>3
  <1>5. /\ -P <= 2 * (u * P - sign * x) /\ 2 * (u * P - sign * x) <= P
        /\ -P <= 2 * (m * P - x) /\ 2 * (m * P - x) <= P
    BY <1>2, <1>4 DEF Near
  <1>6. PICK uP \in Int, mP \in Int : uP = u * P /\ mP = m * P
    BY <1>1, <1>3
  <1>7. w - b - sign * m \in -1..1
    <2>1. (u - sign * m) * P = uP - sign * mP
      BY <1>1, <1>3, <1>6
    <2>2. -P <= uP - sign * mP /\ uP - sign * mP <= P
      BY <1>1, <1>5, <1>6
    <2>3. u - sign * m \in -1..1
      BY <1>1, <1>3, <2>1, <2>2, SmallMultiple
    <2> QED BY <2>3
  <1>8. ASSUME Whole(x) PROVE w - b - sign * m = 0
    <2>1. PICK q \in Int : x = q * P
      BY <1>1, <1>8 DEF Whole
    <2>2. m = q
      <3>1. (m - q) * P = mP - x
        BY <1>1, <1>3, <1>6, <2>1
      <3>2. m - q = 0
        BY <1>1, <1>3, <1>5, <1>6, <3>1, SmallMultiple
      <3> QED BY <1>3, <3>2
    <2>3. u = sign * q
      <3>1. (u - sign * q) * P = uP - sign * x
        BY <1>1, <1>3, <1>6, <2>1
      <3>2. u - sign * q = 0
        BY <1>1, <1>3, <1>5, <1>6, <3>1, SmallMultiple
      <3> QED BY <1>3, <3>2
    <2> QED BY <2>2, <2>3
  <1> QED BY <1>3, <1>7, <1>8

-----------------------------------------------------------------------------
(* The books: what the transactions table says of an account.              *)

Entries == [from : Accounts, to : Accounts, amount : Int, whole : BOOLEAN]

(* What an entry, or a transfer, means for an account. *)
Effect(entry, a) == (IF entry.to = a THEN entry.amount ELSE 0) - (IF entry.from = a THEN entry.amount ELSE 0)

NetIn(L, S, a) ==
    LET net[n \in 0..Len(L)] ==
          IF n = 0 THEN 0
          ELSE net[n - 1] + (IF n \in S /\ L[n].to = a THEN L[n].amount ELSE 0)
                          - (IF n \in S /\ L[n].from = a THEN L[n].amount ELSE 0)
    IN  net[Len(L)]

Gains(L, S, a)  == [n \in 1..Len(L) |-> IF n \in S /\ L[n].to = a THEN L[n].amount ELSE 0]
Losses(L, S, a) == [n \in 1..Len(L) |-> IF n \in S /\ L[n].from = a THEN L[n].amount ELSE 0]

LEMMA EntryFacts == \A e \in Entries : e.from \in Accounts /\ e.to \in Accounts /\ e.amount \in Int
  BY DEF Entries

LEMMA NetSums ==
    ASSUME NEW L \in Seq(Entries), NEW S, NEW a
    PROVE  \E f \in [0..Len(L) -> Int] :
              Sums(f, Len(L), Gains(L, S, a), Losses(L, S, a)) /\ NetIn(L, S, a) = f[Len(L)]
  <1> DEFINE Is(f) == f = [n \in 0..Len(L) |->
                             IF n = 0 THEN 0
                             ELSE f[n - 1] + (IF n \in S /\ L[n].to = a THEN L[n].amount ELSE 0)
                                           - (IF n \in S /\ L[n].from = a THEN L[n].amount ELSE 0)]
  <1> PICK N, gain, loss : N = Len(L) /\ gain = Gains(L, S, a) /\ loss = Losses(L, S, a)
    OBVIOUS
  <1>1. N \in Nat /\ \A k \in 1..N : gain[k] \in Int /\ loss[k] \in Int
    <2>1. \A k \in 1..N : L[k] \in Entries /\ N \in Nat
      OBVIOUS
    <2> QED BY <2>1, EntryFacts DEF Gains, Losses
  <1>2. PICK g \in [0..N -> Int] : Sums(g, N, gain, loss)
    BY <1>1, SumsExist
  <1>3. g = [n \in 0..N |->
               IF n = 0 THEN 0
               ELSE g[n - 1] + (IF n \in S /\ L[n].to = a THEN L[n].amount ELSE 0)
                             - (IF n \in S /\ L[n].from = a THEN L[n].amount ELSE 0)]
    BY <1>1, <1>2 DEF Sums, Gains, Losses
  <1>4. Is(g)
    BY <1>3
  <1> PICK h : h = CHOOSE f : Is(f)
    OBVIOUS
  <1>5. NetIn(L, S, a) = h[N]
    BY Zenon DEF NetIn
  <1> HIDE DEF Is
  <1>6. Is(h)
    BY <1>4
  <1>7. Sums(h, N, gain, loss)
    <2>1. h = [n \in 0..N |->
                 IF n = 0 THEN 0
                 ELSE h[n - 1] + (IF n \in S /\ L[n].to = a THEN L[n].amount ELSE 0)
                               - (IF n \in S /\ L[n].from = a THEN L[n].amount ELSE 0)]
      BY <1>6, Zenon DEF Is
    <2>2. ASSUME NEW k \in 1..N PROVE h[k] = h[k - 1] + gain[k] - loss[k]
      <3>1. k \in 0..N /\ k # 0
        BY <1>1
      <3>2. h[k] = h[k - 1] + (IF k \in S /\ L[k].to = a THEN L[k].amount ELSE 0)
                            - (IF k \in S /\ L[k].from = a THEN L[k].amount ELSE 0)
        BY <2>1, <3>1
      <3>3. /\ gain[k] = (IF k \in S /\ L[k].to = a THEN L[k].amount ELSE 0)
            /\ loss[k] = (IF k \in S /\ L[k].from = a THEN L[k].amount ELSE 0)
        BY <1>1 DEF Gains, Losses
      <3> QED BY <3>2, <3>3
    <2>3. h[0] = 0
      <3>1. 0 \in 0..N
        BY <1>1
      <3> QED BY <2>1, <3>1, Zenon
    <2> QED BY <2>2, <2>3 DEF Sums
  <1>8. h[N] = g[N]
    BY <1>1, <1>2, <1>7, SumsAgree
  <1> QED BY <1>2, <1>5, <1>8

LEMMA NetNone == ASSUME NEW L \in Seq(Entries), NEW a PROVE NetIn(L, {}, a) = 0
  <1> PICK N, gain, loss, f : /\ N = Len(L) /\ gain = Gains(L, {}, a) /\ loss = Losses(L, {}, a)
                              /\ f = [n \in 0..N |-> 0]
    OBVIOUS
  <1>1. N \in Nat /\ \A k \in 1..N : gain[k] = 0 /\ loss[k] = 0 /\ k - 1 \in 0..N /\ k \in 0..N
    BY DEF Gains, Losses
  <1>2. Sums(f, N, gain, loss)
    BY <1>1 DEF Sums
  <1>3. PICK g \in [0..N -> Int] : Sums(g, N, gain, loss) /\ NetIn(L, {}, a) = g[N]
    BY NetSums
  <1> QED BY <1>1, <1>2, <1>3, SumsAgree

LEMMA NetInt == ASSUME NEW L \in Seq(Entries), NEW S, NEW a PROVE NetIn(L, S, a) \in Int
  <1> PICK N : N = Len(L)
    OBVIOUS
  <1>1. PICK g \in [0..N -> Int] : NetIn(L, S, a) = g[N]
    BY NetSums
  <1>2. N \in 0..N
    OBVIOUS
  <1> QED BY <1>1, <1>2

(* The next number belongs to a set that gets it, and to none before.      *)
LEMMA OneMore ==
    ASSUME NEW M \in Nat, NEW S, S \subseteq 1..M, NEW N, N = M + 1, NEW S2, S2 \in {S, S \cup {N}}
    PROVE  /\ N \notin S /\ S2 \subseteq 1..N /\ \A n \in 1..M : n \in S2 <=> n \in S
           /\ \A n \in 1..M : n \in 1..N
  <1>1. S2 = S \/ S2 = S \cup {N}
    OBVIOUS
  <1>2. N \notin 1..M /\ N \in 1..N /\ \A n \in 1..M : n \in 1..N
    OBVIOUS
  <1> QED BY <1>1, <1>2

(* An entry counts where the set has it. *)
Counted(L, S, L2, S2, a, entry) ==
    NetIn(L2, S2, a) = NetIn(L, S, a) + (IF Len(L2) \in S2 THEN Effect(entry, a) ELSE 0)

LEMMA NetAppend ==
    ASSUME NEW L \in Seq(Entries), NEW entry \in Entries, NEW a, NEW L2, L2 = Append(L, entry),
           NEW S, S \subseteq 1..Len(L), NEW N, N = Len(L2), NEW S2, S2 \in {S, S \cup {N}}
    PROVE  Counted(L, S, L2, S2, a, entry)
  <1> PICK M : M = Len(L)
    OBVIOUS
  <1>1. /\ L2 \in Seq(Entries) /\ Len(L2) = N /\ N = M + 1 /\ M \in Nat /\ L2[N] = entry
        /\ \A k \in 1..M : L2[k] = L[k]
    OBVIOUS
  <1>2. PICK f \in [0..M -> Int] :
          Sums(f, M, Gains(L, S, a), Losses(L, S, a)) /\ NetIn(L, S, a) = f[M]
    BY NetSums
  <1>3. PICK g \in [0..N -> Int] :
          Sums(g, N, Gains(L2, S2, a), Losses(L2, S2, a)) /\ NetIn(L2, S2, a) = g[N]
    BY <1>1, NetSums
  <1>4. Sums(g, M, Gains(L, S, a), Losses(L, S, a))
    <2>1. ASSUME NEW k \in 1..M
          PROVE  /\ k \in 1..N /\ Gains(L2, S2, a)[k] = Gains(L, S, a)[k]
                 /\ Losses(L2, S2, a)[k] = Losses(L, S, a)[k]
      <3>1. k \in 1..Len(L) /\ k \in 1..Len(L2) /\ L2[k] = L[k]
        BY <1>1
      <3>2. k \in S2 <=> k \in S
        BY <1>1, OneMore
      <3> QED BY <1>1, <3>1, <3>2 DEF Gains, Losses
    <2> QED BY <1>3, <2>1 DEF Sums
  <1>5. g[M] = f[M] /\ f[M] \in Int
    BY <1>1, <1>2, <1>4, SumsAgree
  <1>6. g[N] = g[M] + Gains(L2, S2, a)[N] - Losses(L2, S2, a)[N]
    BY <1>1, <1>3 DEF Sums
  <1>7. /\ Gains(L2, S2, a)[N] = IF N \in S2 /\ entry.to = a THEN entry.amount ELSE 0
        /\ Losses(L2, S2, a)[N] = IF N \in S2 /\ entry.from = a THEN entry.amount ELSE 0
    BY <1>1 DEF Gains, Losses
  <1>8. entry.amount \in Int
    BY EntryFacts
  <1> QED BY <1>1, <1>2, <1>3, <1>5, <1>6, <1>7, <1>8 DEF Effect, Counted

(* Those of the entries that lost a part of a cent. *)
Lossy(L, S) == {n \in S : ~L[n].whole}

(* A balance is explained by what it was opened with and by entries S, to  *)
(* a cent for every one that lost a part of a cent.                        *)
Tallies(b, o, L, S, a) ==
    /\ b \in Int /\ o \in Int /\ S \subseteq 1..Len(L)
    /\ b - o - NetIn(L, S, a) \in -Cardinality(Lossy(L, S))..Cardinality(Lossy(L, S))

LEMMA LossyFinite ==
    ASSUME NEW L \in Seq(Entries), NEW S, S \subseteq 1..Len(L)
    PROVE  IsFiniteSet(Lossy(L, S)) /\ Cardinality(Lossy(L, S)) \in Nat
  <1> PICK N : N = Len(L)
    OBVIOUS
  <1>1. IsFiniteSet(1..N) /\ Lossy(L, S) \in SUBSET (1..N)
    <2>1. 1 \in Int /\ N \in Int
      OBVIOUS
    <2> QED BY <2>1, FS_Interval DEF Lossy
  <1> QED BY <1>1, FS_Subset, FS_CardinalityType

LEMMA TalliesNone ==
    ASSUME NEW L \in Seq(Entries), NEW b \in Int, NEW a PROVE Tallies(b, b, L, {}, a)
  <1> PICK S, none : S = {} /\ none = Lossy(L, S)
    OBVIOUS
  <1>1. none = {} /\ S \subseteq 1..Len(L)
    BY DEF Lossy
  <1>2. Cardinality(none) = 0
    BY <1>1, FS_EmptySet
  <1>3. NetIn(L, S, a) = 0
    BY NetNone
  <1>4. b - b - NetIn(L, S, a) \in -Cardinality(none)..Cardinality(none)
    BY <1>2, <1>3
  <1> QED BY <1>1, <1>4 DEF Tallies

(* Later entries change nothing for it. *)
LEMMA TalliesStay ==
    ASSUME NEW L \in Seq(Entries), NEW entry \in Entries, NEW L2, L2 = Append(L, entry),
           NEW b, NEW o, NEW S, NEW a, Tallies(b, o, L, S, a)
    PROVE  Tallies(b, o, L2, S, a)
  <1> PICK M, N : M = Len(L) /\ N = Len(L2)
    OBVIOUS
  <1>1. /\ N = M + 1 /\ M \in Nat /\ \A n \in 1..M : L2[n] = L[n]
        /\ S \subseteq 1..M
    BY DEF Tallies
  <1>2. N \notin S /\ S \subseteq 1..N
    BY <1>1, OneMore
  <1>3. NetIn(L2, S, a) = NetIn(L, S, a)
    <2>1. S \in {S, S \cup {N}} /\ S \subseteq 1..Len(L)
      BY DEF Tallies
    <2>2. Counted(L, S, L2, S, a, entry)
      BY <2>1, NetAppend, Zenon
    <2> QED BY <1>2, <2>2, NetInt DEF Counted
  <1>4. Lossy(L2, S) = Lossy(L, S)
    BY <1>1 DEF Lossy
  <1> QED BY <1>2, <1>3, <1>4 DEF Tallies

(* A balance that adds an entry to it contains this one, too.              *)
LEMMA TalliesMore ==
    ASSUME NEW L \in Seq(Entries), NEW entry \in Entries, NEW L2, L2 = Append(L, entry),
           NEW b, NEW o, NEW S, NEW a, Tallies(b, o, L, S, a), NEW w \in Int,
           w - b - Effect(entry, a) \in -1..1, entry.whole => w - b - Effect(entry, a) = 0
    PROVE  Tallies(w, o, L2, S \cup {Len(L2)}, a)
  <1> PICK N, M, S2 : N = Len(L2) /\ M = Len(L) /\ S2 = S \cup {N}
    OBVIOUS
  <1>1. /\ N = M + 1 /\ M \in Nat /\ \A n \in 1..M : L2[n] = L[n]
        /\ S \subseteq 1..M /\ L2[N] = entry
    BY DEF Tallies
  <1>2. S2 \subseteq 1..N /\ N \in S2 /\ N \notin S /\ \A n \in 1..M : n \in S2 <=> n \in S
    BY <1>1, OneMore
  <1>3. PICK net \in Int, e \in Int :
          /\ net = NetIn(L, S, a) /\ e = Effect(entry, a) /\ NetIn(L2, S2, a) = net + e
    <2>4. S2 \in {S, S \cup {N}} /\ S \subseteq 1..Len(L)
      BY DEF Tallies
    <2>1. Counted(L, S, L2, S2, a, entry)
      BY <2>4, NetAppend, Zenon
    <2>2. Effect(entry, a) \in Int
      BY EntryFacts DEF Effect
    <2>3. NetIn(L, S, a) \in Int
      BY NetInt
    <2> QED BY <1>2, <2>1, <2>2, <2>3 DEF Counted
  <1> PICK off, off2 : off = Lossy(L, S) /\ off2 = Lossy(L2, S2)
    OBVIOUS
  <1>4. IsFiniteSet(off) /\ Cardinality(off) \in Nat /\ N \notin off
    <2>1. off \subseteq S /\ S \subseteq 1..Len(L)
      BY <1>1 DEF Lossy
    <2> QED BY <1>2, <2>1, LossyFinite
  <1>5. PICK K \in Nat : K = Cardinality(off)
    BY <1>4
  <1>6. b \in Int /\ o \in Int /\ b - o - net \in -K..K
    BY <1>3, <1>5 DEF Tallies
  <1>7. PICK K2 \in Nat : /\ K2 = Cardinality(off2)
                           /\ K2 = K + IF entry.whole THEN 0 ELSE 1
    <2>1. CASE entry.whole
      <3>1. off2 = off
        BY <1>1, <1>2, <2>1 DEF Lossy
      <3> QED BY <1>5, <2>1, <3>1
    <2>2. CASE ~entry.whole
      <3>1. off2 = off \cup {N}
        BY <1>1, <1>2, <2>2 DEF Lossy
      <3>2. Cardinality(off2) = Cardinality(off) + 1
        BY ZenonT(60), <1>4, <3>1, FS_AddElement
      <3> QED BY <1>5, <2>2, <3>2
    <2> QED BY <2>1, <2>2
  <1>8. w - b - e \in -1..1 /\ (entry.whole => w - b - e = 0)
    BY <1>3
  <1>9. w - o - (net + e) \in -K2..K2
    <2>1. PICK x \in Int, y \in Int : x = b - o - net /\ y = w - b - e
      BY <1>3, <1>6
    <2>2. w - o - (net + e) = x + y
      BY <1>3, <1>6, <2>1
    <2>3. x \in -K..K /\ y \in -1..1 /\ (entry.whole => y = 0)
      BY <1>6, <1>8, <2>1
    <2>4. x + y \in -K2..K2
      BY SMTT(30), <1>5, <1>7, <2>1, <2>3
    <2> QED BY <2>2, <2>4
  <1> QED BY <1>2, <1>3, <1>6, <1>7, <1>9 DEF Tallies

-----------------------------------------------------------------------------
(* What a request still has to do: its commit is the last statement, it    *)
(* opens no accounts but the two of its transfer, writes those, each with  *)
(* its own amount and after all it reads, and a request that deletes a     *)
(* session or enrols a customer transfers nothing.                         *)
Orders == [from : Accounts, to : Accounts, amount : Amounts]

(* The account a statement may open is one of the transfer's.              *)
Within(s, transfer) ==
    transfer # NoTransfer =>
        /\ s.op # "enrol"
        /\ s.op \in {"find", "insert"} /\ s.key \in Accounts =>
              s.key \in {transfer.from, transfer.to}

Orderly(todo, transfer) ==
    \A i \in 1..Len(todo) :
        /\ todo[i].op = "commit" => i = Len(todo)
        /\ todo[i].op = "write" =>
             /\ transfer # NoTransfer
             /\ todo[i].key \in {transfer.from, transfer.to}
             /\ todo[i].value = Effect(transfer, todo[i].key)
             /\ \A j \in i..Len(todo) : todo[j].op # "read"
        /\ todo[i].op = "delete" => transfer = NoTransfer
        /\ Within(todo[i], transfer)

(* What it has written is what it read, changed by its transfer.           *)
Written(r) ==
    IF r.transfer = NoTransfer THEN DOMAIN r.written \cap Accounts = {}
    ELSE /\ r.transfer \in Orders /\ r.transfer.from # r.transfer.to
         /\ DOMAIN r.inserted \cap Accounts \subseteq {r.transfer.from, r.transfer.to}
         /\ DOMAIN r.written \subseteq {r.transfer.from, r.transfer.to} \cap DOMAIN r.balance
         /\ \A a \in DOMAIN r.written :
              r.written[a] \in Rounded(Sum(r.balance[a] * Parts, Effect(r.transfer, a)))

(* Both accounts of a transfer are written or about to be, and nothing is  *)
(* read any more once one is.                                              *)
Pending(r) ==
    r.transfer # NoTransfer =>
        /\ \A a \in {r.transfer.from, r.transfer.to} :
             \/ a \in DOMAIN r.written
             \/ \E i \in 1..Len(r.todo) : r.todo[i].op = "write" /\ r.todo[i].key = a
        /\ DOMAIN r.written # {} => \A i \in 1..Len(r.todo) : r.todo[i].op # "read"

(* A balance read is the one of the row the request inserted, or explained *)
(* by entries there were when it was read.                                 *)
Explained(r, t, o, L) ==
    /\ DOMAIN r.effects = DOMAIN r.balance
    /\ DOMAIN r.balance \subseteq Accounts \cap Rows(r, t)
    /\ \A a \in DOMAIN r.balance :
         IF a \in DOMAIN r.inserted THEN r.balance[a] = r.inserted[a] /\ r.effects[a] = {}
         ELSE Tallies(r.balance[a], o[a], L, r.effects[a], a)

Honest(r, t, o, L) == Orderly(r.todo, r.transfer) /\ Written(r) /\ Pending(r) /\ Explained(r, t, o, L)

(* An account without a row contains nothing. *)
Exact ==
    \A a \in Accounts :
        /\ table[a] = None => effects[a] = {}
        /\ table[a] # None => Tallies(table[a], opened[a], ledger, effects[a], a)

Books ==
    /\ ledger \in Seq(Entries) /\ Exact
    /\ \A c \in Clients : Honest(requests[c], table, opened, ledger)

LEMMA EffectOf ==
    ASSUME NEW from \in Accounts, NEW to \in Accounts, from # to, NEW amount \in Amounts,
           NEW transfer, transfer = Transferred(from, to, amount)
    PROVE  /\ transfer \in Orders /\ transfer # NoTransfer
           /\ transfer.from = from /\ transfer.to = to
           /\ Effect(transfer, from) = -amount /\ Effect(transfer, to) = amount
  <1>1. amount \in Int
    BY BoundsAssumption
  <1>2. /\ transfer.from = from /\ transfer.to = to /\ transfer.amount = amount
        /\ transfer \in Orders /\ NoTransfer.from = None /\ from # None
    BY NamesAssumption DEF Transferred, Orders, NoTransfer, Keys
  <1>3. Effect(transfer, from) = 0 - amount /\ Effect(transfer, to) = amount - 0
    BY <1>2 DEF Effect
  <1> QED BY <1>1, <1>2, <1>3

LEMMA OrderlyContinued ==
    ASSUME NEW todo \in Seq(Statements), todo # <<>>, NEW more \in Seq(Statements), Plain(more),
           NEW transfer, Orderly(todo, transfer), NEW new, new = more \o Tail(todo),
           \A i \in 1..Len(more) : Within(more[i], transfer)
    PROVE  Orderly(new, transfer)
  <1> PICK n, m : n = Len(more) /\ m = Len(todo)
    OBVIOUS
  <1>1. /\ Len(new) = n + m - 1 /\ n \in Nat /\ m \in Nat \ {0}
        /\ \A i \in 1..n : new[i] = more[i]
        /\ \A i \in 2..m : new[n + i - 1] = todo[i]
    BY Continued
  <1>2. \A i \in 1..n : new[i].op \notin {"read", "write", "delete", "commit"}
    BY <1>1 DEF Plain
  <1>3. ASSUME NEW i \in 1..Len(new), i \notin 1..n
        PROVE  i - n + 1 \in 2..m /\ i - n + 1 \in 1..m /\ new[i] = todo[i - n + 1]
    <2> PICK k : k = i - n + 1
      OBVIOUS
    <2>1. k \in 2..m /\ k \in 1..m /\ n + k - 1 = i
      BY <1>1, <1>3
    <2>2. new[i] = todo[k]
      BY <1>1, <2>1
    <2> QED BY <2>1, <2>2
  <1>4. ASSUME NEW i \in 1..Len(new), i \notin 1..n
        PROVE  /\ new[i].op = "commit" => i = Len(new)
               /\ new[i].op = "write" =>
                    /\ transfer # NoTransfer
                    /\ new[i].key \in {transfer.from, transfer.to}
                    /\ new[i].value = Effect(transfer, new[i].key)
                    /\ \A j \in i..Len(new) : new[j].op # "read"
               /\ new[i].op = "delete" => transfer = NoTransfer
               /\ Within(new[i], transfer)
    <2> PICK k : k = i - n + 1
      OBVIOUS
    <2>1. k \in 1..m /\ k \in 2..m /\ new[i] = todo[k]
      BY <1>3, <1>4
    <2>2. new[i].op = "commit" => i = Len(new)
      <3>1. new[i].op = "commit" => k = m
        BY <2>1 DEF Orderly
      <3>2. k = m => i = Len(new)
        BY <1>1, <1>4
      <3> QED BY <3>1, <3>2
    <2>3. ASSUME new[i].op = "write", NEW j \in i..Len(new) PROVE new[j].op # "read"
      <3> PICK l : l = j - n + 1
        OBVIOUS
      <3>1. j \in 1..Len(new) /\ j \notin 1..n
        BY <1>1, <1>4, <2>3
      <3>2. new[j] = todo[l] /\ l \in 1..m
        BY <1>3, <3>1
      <3>3. l \in k..m
        BY <1>1, <1>4, <2>1, <2>3, <3>2
      <3> QED BY <2>1, <2>3, <3>2, <3>3 DEF Orderly
    <2> QED BY <2>1, <2>2, <2>3 DEF Orderly
  <1>5. ASSUME NEW i \in 1..Len(new), i \in 1..n
        PROVE  new[i].op \notin {"commit", "write", "delete"} /\ Within(new[i], transfer)
    BY <1>1, <1>2, <1>5
  <1> QED BY <1>4, <1>5 DEF Orderly

(* What a statement writes. *)
Wrote(s, r, r2) ==
    \/ s.op # "write" /\ DOMAIN r2.written = DOMAIN r.written
    \/ s.op = "write" /\ DOMAIN r2.written = DOMAIN r.written \cup {s.key}
    \/ s.op = "delete"

LEMMA PendingContinued ==
    ASSUME NEW r, r.todo \in Seq(Statements), r.todo # <<>>, NEW s, s = Head(r.todo),
           Orderly(r.todo, r.transfer), Pending(r),
           NEW more \in Seq(Statements), Plain(more), NEW r2, r2.todo = more \o Tail(r.todo),
           r2.transfer = r.transfer, Wrote(s, r, r2)
    PROVE  Pending(r2)
  <1> PICK todo, new, n, m : /\ todo = r.todo /\ new = r2.todo
                             /\ n = Len(more) /\ m = Len(todo)
    OBVIOUS
  <1>1. /\ Len(new) = n + m - 1 /\ n \in Nat /\ m \in Nat \ {0}
        /\ \A i \in 1..n : new[i] = more[i]
        /\ \A i \in 2..m : new[n + i - 1] = todo[i]
    BY Continued
  <1>2. s = todo[1] /\ 1 \in 1..m
    BY <1>1
  <1> SUFFICES ASSUME r.transfer # NoTransfer
               PROVE  /\ \A a \in {r.transfer.from, r.transfer.to} :
                           \/ a \in DOMAIN r2.written
                           \/ \E i \in 1..Len(new) : new[i].op = "write" /\ new[i].key = a
                      /\ DOMAIN r2.written # {} => \A i \in 1..Len(new) : new[i].op # "read"
    BY DEF Pending
  <1>3. s.op # "delete"
    BY <1>2 DEF Orderly
  <1>4. ASSUME NEW a \in {r.transfer.from, r.transfer.to}
        PROVE  \/ a \in DOMAIN r2.written
               \/ \E i \in 1..Len(new) : new[i].op = "write" /\ new[i].key = a
    <2>1. CASE a \in DOMAIN r.written
      BY <1>3, <2>1 DEF Wrote
    <2>2. ASSUME NEW k \in 1..m, todo[k].op = "write", todo[k].key = a
          PROVE  \/ a \in DOMAIN r2.written
                 \/ \E i \in 1..Len(new) : new[i].op = "write" /\ new[i].key = a
      <3>1. CASE k = 1
        BY <1>2, <1>3, <2>2, <3>1 DEF Wrote
      <3>2. CASE k # 1
        <4>1. k \in 2..m /\ n + k - 1 \in 1..Len(new)
          BY <1>1, <2>2, <3>2
        <4>2. new[n + k - 1] = todo[k]
          BY <1>1, <4>1
        <4> QED BY <2>2, <4>1, <4>2
      <3> QED BY <3>1, <3>2
    <2> QED BY <2>1, <2>2 DEF Pending
  <1>5. ASSUME DOMAIN r2.written # {}, NEW i \in 1..Len(new) PROVE new[i].op # "read"
    <2>1. CASE i \in 1..n
      BY <1>1, <2>1 DEF Plain
    <2>2. CASE i \notin 1..n
      <3> PICK k : k = i - n + 1
        OBVIOUS
      <3>1. k \in 2..m /\ k \in 1..m /\ n + k - 1 = i
        BY <1>1, <1>5, <2>2
      <3>2. new[i] = todo[k]
        BY <1>1, <3>1
      <3>3. CASE DOMAIN r.written # {}
        BY <3>1, <3>2, <3>3 DEF Pending
      <3>4. CASE DOMAIN r.written = {}
        <4>1. s.op = "write"
          BY <1>3, <1>5, <3>4 DEF Wrote
        <4> QED BY <1>2, <3>1, <3>2, <4>1 DEF Orderly
      <3> QED BY <3>3, <3>4
    <2> QED BY <2>1, <2>2
  <1> QED BY <1>4, <1>5

-----------------------------------------------------------------------------
(* One request goes on, and the books stay as they are. *)

BInv == IInv /\ Books

LEMMA HonestAdvance ==
    ASSUME BInv, NEW c \in Clients, NEW r2, Honest(r2, table, opened, ledger),
           requests' = [requests EXCEPT ![c] = r2],
           UNCHANGED <<table, ledger, opened, effects>>
    PROVE  Books'
  <1>1. /\ requests'[c] = r2 /\ \A d \in Clients \ {c} : requests'[d] = requests[d]
    BY DEF BInv, IInv
  <1>2. \A d \in Clients : Honest(requests'[d], table', opened', ledger')
    BY <1>1 DEF BInv, Books
  <1>3. Exact'
    BY DEF BInv, Books, Exact
  <1> QED BY <1>2, <1>3 DEF BInv, Books

LEMMA HonestIdle == ASSUME NEW t, NEW o, NEW L PROVE Honest(Idle, t, o, L)
  <1> PICK none : none = Empty
    OBVIOUS
  <1>1. DOMAIN none = {}
    BY DEF Empty
  <1>2. /\ Idle.todo = <<>> /\ Idle.inserted = none /\ Idle.written = none
        /\ Idle.balance = none /\ Idle.effects = none /\ Idle.transfer = NoTransfer
    BY DEF Idle, Request
  <1>3. Len(<<>>) = 0
    OBVIOUS
  <1>4. \A i \in 1..Len(Idle.todo) : FALSE
    BY <1>2, <1>3
  <1> QED BY <1>1, <1>2, <1>4 DEF Honest, Orderly, Written, Pending, Explained

LEMMA RollbackHonest ==
    ASSUME BInv, NEW c \in Clients, Rollback(c), UNCHANGED <<table, ledger, opened, effects>>
    PROVE  Books'
  <1> PICK idle : idle = Idle
    OBVIOUS
  <1>1. Honest(idle, table, opened, ledger)
    BY HonestIdle
  <1>2. requests' = [requests EXCEPT ![c] = idle]
    BY DEF Rollback
  <1> QED BY <1>1, <1>2, HonestAdvance, Zenon

(* A request that begins has read and written nothing. *)
LEMMA BeginHonest ==
    ASSUME BInv, NEW c \in Clients, NEW statements, NEW transfer, Begin(c, statements, transfer),
           Orderly(statements, transfer),
           \/ transfer = NoTransfer
           \/ /\ transfer \in Orders /\ transfer.from # transfer.to
              /\ \A a \in {transfer.from, transfer.to} :
                   \E i \in 1..Len(statements) : statements[i].op = "write" /\ statements[i].key = a
    PROVE  Books'
  <1> PICK none, r2 : none = Empty /\ r2 = Request(statements, transfer)
    OBVIOUS
  <1>1. DOMAIN none = {}
    BY DEF Empty
  <1>2. /\ r2.todo = statements /\ r2.transfer = transfer /\ r2.inserted = none
        /\ r2.written = none /\ r2.balance = none /\ r2.effects = none
    BY DEF Request
  <1>3. Honest(r2, table, opened, ledger)
    BY <1>1, <1>2 DEF Honest, Written, Pending, Explained
  <1>4. requests' = [requests EXCEPT ![c] = r2] /\ UNCHANGED <<table, ledger, opened, effects>>
    BY DEF Begin
  <1> QED BY <1>3, <1>4, HonestAdvance, Zenon

LEMMA TransferHonest == ASSUME BInv, NEW c \in Clients, Transfer(c) PROVE Books'
  <1>1. PICK from \in Accounts, to \in Accounts, amount \in Amounts, user \in Customers \cup {None} :
          /\ from # to
          /\ Begin(c, TransferStatements(from, to, amount, user), Transferred(from, to, amount))
    BY DEF Transfer
  <1>0. PICK plan, transfer : /\ plan = TransferStatements(from, to, amount, user)
                              /\ transfer = Transferred(from, to, amount)
    BY Zenon
  <1>2. Begin(c, plan, transfer) /\ TransferPlan(plan, from, to, amount)
    BY <1>0, <1>1, TransferPlanned, Zenon
  <1>3. /\ transfer \in Orders /\ transfer # NoTransfer
        /\ transfer.from = from /\ transfer.to = to
        /\ Effect(transfer, from) = -amount /\ Effect(transfer, to) = amount
    <2>1. from # to /\ transfer = Transferred(from, to, amount)
      BY <1>0, <1>1
    <2> QED BY <2>1, EffectOf
  <1>4. 1..Len(plan) = {1, 2, 3, 4, 5, 6, 7} /\ Len(plan) = 7
    BY <1>2 DEF TransferPlan
  <1>5. ASSUME NEW i \in 1..Len(plan)
        PROVE  /\ plan[i].op = "commit" => i = 7
               /\ plan[i].op = "read" => i < 5
               /\ plan[i].op = "write" => i > 4 /\ Moves(plan[i], from, to, amount)
               /\ plan[i].op \notin {"delete", "insert", "enrol"}
               /\ plan[i].op = "find" => plan[i].key \in {from, to}
    BY <1>2, <1>4, <1>5 DEF TransferPlan, Moves
  <1>6. Orderly(plan, transfer)
    <2>1. ASSUME NEW i \in 1..Len(plan), plan[i].op = "write"
          PROVE  /\ plan[i].key \in {transfer.from, transfer.to}
                 /\ plan[i].value = Effect(transfer, plan[i].key)
                 /\ \A j \in i..Len(plan) : plan[j].op # "read"
      <3>1. i > 4 /\ Moves(plan[i], from, to, amount)
        BY <1>5, <2>1
      <3>2. \A j \in i..Len(plan) : j \in 1..Len(plan) /\ ~(j < 5)
        BY <1>4, <3>1
      <3> QED BY <1>3, <1>5, <3>1, <3>2 DEF Moves
    <2>2. \A i \in 1..Len(plan) : Within(plan[i], transfer)
      BY <1>3, <1>5 DEF Within
    <2> QED BY <1>3, <1>4, <1>5, <2>1, <2>2 DEF Orderly
  <1>7. /\ transfer \in Orders /\ transfer.from # transfer.to
        /\ \A a \in {transfer.from, transfer.to} :
             \E i \in 1..Len(plan) : plan[i].op = "write" /\ plan[i].key = a
    <2>1. 5 \in 1..Len(plan) /\ 6 \in 1..Len(plan)
      BY <1>4
    <2> QED BY <1>1, <1>2, <1>3, <2>1 DEF TransferPlan, Moves
  <1> QED BY <1>2, <1>6, <1>7, BeginHonest

LEMMA OthersHonest ==
    ASSUME BInv, NEW c \in Clients,
           Balance(c) \/ Login(c) \/ DropSession(c) \/ ViewAccount(c) \/ AddBeneficiary(c)
    PROVE  Books'
  <1> PICK plan : Transferless(plan) /\ Begin(c, plan, NoTransfer)
    BY OthersPlanned DEF BInv
  <1>1. Orderly(plan, NoTransfer)
    BY DEF Orderly, Transferless, Within
  <1> QED BY <1>1, BeginHonest

(* A statement has made r1 of the request, and the list goes on. *)
LEMMA StatementHonest ==
    ASSUME BInv, NEW c \in Clients, Running(c), NEW r, r = requests[c], NEW s, s = Current(c),
           NEW r1, DOMAIN r1 = Fields, r1.todo = r.todo, r1.transfer = r.transfer,
           Written(r1), Explained(r1, table, opened, ledger), Wrote(s, r, r1),
           NEW more \in Seq(Statements), Plain(more),
           \A i \in 1..Len(more) : Within(more[i], r.transfer),
           Continue(c, r1, more), UNCHANGED <<table, ledger, opened, effects>>
    PROVE  Books'
  <1> PICK r2 : r2 = [r1 EXCEPT !.todo = more \o Tail(@)]
    OBVIOUS
  <1>1. r.todo \in Seq(Statements) /\ r.todo # <<>> /\ s = Head(r.todo)
    BY Taken DEF BInv
  <1>2. /\ r2.todo = more \o Tail(r.todo) /\ r2.inserted = r1.inserted
        /\ r2.written = r1.written /\ r2.balance = r1.balance
        /\ r2.transfer = r.transfer /\ r2.effects = r1.effects
    BY DEF Fields
  <1>3. Honest(r, table, opened, ledger)
    BY DEF BInv, Books
  <1>4. Orderly(r2.todo, r2.transfer)
    <2> PICK todo, transfer, new : todo = r.todo /\ transfer = r.transfer /\ new = r2.todo
      OBVIOUS
    <2>1. Orderly(new, transfer)
      BY <1>1, <1>2, <1>3, OrderlyContinued DEF Honest
    <2> QED BY <1>2, <2>1
  <1>5. Wrote(s, r, r2)
    BY <1>2 DEF Wrote
  <1>6. Pending(r2)
    BY <1>1, <1>2, <1>3, <1>5, PendingContinued DEF Honest
  <1>7. Written(r2) /\ Explained(r2, table, opened, ledger)
    BY <1>2 DEF Written, Explained, Rows
  <1>8. Honest(r2, table, opened, ledger)
    BY <1>4, <1>6, <1>7 DEF Honest
  <1>9. requests' = [requests EXCEPT ![c] = r2]
    BY Zenon DEF Continue
  <1> QED BY <1>8, <1>9, HonestAdvance, Zenon

LEMMA ListHonest ==
    ASSUME BInv, NEW c \in Clients, Running(c), Current(c).op # "write",
           NEW more \in Seq(Statements), Plain(more),
           \A i \in 1..Len(more) : Within(more[i], requests[c].transfer),
           Continue(c, requests[c], more), UNCHANGED <<table, ledger, opened, effects>>
    PROVE  Books'
  <1> PICK r, s : r = requests[c] /\ s = Current(c)
    OBVIOUS
  <1>1. DOMAIN r = Fields /\ Written(r) /\ Explained(r, table, opened, ledger)
    BY DEF BInv, IInv, Sound, Done, Books, Honest
  <1>2. Wrote(s, r, r)
    BY DEF Wrote
  <1> QED BY <1>1, <1>2, StatementHonest, Zenon

-----------------------------------------------------------------------------
(* The statements keep the books. *)

LEMMA NoneMore ==
    <<>> \in Seq(Statements) /\ Plain(<<>>) /\ \A x : \A i \in 1..Len(<<>>) : Within(<<>>[i], x)
  <1> PICK more : more = <<>>
    OBVIOUS
  <1>1. more \in Seq(Statements) /\ Len(more) = 0 /\ 1..0 = {}
    OBVIOUS
  <1> QED BY <1>1 DEF Plain

(* What a request in process is known to be. *)
LEMMA Known ==
    ASSUME BInv, NEW c \in Clients, NEW r, r = requests[c]
    PROVE  /\ DOMAIN r = Fields /\ Done(r, table)
           /\ Orderly(r.todo, r.transfer) /\ Written(r) /\ Pending(r) /\ Explained(r, table, opened, ledger)
           /\ Running(c) => /\ r.todo \in Seq(Statements) /\ 1 \in 1..Len(r.todo)
                            /\ Current(c) = r.todo[1] /\ Typed(Current(c))
  <1>1. Sound(r, table) /\ Honest(r, table, opened, ledger)
    BY DEF BInv, IInv, Books
  <1>2. ASSUME Running(c)
        PROVE  /\ r.todo \in Seq(Statements) /\ 1 \in 1..Len(r.todo)
               /\ Current(c) = r.todo[1] /\ Typed(Current(c))
    <2>1. r.todo \in Seq(Statements) /\ r.todo # <<>>
      BY <1>1, <1>2 DEF Sound, Running
    <2>2. 1 \in 1..Len(r.todo) /\ Current(c) = r.todo[1]
      BY <2>1 DEF Current
    <2> QED BY <1>1, <2>1, <2>2 DEF Sound
  <1> QED BY <1>1, <1>2 DEF Sound, Done, Honest

(* A lookup opens what it was about, or the owner. *)
LEMMA LookupWithin ==
    ASSUME BInv, NEW c \in Clients, Lookup(c)
    PROVE  \E more \in Seq(Statements) :
              /\ Plain(more) /\ \A i \in 1..Len(more) : Within(more[i], requests[c].transfer)
              /\ Continue(c, requests[c], more)
  <1> PICK s, x : s = Current(c) /\ x = requests[c].transfer
    OBVIOUS
  <1>1. Running(c) /\ (s.op = "find" \/ s.op = "owner" \/ s.op = "enrol")
    BY DEF Lookup, At
  <1>2. Typed(s) /\ Within(s, x)
    BY <1>1, Known DEF Orderly
  <1>3. PICK more \in Seq(Statements) :
          /\ Plain(more) /\ Continue(c, requests[c], more)
          /\ \A i \in 1..Len(more) : LookedUp(s, more[i])
    BY LookupContinues DEF BInv
  <1>4. ASSUME NEW i \in 1..Len(more) PROVE Within(more[i], x)
    BY <1>2, <1>3, <1>4, NamesAssumption DEF LookedUp, Within, Typed
  <1> QED BY <1>3, <1>4

LEMMA LookupHonest == ASSUME BInv, NEW c \in Clients, Lookup(c) PROVE Books'
  <1> PICK more \in Seq(Statements) :
        /\ Plain(more) /\ \A i \in 1..Len(more) : Within(more[i], requests[c].transfer)
        /\ Continue(c, requests[c], more)
    BY LookupWithin
  <1>1. /\ Current(c).op # "write" /\ Running(c) /\ UNCHANGED <<table, ledger, opened, effects>>
    BY DEF Lookup, At
  <1> QED BY <1>1, ListHonest

LEMMA ReferHonest == ASSUME BInv, NEW c \in Clients, ReferToCustomer(c) PROVE Books'
  <1> PICK more : more = <<>>
    OBVIOUS
  <1>1. /\ Current(c).op # "write" /\ Running(c) /\ UNCHANGED <<table, ledger, opened, effects>>
    BY DEF ReferToCustomer, At
  <1>2. Continue(c, requests[c], more) \/ Rollback(c)
    BY DEF ReferToCustomer
  <1> QED BY <1>1, <1>2, NoneMore, ListHonest, RollbackHonest

LEMMA RowHonest ==
    ASSUME BInv, NEW c \in Clients, Running(c), NEW r, r = requests[c], NEW s, s = Current(c),
           ~Visible(c, s.key), s.key \in Keys, s.op # "write", s.key \in Accounts => s.op = "insert",
           NEW r1, r1 = WithRow(r, s.key, s.value),
           NEW more, more = <<>>, Continue(c, r1, more),
           UNCHANGED <<table, ledger, opened, effects>>
    PROVE  Books'
  <1>1. DOMAIN r = Fields /\ Written(r) /\ Explained(r, table, opened, ledger)
    BY Known
  <1>2. /\ DOMAIN r1 = Fields /\ r1.todo = r.todo /\ r1.written = r.written
        /\ r1.balance = r.balance /\ DOMAIN r1.inserted = DOMAIN r.inserted \cup {s.key}
        /\ \A k \in DOMAIN r.inserted \ {s.key} : r1.inserted[k] = r.inserted[k]
    BY <1>1, NewRow
  <1>3. r1.transfer = r.transfer /\ r1.effects = r.effects
    BY <1>1 DEF Fields, WithRow
  <1>4. s.key \notin DOMAIN r.balance
    BY <1>1 DEF Explained, Rows, Visible
  <1>8. r.transfer # NoTransfer /\ s.key \in Accounts => s.key \in {r.transfer.from, r.transfer.to}
    BY Known DEF Orderly, Within
  <1>5. Written(r1) /\ Wrote(s, r, r1)
    BY <1>1, <1>2, <1>3, <1>8 DEF Written, Wrote
  <1>6. Explained(r1, table, opened, ledger)
    BY <1>1, <1>2, <1>3, <1>4 DEF Explained, Rows
  <1>7. more \in Seq(Statements) /\ Plain(more) /\ \A i \in 1..Len(more) : Within(more[i], r.transfer)
    BY NoneMore
  <1> QED BY <1>2, <1>3, <1>5, <1>6, <1>7, StatementHonest, Zenon

LEMMA InsertHonest == ASSUME BInv, NEW c \in Clients, InsertRow(c) PROVE Books'
  <1> PICK r, s, more : r = requests[c] /\ s = Current(c) /\ more = <<>>
    OBVIOUS
  <1>1. /\ Running(c) /\ s.op = "insert" /\ UNCHANGED <<table, ledger, opened, effects>>
    BY DEF InsertRow, At
  <1>2. CASE Rejected(c, s.key)
    <2>1. Rollback(c)
      BY <1>2 DEF InsertRow
    <2> QED BY <1>1, <2>1, RollbackHonest
  <1>3. CASE ~Rejected(c, s.key)
    <2> PICK r1 : r1 = WithRow(r, s.key, s.value)
      OBVIOUS
    <2>1. Continue(c, r1, more)
      BY <1>3 DEF InsertRow
    <2>2. ~Visible(c, s.key) /\ s.key \in Keys
      BY <1>1, <1>3, Known DEF Rejected, Typed
    <2> QED BY <1>1, <2>1, <2>2, RowHonest
  <1> QED BY <1>2, <1>3

LEMMA ClaimHonest == ASSUME BInv, NEW c \in Clients, ClaimDevice(c) PROVE Books'
  <1> PICK r, s, more : r = requests[c] /\ s = Current(c) /\ more = <<>>
    OBVIOUS
  <1>1. /\ Running(c) /\ s.op = "claim" /\ UNCHANGED <<table, ledger, opened, effects>>
    BY DEF ClaimDevice, At
  <1>2. s.key \in Keys /\ s.key \notin Accounts
    BY <1>1, Known, NamesAssumption DEF Typed, Keys
  <1>3. CASE ~Unclaimed(c, s.key)
    <2>1. Continue(c, r, more)
      BY <1>3 DEF ClaimDevice
    <2> QED BY <1>1, <2>1, NoneMore, ListHonest
  <1>4. CASE Unclaimed(c, s.key)
    <2> PICK r1 : r1 = WithRow(r, s.key, s.value)
      OBVIOUS
    <2>1. Continue(c, r1, more)
      BY <1>4 DEF ClaimDevice
    <2>2. ~Visible(c, s.key)
      BY <1>4 DEF Unclaimed
    <2> QED BY <1>1, <1>2, <2>1, <2>2, RowHonest
  <1> QED BY <1>3, <1>4

(* The session deleted is no account. *)
LEMMA DeleteHonest == ASSUME BInv, NEW c \in Clients, DeleteSession(c) PROVE Books'
  <1> PICK r, s, more : r = requests[c] /\ s = Current(c) /\ more = <<>>
    OBVIOUS
  <1>1. /\ Running(c) /\ s.op = "delete" /\ UNCHANGED <<table, ledger, opened, effects>>
    BY DEF DeleteSession, At
  <1>2. /\ s.key \notin Accounts /\ r.transfer = NoTransfer
        /\ DOMAIN r = Fields /\ Explained(r, table, opened, ledger)
    BY <1>1, Known, NamesAssumption DEF Typed, Orderly
  <1>3. CASE ~Visible(c, s.key)
    <2>1. Continue(c, r, more)
      BY <1>3 DEF DeleteSession
    <2> QED BY <1>1, <2>1, NoneMore, ListHonest
  <1>4. CASE Visible(c, s.key)
    <2> PICK r1 : r1 = [r EXCEPT !.written = [k \in {s.key} |-> None]]
      OBVIOUS
    <2>1. Continue(c, r1, more)
      BY <1>4 DEF DeleteSession
    <2>2. /\ DOMAIN r1 = Fields /\ r1.todo = r.todo /\ r1.inserted = r.inserted
          /\ r1.balance = r.balance /\ DOMAIN r1.written = {s.key}
          /\ r1.transfer = r.transfer /\ r1.effects = r.effects
      BY <1>2 DEF Fields
    <2>3. Written(r1) /\ Explained(r1, table, opened, ledger) /\ Wrote(s, r, r1)
      BY <1>1, <1>2, <2>2 DEF Written, Explained, Wrote, Rows
    <2>4. more \in Seq(Statements) /\ Plain(more) /\ \A i \in 1..Len(more) : Within(more[i], r.transfer)
      BY NoneMore
    <2> QED BY <1>1, <2>1, <2>2, <2>3, <2>4, StatementHonest
  <1> QED BY <1>3, <1>4

(* Nothing is written yet when a balance is read.                          *)
LEMMA ReadHonest == ASSUME BInv, NEW c \in Clients, ReadBalance(c) PROVE Books'
  <1> PICK r, s, more : r = requests[c] /\ s = Current(c) /\ more = <<>>
    OBVIOUS
  <1> PICK a, value : a = s.key /\ value = IF s.key \in DOMAIN r.inserted
                                           THEN r.inserted[s.key] ELSE table[s.key]
    OBVIOUS
  <1>1. Running(c) /\ s.op = "read" /\ UNCHANGED <<table, ledger, opened, effects>>
    BY DEF ReadBalance, At
  <1>2. a \in Accounts /\ a \in Rows(r, table)
    BY <1>1, Taken, InHand DEF Typed, BInv
  <1>3. /\ DOMAIN r = Fields /\ Written(r) /\ Pending(r) /\ Explained(r, table, opened, ledger)
        /\ 1 \in 1..Len(r.todo) /\ r.todo[1].op = "read"
    BY <1>1, Known
  <1>4. r.transfer # NoTransfer => DOMAIN r.written = {}
    BY <1>3 DEF Pending
  <1> PICK r1 : r1 = [r EXCEPT
                !.balance = [k \in DOMAIN @ \cup {a} |-> IF k = a THEN value ELSE @[k]],
                !.effects = [k \in DOMAIN @ \cup {a} |-> IF k = a THEN effects[a] ELSE @[k]]]
    OBVIOUS
  <1>5. Continue(c, r1, more)
    BY DEF ReadBalance
  <1>6. /\ DOMAIN r1 = Fields /\ r1.todo = r.todo /\ r1.inserted = r.inserted
        /\ r1.written = r.written /\ r1.transfer = r.transfer
        /\ r1.balance = [k \in DOMAIN r.balance \cup {a} |-> IF k = a THEN value ELSE r.balance[k]]
        /\ r1.effects = [k \in DOMAIN r.effects \cup {a} |->
                                IF k = a THEN effects[a] ELSE r.effects[k]]
    BY <1>3 DEF Fields
  <1>7. Written(r1) /\ Wrote(s, r, r1)
    BY <1>1, <1>3, <1>4, <1>6 DEF Written, Wrote
  <1>8. IF a \in DOMAIN r.inserted THEN effects[a] = {}
        ELSE table[a] # None /\ Tallies(table[a], opened[a], ledger, effects[a], a)
    <2>1. Done(r, table)
      BY Known
    <2> QED BY <1>2, <2>1 DEF Done, Rows, BInv, Books, Exact
  <1>9. Explained(r1, table, opened, ledger)
    <2>1. ASSUME NEW k \in DOMAIN r1.balance
          PROVE  IF k \in DOMAIN r1.inserted THEN r1.balance[k] = r1.inserted[k] /\ r1.effects[k] = {}
                 ELSE Tallies(r1.balance[k], opened[k], ledger, r1.effects[k], k)
      <3>0. DOMAIN r.effects = DOMAIN r.balance
        BY <1>3 DEF Explained
      <3>1. CASE k = a
        <4>1. r1.balance[a] = value /\ r1.effects[a] = effects[a]
          BY <1>6, <3>0
        <4> QED BY <1>6, <1>8, <3>1, <4>1
      <3>2. CASE k # a
        <4>1. k \in DOMAIN r.balance /\ r1.balance[k] = r.balance[k] /\ r1.effects[k] = r.effects[k]
          BY <1>6, <2>1, <3>0, <3>2
        <4> QED BY <1>3, <1>6, <4>1 DEF Explained
      <3> QED BY <3>1, <3>2
    <2>2. /\ DOMAIN r1.effects = DOMAIN r1.balance
          /\ DOMAIN r1.balance \subseteq Accounts \cap Rows(r1, table)
      BY <1>2, <1>3, <1>6 DEF Explained, Rows
    <2> QED BY <2>1, <2>2 DEF Explained
  <1>10. more \in Seq(Statements) /\ Plain(more) /\ \A i \in 1..Len(more) : Within(more[i], r.transfer)
    BY NoneMore
  <1>11. /\ DOMAIN r1 = Fields /\ r1.todo = r.todo /\ r1.transfer = r.transfer
         /\ Running(c) /\ UNCHANGED <<table, ledger, opened, effects>>
    BY <1>1, <1>6
  <1> QED BY <1>5, <1>7, <1>9, <1>10, <1>11, StatementHonest

(* The transfer's own amount is added to what was read. *)
LEMMA WriteHonest == ASSUME BInv, NEW c \in Clients, WriteBalance(c) PROVE Books'
  <1> PICK r, s, more : r = requests[c] /\ s = Current(c) /\ more = <<>>
    OBVIOUS
  <1> PICK a : a = s.key
    OBVIOUS
  <1>1. Running(c) /\ s.op = "write" /\ UNCHANGED <<table, ledger, opened, effects>>
    BY DEF WriteBalance, At
  <1>2. a \in DOMAIN r.balance
    BY <1>1, Taken, InHand DEF BInv
  <1>3. /\ DOMAIN r = Fields /\ Written(r) /\ Explained(r, table, opened, ledger)
        /\ r.transfer # NoTransfer /\ a \in {r.transfer.from, r.transfer.to}
        /\ s.value = Effect(r.transfer, a)
    BY <1>1, Known DEF Orderly
  <1>4. PICK cents \in Rounded(Sum(r.balance[a] * Parts, s.value)) :
          Continue(c, [r EXCEPT !.written =
              [k \in DOMAIN @ \cup {a} |-> IF k = a THEN cents ELSE @[k]]], more)
    BY DEF WriteBalance
  <1> PICK r1 : r1 = [r EXCEPT !.written =
                        [k \in DOMAIN @ \cup {a} |-> IF k = a THEN cents ELSE @[k]]]
    OBVIOUS
  <1>5. /\ DOMAIN r1 = Fields /\ r1.todo = r.todo /\ r1.inserted = r.inserted
        /\ r1.balance = r.balance /\ r1.transfer = r.transfer /\ r1.effects = r.effects
        /\ r1.written = [k \in DOMAIN r.written \cup {a} |->
                            IF k = a THEN cents ELSE r.written[k]]
    BY <1>3 DEF Fields
  <1>6. Written(r1) /\ Wrote(s, r, r1)
    <2>1. cents \in Rounded(Sum(r.balance[a] * Parts, Effect(r.transfer, a)))
      BY <1>3, <1>4
    <2> QED BY <1>1, <1>2, <1>3, <1>5, <2>1 DEF Written, Wrote
  <1>7. Explained(r1, table, opened, ledger)
    BY <1>3, <1>5 DEF Explained, Rows
  <1>8. more \in Seq(Statements) /\ Plain(more) /\ \A i \in 1..Len(more) : Within(more[i], r.transfer)
    BY NoneMore
  <1> QED BY ZenonT(60), <1>1, <1>4, <1>5, <1>6, <1>7, <1>8, StatementHonest

-----------------------------------------------------------------------------
(* The commit. *)

(* What a request commits, with entry e if it transfers. *)
Committed(r, e) ==
    /\ table' = [k \in Keys |-> IF k \in DOMAIN r.written THEN r.written[k]
                                ELSE IF k \in DOMAIN r.inserted THEN r.inserted[k] ELSE table[k]]
    /\ ledger' = IF r.transfer = NoTransfer THEN ledger ELSE Append(ledger, e)
    /\ opened' = [a \in Accounts |-> IF a \in DOMAIN r.inserted THEN r.inserted[a] ELSE opened[a]]
    /\ effects' = [a \in Accounts |->
                     IF a \in DOMAIN r.written THEN r.effects[a] \cup {Len(ledger')} ELSE effects[a]]

(* The entry is the transfer's, rounded. *)
EntryOf(r, e) ==
    r.transfer # NoTransfer => \E cents \in Rounded(r.transfer.amount) : e = Entry(r.transfer, cents)

(* At its commit a transfer has written both accounts. *)
Complete(r) ==
    r.transfer # NoTransfer => r.transfer.from \in DOMAIN r.written /\ r.transfer.to \in DOMAIN r.written

LEMMA CommitComplete ==
    ASSUME BInv, NEW c \in Clients, At(c, "commit"), NEW r, r = requests[c]
    PROVE  Complete(r)
  <1>1. /\ Orderly(r.todo, r.transfer) /\ Pending(r) /\ r.todo \in Seq(Statements)
        /\ 1 \in 1..Len(r.todo) /\ r.todo[1].op = "commit"
    BY Known DEF At
  <1>2. Len(r.todo) = 1
    BY <1>1 DEF Orderly
  <1>3. \A i \in 1..Len(r.todo) : r.todo[i].op # "write"
    BY <1>1, <1>2
  <1> QED BY <1>1, <1>3 DEF Pending, Complete

LEMMA OrderFacts == \A x \in Orders : x.from \in Accounts /\ x.to \in Accounts /\ x.amount \in Int
  <1>1. \A n \in Amounts : n \in Int
    BY BoundsAssumption
  <1> QED BY <1>1 DEF Orders

(* What is written adds the entry to what was read, but for a cent. *)
Settled(b, w, e, a) ==
    /\ w \in Int /\ e \in Entries
    /\ w - b - Effect(e, a) \in -1..1 /\ (e.whole => w - b - Effect(e, a) = 0)

LEMMA EntrySettles ==
    ASSUME NEW x \in Orders, x.from # x.to, NEW cents \in Rounded(x.amount),
           NEW e, e = Entry(x, cents), NEW a \in {x.from, x.to}, NEW b \in Int,
           NEW w \in Rounded(Sum(b * Parts, Effect(x, a)))
    PROVE  Settled(b, w, e, a)
  <1> PICK n : n = x.amount
    OBVIOUS
  <1>1. x.from \in Accounts /\ x.to \in Accounts /\ n \in Int /\ cents \in Rounded(n)
    BY OrderFacts
  <1>2. cents \in Int
    BY <1>1, RoundedInt
  <1>3. /\ e.from = x.from /\ e.to = x.to /\ e.amount = cents /\ e.whole = Whole(n)
        /\ e \in Entries
    BY <1>1, <1>2 DEF Entry, Entries, Whole
  <1>4. PICK sign \in {1, -1} : Effect(x, a) = sign * n /\ Effect(e, a) = sign * cents
    <2>1. CASE a = x.to
      <3>1. Effect(x, a) = 1 * n /\ Effect(e, a) = 1 * cents
        BY <1>1, <1>2, <1>3, <2>1 DEF Effect
      <3> QED BY <3>1
    <2>2. CASE a = x.from
      <3> PICK sign : sign = -1
        OBVIOUS
      <3>1. Effect(x, a) = -n /\ Effect(e, a) = -cents
        BY <1>1, <1>2, <1>3, <2>2 DEF Effect
      <3>2. sign \in {1, -1} /\ sign * n = -n /\ sign * cents = -cents
        BY <1>1, <1>2
      <3> QED BY <3>1, <3>2
    <2> QED BY <2>1, <2>2
  <1>5. w \in Rounded(Sum(b * Parts, sign * n))
    BY <1>4
  <1>6. /\ w \in Int /\ w - b - sign * cents \in -1..1
        /\ Whole(n) => w - b - sign * cents = 0
    BY ZenonT(60), <1>1, <1>5, RoundedClose
  <1> QED BY <1>3, <1>4, <1>6 DEF Settled

(* An account that the transfer writes. *)
LEMMA WrittenExact ==
    ASSUME BInv, NEW c \in Clients, NEW r, r = requests[c], NEW e, EntryOf(r, e), Committed(r, e),
           r.transfer # NoTransfer, NEW a \in Accounts, a \in DOMAIN r.written
    PROVE  /\ table'[a] = r.written[a] /\ r.written[a] \in Int /\ table'[a] # None
           /\ a \in DOMAIN r.balance /\ Settled(r.balance[a], r.written[a], e, a)
           /\ Tallies(table'[a], opened'[a], ledger', effects'[a], a)
  <1>1. Written(r) /\ Done(r, table) /\ Explained(r, table, opened, ledger)
    BY Known
  <1> PICK x, b, w, S, o, L, L2 :
        /\ x = r.transfer /\ b = r.balance[a] /\ w = r.written[a] /\ S = r.effects[a]
        /\ o = opened'[a] /\ L = ledger /\ L2 = ledger'
    BY Zenon
  <1>2. /\ x \in Orders /\ x.from # x.to /\ a \in {x.from, x.to} /\ a \in DOMAIN r.balance
        /\ b \in Int /\ w \in Rounded(Sum(b * Parts, Effect(x, a)))
    BY <1>1 DEF Written, Done
  <1>3. PICK cents \in Rounded(x.amount) : e = Entry(x, cents)
    BY DEF EntryOf
  <1>4. Settled(b, w, e, a)
    BY <1>2, <1>3, EntrySettles
  <1>5. /\ a \in Keys /\ L \in Seq(Entries) /\ e \in Entries /\ L2 = Append(L, e)
        /\ None \notin Int
    BY <1>4, NamesAssumption DEF Committed, BInv, Books, Settled, Keys
  <1>6. table'[a] = w /\ effects'[a] = S \cup {Len(L2)}
    BY <1>5 DEF Committed
  <1>7. Tallies(b, o, L, S, a)
    <2>1. CASE a \in DOMAIN r.inserted
      <3>1. S = {} /\ o = b
        BY <1>1, <1>2, <2>1 DEF Explained, Committed
      <3> QED BY <1>2, <1>5, <3>1, TalliesNone
    <2>2. CASE a \notin DOMAIN r.inserted
      <3>1. o = opened[a]
        BY <2>2 DEF Committed
      <3> QED BY <1>1, <1>2, <2>2, <3>1 DEF Explained
    <2> QED BY <2>1, <2>2
  <1>8. Tallies(w, o, L2, S \cup {Len(L2)}, a)
    BY <1>4, <1>5, <1>7, TalliesMore DEF Settled
  <1>9. w \in Int
    BY <1>4 DEF Settled
  <1> QED BY <1>2, <1>4, <1>5, <1>6, <1>8, <1>9

(* The transactions table grows by the entry, if at all. *)
LEMMA LedgerCommitted ==
    ASSUME BInv, NEW c \in Clients, NEW r, r = requests[c], NEW e, EntryOf(r, e), Committed(r, e)
    PROVE  /\ ledger \in Seq(Entries) /\ ledger' \in Seq(Entries)
           /\ ledger' = ledger \/ (e \in Entries /\ ledger' = Append(ledger, e))
  <1>1. ledger \in Seq(Entries) /\ Written(r)
    BY Known DEF BInv, Books
  <1>2. CASE r.transfer = NoTransfer
    BY <1>1, <1>2 DEF Committed
  <1>3. CASE r.transfer # NoTransfer
    <2>1. r.transfer \in Orders
      BY <1>1, <1>3 DEF Written
    <2>2. PICK cents \in Rounded(r.transfer.amount) : e = Entry(r.transfer, cents)
      BY <1>3 DEF EntryOf
    <2>3. cents \in Int
      BY <2>1, <2>2, OrderFacts, RoundedInt
    <2>4. e \in Entries
      BY <2>1, <2>2, <2>3, OrderFacts DEF Entry, Entries, Whole
    <2> QED BY <1>1, <1>3, <2>4 DEF Committed
  <1> QED BY <1>2, <1>3

(* What was explained stays so when the table grows. *)
LEMMA StillTallies ==
    ASSUME BInv, NEW c \in Clients, NEW r, r = requests[c], NEW e, EntryOf(r, e), Committed(r, e),
           NEW b, NEW o, NEW S, NEW a, Tallies(b, o, ledger, S, a)
    PROVE  Tallies(b, o, ledger', S, a)
  <1> PICK L, L2 : L = ledger /\ L2 = ledger'
    OBVIOUS
  <1>1. L \in Seq(Entries) /\ (L2 = L \/ (e \in Entries /\ L2 = Append(L, e)))
    BY LedgerCommitted
  <1>2. Tallies(b, o, L2, S, a)
    BY <1>1, TalliesStay
  <1> QED BY <1>2

LEMMA AccountExact ==
    ASSUME BInv, NEW c \in Clients, NEW r, r = requests[c], NEW e, EntryOf(r, e), Committed(r, e),
           NEW a \in Accounts
    PROVE  /\ table'[a] = None => effects'[a] = {}
           /\ table'[a] # None => Tallies(table'[a], opened'[a], ledger', effects'[a], a)
  <1>1. Written(r) /\ Done(r, table)
    BY Known
  <1>2. /\ table[a] = None => effects[a] = {}
        /\ table[a] # None => Tallies(table[a], opened[a], ledger, effects[a], a)
    BY DEF BInv, Books, Exact
  <1>3. CASE a \in DOMAIN r.written
    <2>1. r.transfer # NoTransfer
      BY <1>1, <1>3 DEF Written
    <2> QED BY <1>3, <2>1, WrittenExact
  <1>4. CASE a \notin DOMAIN r.written /\ a \in DOMAIN r.inserted
    <2>1. /\ table'[a] = r.inserted[a] /\ opened'[a] = r.inserted[a] /\ r.inserted[a] \in Int
          /\ effects'[a] = {}
      BY <1>1, <1>2, <1>4 DEF Committed, Done, Keys
    <2>2. ledger' \in Seq(Entries) /\ None \notin Int
      BY LedgerCommitted, NamesAssumption
    <2>3. Tallies(r.inserted[a], r.inserted[a], ledger', {}, a)
      BY <2>1, <2>2, TalliesNone
    <2> QED BY <2>1, <2>2, <2>3
  <1>5. CASE a \notin DOMAIN r.written /\ a \notin DOMAIN r.inserted
    <2>1. table'[a] = table[a] /\ opened'[a] = opened[a] /\ effects'[a] = effects[a]
      BY <1>5 DEF Committed, Keys
    <2> QED BY <1>2, <2>1, StillTallies
  <1> QED BY <1>3, <1>4, <1>5

(* What the others have read is still explained. *)
LEMMA OthersExplained ==
    ASSUME BInv, NEW c \in Clients, NEW r, r = requests[c], NEW e, EntryOf(r, e), Committed(r, e),
           NEW d \in Clients, NEW q, q = requests[d]
    PROVE  Explained(q, table', opened', ledger')
  <1>1. Explained(q, table, opened, ledger) /\ Done(r, table)
    BY Known
  <1>2. ASSUME NEW a \in DOMAIN q.balance
        PROVE  /\ a \in Accounts \cap Rows(q, table')
               /\ IF a \in DOMAIN q.inserted THEN q.balance[a] = q.inserted[a] /\ q.effects[a] = {}
                  ELSE Tallies(q.balance[a], opened'[a], ledger', q.effects[a], a)
    <2>1. a \in Accounts /\ a \in Keys /\ a \in Rows(q, table)
      BY <1>1 DEF Explained, Keys
    <2>2. table'[a] = IF a \in DOMAIN r.written THEN r.written[a]
                      ELSE IF a \in DOMAIN r.inserted THEN r.inserted[a] ELSE table[a]
      BY <2>1 DEF Committed
    <2>3. table[a] # None => table'[a] # None
      BY <1>1, <2>1, <2>2, NamesAssumption DEF Done
    <2>4. a \in Rows(q, table')
      BY <2>1, <2>3 DEF Rows
    <2>5. CASE a \in DOMAIN q.inserted
      BY <1>1, <2>1, <2>4, <2>5 DEF Explained
    <2>6. CASE a \notin DOMAIN q.inserted
      <3>1. table[a] # None
        BY <2>1, <2>6 DEF Rows
      <3>2. opened'[a] = opened[a]
        BY <1>1, <2>1, <3>1 DEF Committed, Done
      <3>3. Tallies(q.balance[a], opened[a], ledger, q.effects[a], a)
        BY <1>1, <2>6 DEF Explained
      <3>4. Tallies(q.balance[a], opened[a], ledger', q.effects[a], a)
        BY <3>3, StillTallies
      <3> QED BY <2>1, <2>4, <2>6, <3>2, <3>4
    <2> QED BY <2>5, <2>6
  <1> QED BY <1>1, <1>2 DEF Explained

LEMMA CommitIs ==
    ASSUME NEW c \in Clients, CommitRequest(c), NEW r, r = requests[c]
    PROVE  \E e : EntryOf(r, e) /\ Committed(r, e)
  <1>1. CASE r.transfer = NoTransfer
    BY <1>1 DEF CommitRequest, EntryOf, Committed
  <1>2. CASE r.transfer # NoTransfer
    <2>1. PICK cents \in Rounded(r.transfer.amount) : ledger' = Append(ledger, Entry(r.transfer, cents))
      BY <1>2 DEF CommitRequest
    <2> PICK e : e = Entry(r.transfer, cents)
      OBVIOUS
    <2>2. EntryOf(r, e) /\ ledger' = Append(ledger, e)
      BY <2>1 DEF EntryOf
    <2> QED BY <1>2, <2>2 DEF CommitRequest, Committed
  <1> QED BY <1>1, <1>2

LEMMA CommitHonest == ASSUME BInv, NEW c \in Clients, CommitRequest(c) PROVE Books'
  <1> PICK r, idle : r = requests[c] /\ idle = Idle
    OBVIOUS
  <1>1. PICK e : EntryOf(r, e) /\ Committed(r, e)
    BY CommitIs
  <1>2. requests' = [requests EXCEPT ![c] = idle]
    BY DEF CommitRequest
  <1>3. Exact'
    BY <1>1, AccountExact DEF Exact
  <1>4. ledger' \in Seq(Entries)
    BY <1>1, LedgerCommitted
  <1>5. /\ requests'[c] = idle /\ \A d \in Clients \ {c} : requests'[d] = requests[d]
    BY <1>2 DEF BInv, IInv
  <1>6. Honest(idle, table', opened', ledger')
    BY HonestIdle
  <1>7. ASSUME NEW d \in Clients \ {c} PROVE Honest(requests[d], table', opened', ledger')
    <2>1. Honest(requests[d], table, opened, ledger)
      BY DEF BInv, Books
    <2>2. Explained(requests[d], table', opened', ledger')
      BY <1>1, OthersExplained
    <2> QED BY <2>1, <2>2 DEF Honest
  <1>8. \A d \in Clients : Honest(requests'[d], table', opened', ledger')
    BY <1>5, <1>6, <1>7
  <1> QED BY <1>3, <1>4, <1>8 DEF Books

LEMMA InitBooks == ASSUME Init PROVE BInv
  <1> PICK idle, L : idle = Idle /\ L = <<>>
    OBVIOUS
  <1>1. requests = [c \in Clients |-> idle] /\ Honest(idle, table, opened, ledger)
    BY HonestIdle DEF Init
  <1>2. L \in Seq(Entries) /\ ledger = L
    BY DEF Init
  <1>3. ASSUME NEW a \in Accounts
        PROVE  effects[a] = {} /\ (table[a] # None => Tallies(table[a], opened[a], L, {}, a))
    <2>1. effects[a] = {} /\ opened[a] = table[a] /\ table[a] \in {0, None}
      BY DEF Init, Initially, Keys
    <2>2. Tallies(0, 0, L, {}, a)
      <3>1. 0 \in Int
        OBVIOUS
      <3> QED BY <1>2, <3>1, TalliesNone, Zenon
    <2> QED BY <2>1, <2>2
  <1>4. Exact
    BY <1>2, <1>3 DEF Exact
  <1> QED BY <1>1, <1>2, <1>4, InitSound DEF BInv, Books

LEMMA StepBooks == ASSUME BInv, [Next]_vars PROVE BInv'
  <1>1. IInv'
    BY StepKeeps DEF BInv
  <1>2. CASE Next
    <2> PICK c \in Clients : \/ Transfer(c) \/ Balance(c) \/ Login(c) \/ AddBeneficiary(c)
                             \/ DropSession(c) \/ ViewAccount(c)
                             \/ Step(c) \/ Fail(c)
      BY <1>2 DEF Next
    <2>1. CASE Transfer(c)
      BY <1>1, <2>1, TransferHonest DEF BInv
    <2>2. CASE Balance(c) \/ Login(c) \/ AddBeneficiary(c) \/ DropSession(c) \/ ViewAccount(c)
      BY <1>1, <2>2, OthersHonest DEF BInv
    <2>3. CASE Fail(c) \/ BreakDeadlock(c)
      BY <1>1, <2>3, RollbackHonest DEF Fail, BreakDeadlock, BInv
    <2>4. CASE CommitRequest(c)
      BY <1>1, <2>4, CommitHonest DEF BInv
    <2>5. CASE \/ Lookup(c) \/ InsertRow(c) \/ ReadBalance(c) \/ WriteBalance(c)
               \/ ClaimDevice(c) \/ ReferToCustomer(c) \/ DeleteSession(c)
      BY <1>1, <2>5, LookupHonest, InsertHonest, ReadHonest, WriteHonest, ClaimHonest, ReferHonest,
         DeleteHonest DEF BInv
    <2> QED BY <2>1, <2>2, <2>3, <2>4, <2>5 DEF Step
  <1>3. CASE UNCHANGED vars
    BY <1>1, <1>3 DEF vars, BInv, Books, Exact
  <1> QED BY <1>2, <1>3

(* execute_transfer's two balances and its entry: whatever fails,          *)
(* deadlocks, is opened twice or read too early, a balance is what the     *)
(* account was opened with and the entries it contains, to a cent for each *)
(* of them that was not of whole cents.                                    *)
THEOREM LedgerIsExact == Spec => []LedgerExact
  <1>1. Init => BInv
    BY InitBooks
  <1>2. BInv /\ [Next]_vars => BInv'
    BY StepBooks
  <1>3. BInv => LedgerExact
    <2> SUFFICES ASSUME BInv, NEW a \in Accounts, table[a] # None
                 PROVE  LET off == Cardinality({n \in effects[a] : ~ledger[n].whole})
                        IN  table[a] - opened[a] - Net(effects[a], a) \in -off..off
      BY DEF LedgerExact
    <2>1. Tallies(table[a], opened[a], ledger, effects[a], a)
      BY DEF BInv, Books, Exact
    <2>2. Net(effects[a], a) = NetIn(ledger, effects[a], a)
      BY Zenon DEF Net, NetIn
    <2> QED BY <2>1, <2>2 DEF Tallies, Lossy
  <1> QED BY <1>1, <1>2, <1>3, PTL DEF Spec

-----------------------------------------------------------------------------
(* Locks are taken in the order of the accounts.                           *)

(* A statement that a request may still run when it has written key k.     *)
Later(k, s) == s.op = "commit" \/ (s.op = "write" /\ Precedes(k, s.key))

Ascending(r) ==
    /\ \A k \in DOMAIN r.written, i \in 1..Len(r.todo) : Later(k, r.todo[i])
    /\ \A i, j \in 1..Len(r.todo) :
         i < j /\ r.todo[i].op \in {"write", "delete"} => Later(r.todo[i].key, r.todo[j])

OInv == IInv /\ \A c \in Clients : Ascending(requests[c])

LEMMA AscendingContinued ==
    ASSUME NEW r, r.todo \in Seq(Statements), r.todo # <<>>, NEW s, s = Head(r.todo), Ascending(r),
           NEW more \in Seq(Statements), Plain(more), NEW r2, r2.todo = more \o Tail(r.todo),
           more = <<>> \/ DOMAIN r2.written = {},
           \A k \in DOMAIN r2.written :
               k \in DOMAIN r.written \/ (s.op \in {"write", "delete"} /\ k = s.key)
    PROVE  Ascending(r2)
  <1> PICK todo, new, n, m : /\ todo = r.todo /\ new = r2.todo
                             /\ n = Len(more) /\ m = Len(todo)
    OBVIOUS
  <1>1. /\ Len(new) = n + m - 1 /\ n \in Nat /\ m \in Nat \ {0}
        /\ \A i \in 1..n : new[i] = more[i]
        /\ \A i \in 2..m : new[n + i - 1] = todo[i]
    BY Continued
  <1>2. s = todo[1] /\ 1 \in 1..m
    BY <1>1
  <1>3. ASSUME NEW i \in 1..Len(new), i \notin 1..n
        PROVE  i - n + 1 \in 2..m /\ i - n + 1 \in 1..m /\ new[i] = todo[i - n + 1]
    <2> PICK k : k = i - n + 1
      OBVIOUS
    <2>1. k \in 2..m /\ k \in 1..m /\ n + k - 1 = i
      BY <1>1, <1>3
    <2>2. new[i] = todo[k]
      BY <1>1, <2>1
    <2> QED BY <2>1, <2>2
  <1>4. ASSUME NEW k \in DOMAIN r2.written, NEW i \in 1..Len(new) PROVE Later(k, new[i])
    <2>1. n = 0
      BY <1>1, <1>4
    <2> PICK l : l = i - n + 1
      OBVIOUS
    <2>2. l \in 2..m /\ l \in 1..m /\ new[i] = todo[l] /\ 1 < l
      BY <1>1, <1>3, <2>1
    <2>3. CASE k \in DOMAIN r.written
      BY <2>2, <2>3 DEF Ascending
    <2>4. CASE s.op \in {"write", "delete"} /\ k = s.key
      BY <1>2, <2>2, <2>4 DEF Ascending
    <2> QED BY <2>3, <2>4
  <1>5. ASSUME NEW i \in 1..Len(new), NEW j \in 1..Len(new), i < j, new[i].op \in {"write", "delete"}
        PROVE  Later(new[i].key, new[j])
    <2>1. i \notin 1..n
      BY <1>1, <1>5 DEF Plain
    <2>2. j \notin 1..n
      BY <1>1, <1>5, <2>1
    <2> PICK k, l : k = i - n + 1 /\ l = j - n + 1
      OBVIOUS
    <2>3. k \in 1..m /\ l \in 1..m /\ new[i] = todo[k] /\ new[j] = todo[l]
      BY <1>3, <2>1, <2>2
    <2>4. k < l
      BY <1>1, <1>5
    <2> QED BY <1>5, <2>3, <2>4 DEF Ascending
  <1> QED BY <1>4, <1>5 DEF Ascending

(* A statement has made r1 of the request, and the list goes on. *)
LEMMA StatementAscends ==
    ASSUME OInv, NEW c \in Clients, Running(c), NEW r, r = requests[c], NEW s, s = Current(c),
           NEW r1, DOMAIN r1 = Fields, r1.todo = r.todo,
           NEW more \in Seq(Statements), Plain(more),
           more = <<>> \/ DOMAIN r1.written = {},
           \A k \in DOMAIN r1.written :
               k \in DOMAIN r.written \/ (s.op \in {"write", "delete"} /\ k = s.key),
           Continue(c, r1, more)
    PROVE  \A d \in Clients : Ascending(requests'[d])
  <1> PICK r2 : r2 = [r1 EXCEPT !.todo = more \o Tail(@)]
    OBVIOUS
  <1>1. r.todo \in Seq(Statements) /\ r.todo # <<>> /\ s = Head(r.todo)
    BY Taken DEF OInv
  <1>2. r2.todo = more \o Tail(r.todo) /\ r2.written = r1.written
    BY DEF Fields
  <1>3. Ascending(r)
    BY DEF OInv
  <1>4. Ascending(r2)
    BY <1>1, <1>2, <1>3, AscendingContinued
  <1>5. requests' = [requests EXCEPT ![c] = r2]
    BY Zenon DEF Continue
  <1> QED BY <1>4, <1>5 DEF OInv, IInv

LEMMA IdleAscends == Ascending(Idle)
  <1> PICK none : none = Empty
    OBVIOUS
  <1>1. DOMAIN none = {} /\ Idle.todo = <<>> /\ Idle.written = none
    BY DEF Empty, Idle, Request
  <1>2. Len(<<>>) = 0
    OBVIOUS
  <1>3. \A i \in 1..Len(Idle.todo) : FALSE
    BY <1>1, <1>2
  <1> QED BY <1>1, <1>3 DEF Ascending

LEMMA RollbackAscends ==
    ASSUME OInv, NEW c \in Clients, requests' = [requests EXCEPT ![c] = Idle]
    PROVE  \A d \in Clients : Ascending(requests'[d])
  <1> PICK idle : idle = Idle
    OBVIOUS
  <1>1. Ascending(idle) /\ requests' = [requests EXCEPT ![c] = idle]
    BY IdleAscends
  <1> QED BY <1>1 DEF OInv, IInv

LEMMA BeginAscends ==
    ASSUME OInv, NEW c \in Clients, NEW plan, NEW transfer, Begin(c, plan, transfer),
           \A i, j \in 1..Len(plan) :
               i < j /\ plan[i].op \in {"write", "delete"} => Later(plan[i].key, plan[j])
    PROVE  \A d \in Clients : Ascending(requests'[d])
  <1> PICK none, r2 : none = Empty /\ r2 = Request(plan, transfer)
    OBVIOUS
  <1>1. DOMAIN none = {}
    BY DEF Empty
  <1>2. r2.todo = plan /\ r2.written = none
    BY DEF Request
  <1>3. Ascending(r2)
    BY <1>1, <1>2 DEF Ascending
  <1>4. requests' = [requests EXCEPT ![c] = r2]
    BY DEF Begin
  <1> QED BY <1>3, <1>4 DEF OInv, IInv

LEMMA TransferAscends ==
    ASSUME OInv, NEW c \in Clients, Transfer(c)
    PROVE  \A d \in Clients : Ascending(requests'[d])
  <1>1. PICK from \in Accounts, to \in Accounts, amount \in Amounts, user \in Customers \cup {None} :
          /\ from # to
          /\ Begin(c, TransferStatements(from, to, amount, user), Transferred(from, to, amount))
    BY DEF Transfer
  <1>0. PICK plan, transfer : /\ plan = TransferStatements(from, to, amount, user)
                              /\ transfer = Transferred(from, to, amount)
    BY Zenon
  <1>2. Begin(c, plan, transfer) /\ TransferPlan(plan, from, to, amount)
    BY <1>0, <1>1, TransferPlanned, Zenon
  <1>3. 1..Len(plan) = {1, 2, 3, 4, 5, 6, 7} /\ Len(plan) = 7
    BY <1>2 DEF TransferPlan
  <1>4. ASSUME NEW i \in 1..Len(plan), NEW j \in 1..Len(plan), i < j,
               plan[i].op \in {"write", "delete"}
        PROVE  Later(plan[i].key, plan[j])
    <2>1. i \in {5, 6} /\ j \in {6, 7} /\ (j = 6 => i = 5)
      BY <1>2, <1>3, <1>4 DEF TransferPlan, Moves
    <2>2. CASE j = 7
      BY <1>2, <2>2 DEF TransferPlan, Later
    <2>3. CASE j = 6
      BY <1>1, <1>2, <2>1, <2>3 DEF TransferPlan, Moves, Later
    <2> QED BY <2>1, <2>2, <2>3
  <1> QED BY <1>2, <1>4, BeginAscends

LEMMA OthersAscend ==
    ASSUME OInv, NEW c \in Clients,
           Balance(c) \/ Login(c) \/ DropSession(c) \/ ViewAccount(c) \/ AddBeneficiary(c)
    PROVE  \A d \in Clients : Ascending(requests'[d])
  <1> PICK plan : Transferless(plan) /\ Begin(c, plan, NoTransfer)
    BY OthersPlanned DEF OInv
  <1>1. ASSUME NEW i \in 1..Len(plan), NEW j \in 1..Len(plan), i < j,
               plan[i].op \in {"write", "delete"}
        PROVE  Later(plan[i].key, plan[j])
    BY <1>1 DEF Transferless, Later
  <1> QED BY <1>1, BeginAscends

(* What a request has written is not looked up, opened or deleted again. *)
LEMMA NothingWritten ==
    ASSUME OInv, NEW c \in Clients, Running(c), Current(c).op \notin {"write", "commit"}
    PROVE  DOMAIN requests[c].written = {}
  <1> PICK r, todo : r = requests[c] /\ todo = r.todo
    OBVIOUS
  <1>1. todo \in Seq(Statements) /\ todo # <<>> /\ Current(c) = Head(todo)
    BY Taken DEF OInv
  <1>2. 1 \in 1..Len(todo) /\ Current(c) = todo[1]
    BY <1>1
  <1>3. \A k \in DOMAIN r.written : Later(k, todo[1])
    BY <1>2 DEF OInv, Ascending
  <1> QED BY <1>2, <1>3 DEF Later

(* A statement that changes nothing but the list. *)
LEMMA ListAscends ==
    ASSUME OInv, NEW c \in Clients, Running(c), Current(c).op \notin {"write", "commit"},
           NEW more \in Seq(Statements), Plain(more), Continue(c, requests[c], more)
    PROVE  \A d \in Clients : Ascending(requests'[d])
  <1> PICK r : r = requests[c]
    OBVIOUS
  <1>1. DOMAIN r = Fields
    BY DEF OInv, IInv, Sound, Done
  <1>2. Continue(c, r, more) /\ DOMAIN r.written = {}
    BY NothingWritten, Zenon
  <1> QED BY <1>1, <1>2, StatementAscends

LEMMA LookupAscends ==
    ASSUME OInv, NEW c \in Clients, Lookup(c) PROVE \A d \in Clients : Ascending(requests'[d])
  <1> PICK more \in Seq(Statements) : Plain(more) /\ Continue(c, requests[c], more)
    BY LookupContinues DEF OInv
  <1>1. Running(c) /\ Current(c).op \notin {"write", "commit"}
    BY DEF Lookup, At
  <1> QED BY <1>1, ListAscends

LEMMA ReferAscends ==
    ASSUME OInv, NEW c \in Clients, ReferToCustomer(c)
    PROVE  \A d \in Clients : Ascending(requests'[d])
  <1> PICK more : more = <<>>
    OBVIOUS
  <1>1. Running(c) /\ Current(c).op \notin {"write", "commit"}
    BY DEF ReferToCustomer, At
  <1>2. Continue(c, requests[c], more) \/ Rollback(c)
    BY DEF ReferToCustomer
  <1> QED BY <1>1, <1>2, NoneMore, ListAscends, RollbackAscends DEF Rollback

LEMMA RowAscends ==
    ASSUME OInv, NEW c \in Clients, InsertRow(c) \/ ClaimDevice(c)
    PROVE  \A d \in Clients : Ascending(requests'[d])
  <1> PICK r, s, more, r1 : /\ r = requests[c] /\ s = Current(c) /\ more = <<>>
                            /\ r1 = WithRow(r, s.key, s.value)
    BY Zenon
  <1>1. Running(c) /\ s.op \notin {"write", "commit"}
    BY DEF InsertRow, ClaimDevice, At
  <1>2. DOMAIN r = Fields
    BY DEF OInv, IInv, Sound, Done
  <1>3. DOMAIN r1 = Fields /\ r1.todo = r.todo /\ r1.written = r.written
    BY <1>2, NewRow
  <1>4. Continue(c, r, more) \/ Continue(c, r1, more) \/ Rollback(c)
    BY DEF InsertRow, ClaimDevice
  <1>5. CASE Continue(c, r1, more)
    BY <1>1, <1>3, <1>5, NoneMore, StatementAscends
  <1> QED BY <1>1, <1>4, <1>5, NoneMore, ListAscends, RollbackAscends DEF Rollback

LEMMA DeleteAscends ==
    ASSUME OInv, NEW c \in Clients, DeleteSession(c)
    PROVE  \A d \in Clients : Ascending(requests'[d])
  <1> PICK r, s, more : r = requests[c] /\ s = Current(c) /\ more = <<>>
    OBVIOUS
  <1> PICK r1 : r1 = [r EXCEPT !.written = [k \in {s.key} |-> None]]
    OBVIOUS
  <1>1. Running(c) /\ s.op = "delete"
    BY DEF DeleteSession, At
  <1>2. DOMAIN r = Fields
    BY DEF OInv, IInv, Sound, Done
  <1>3. DOMAIN r1 = Fields /\ r1.todo = r.todo /\ DOMAIN r1.written = {s.key}
    BY <1>2 DEF Fields
  <1>4. Continue(c, r, more) \/ Continue(c, r1, more)
    BY DEF DeleteSession
  <1>5. CASE Continue(c, r1, more)
    BY ZenonT(60), <1>1, <1>3, <1>5, NoneMore, StatementAscends
  <1> QED BY <1>1, <1>4, <1>5, NoneMore, ListAscends

LEMMA ReadAscends ==
    ASSUME OInv, NEW c \in Clients, ReadBalance(c)
    PROVE  \A d \in Clients : Ascending(requests'[d])
  <1> PICK r, a, more : r = requests[c] /\ a = Current(c).key /\ more = <<>>
    OBVIOUS
  <1> PICK value : value = IF a \in DOMAIN r.inserted THEN r.inserted[a] ELSE table[a]
    OBVIOUS
  <1> PICK r1 : r1 = [r EXCEPT
                !.balance = [k \in DOMAIN @ \cup {a} |-> IF k = a THEN value ELSE @[k]],
                !.effects = [k \in DOMAIN @ \cup {a} |-> IF k = a THEN effects[a] ELSE @[k]]]
    OBVIOUS
  <1>1. Running(c) /\ Continue(c, r1, more)
    BY DEF ReadBalance, At
  <1>2. DOMAIN r1 = Fields /\ r1.todo = r.todo /\ r1.written = r.written
    BY DEF OInv, IInv, Sound, Done, Fields
  <1> QED BY <1>1, <1>2, NoneMore, StatementAscends

LEMMA WriteAscends ==
    ASSUME OInv, NEW c \in Clients, WriteBalance(c)
    PROVE  \A d \in Clients : Ascending(requests'[d])
  <1> PICK r, s, more : r = requests[c] /\ s = Current(c) /\ more = <<>>
    OBVIOUS
  <1>0. PICK cents : Continue(c, [r EXCEPT !.written =
            [k \in DOMAIN @ \cup {s.key} |-> IF k = s.key THEN cents ELSE @[k]]], more)
    BY DEF WriteBalance
  <1> PICK r1 : r1 = [r EXCEPT !.written =
                        [k \in DOMAIN @ \cup {s.key} |-> IF k = s.key THEN cents ELSE @[k]]]
    OBVIOUS
  <1>1. Running(c) /\ s.op = "write" /\ Continue(c, r1, more)
    BY <1>0 DEF WriteBalance, At
  <1>2. /\ DOMAIN r1 = Fields /\ r1.todo = r.todo
        /\ DOMAIN r1.written = DOMAIN r.written \cup {s.key}
    BY DEF OInv, IInv, Sound, Done, Fields
  <1> QED BY ZenonT(60), <1>1, <1>2, NoneMore, StatementAscends

LEMMA StepAscends == ASSUME OInv, [Next]_vars PROVE OInv'
  <1>1. IInv'
    BY StepKeeps DEF OInv
  <1>2. CASE Next
    <2> PICK c \in Clients : \/ Transfer(c) \/ Balance(c) \/ Login(c) \/ AddBeneficiary(c)
                             \/ DropSession(c) \/ ViewAccount(c)
                             \/ Step(c) \/ Fail(c)
      BY <1>2 DEF Next
    <2>1. CASE Transfer(c)
      BY <1>1, <2>1, TransferAscends DEF OInv
    <2>2. CASE Balance(c) \/ Login(c) \/ AddBeneficiary(c) \/ DropSession(c) \/ ViewAccount(c)
      BY <1>1, <2>2, OthersAscend DEF OInv
    <2>3. CASE Fail(c) \/ BreakDeadlock(c) \/ CommitRequest(c)
      <3>1. requests' = [requests EXCEPT ![c] = Idle]
        BY <2>3 DEF Fail, BreakDeadlock, CommitRequest, Rollback
      <3> QED BY <1>1, <3>1, RollbackAscends DEF OInv
    <2>4. CASE \/ Lookup(c) \/ InsertRow(c) \/ ReadBalance(c) \/ WriteBalance(c)
               \/ ClaimDevice(c) \/ ReferToCustomer(c) \/ DeleteSession(c)
      BY <1>1, <2>4, LookupAscends, RowAscends, ReadAscends, WriteAscends, ReferAscends,
         DeleteAscends DEF OInv
    <2> QED BY <2>1, <2>2, <2>3, <2>4 DEF Step
  <1>3. CASE UNCHANGED vars
    BY <1>1, <1>3 DEF vars, OInv
  <1> QED BY <1>2, <1>3

(* One that waits has written before only accounts that precede the one it *)
(* waits for.                                                              *)
LEMMA WaitsForLater ==
    ASSUME OInv, NEW c \in Clients, NEW d \in Clients, WaitsFor(c, d),
           NEW k \in DOMAIN requests[c].written
    PROVE  Current(c).key \in Accounts /\ Precedes(k, Current(c).key)
  <1> PICK r, todo, s : r = requests[c] /\ todo = r.todo /\ s = Current(c)
    OBVIOUS
  <1>1. Running(c) /\ s.op \in {"insert", "claim", "write", "delete"}
    BY DEF WaitsFor, At
  <1>2. todo \in Seq(Statements) /\ todo # <<>> /\ s = Head(todo) /\ Typed(s)
    BY <1>1, Taken DEF OInv
  <1>3. 1 \in 1..Len(todo) /\ s = todo[1]
    BY <1>2
  <1>4. Later(k, s)
    BY <1>3 DEF OInv, Ascending
  <1> QED BY <1>1, <1>2, <1>4 DEF Later, Typed

(* Where nobody opens rows, who waits for whom follows the order of the    *)
(* accounts, and one of the last has nobody to wait for.                   *)
LEMMA Acyclic ==
    ASSUME OInv, NEW group \in SUBSET Clients, Deadlocked(group),
           \A c \in group : DOMAIN requests[c].inserted = {}
    PROVE  FALSE
  <1>0. PICK key : key = [c \in group |-> Current(c).key]
    OBVIOUS
  <1>1. ASSUME NEW c \in group
        PROVE  key[c] \in Accounts /\ \E d \in group : Precedes(key[c], key[d])
    <2>1. PICK d \in group : WaitsFor(c, d)
      BY DEF Deadlocked
    <2>2. PICK b \in group : WaitsFor(b, c)
      BY DEF Deadlocked
    <2>3. PICK e \in group : WaitsFor(d, e)
      BY DEF Deadlocked
    <2>4. /\ Current(b).key \in DOMAIN requests[c].written
          /\ Current(c).key \in DOMAIN requests[d].written
      BY <2>1, <2>2 DEF WaitsFor, Holds
    <2>5. Current(c).key \in Accounts
      BY <2>1, <2>4, WaitsForLater
    <2>6. Precedes(Current(c).key, Current(d).key)
      BY <2>3, <2>4, WaitsForLater
    <2> QED BY <1>0, <2>5, <2>6
  <1>2. PICK R : R = {pair \in group \X group : Precedes(key[pair[1]], key[pair[2]])}
    OBVIOUS
  <1>3. ASSUME NEW c \in group, NEW d \in group
        PROVE  <<c, d>> \in R <=> Precedes(key[c], key[d])
    <2>1. <<c, d>> \in group \X group /\ <<c, d>>[1] = c /\ <<c, d>>[2] = d
      OBVIOUS
    <2> QED BY <1>2, <2>1
  <1>4. \A c \in group : <<c, c>> \notin R
    BY <1>1, <1>3, OrderAssumption
  <1>5. \A c, d, e \in group : <<c, d>> \in R /\ <<d, e>> \in R => <<c, e>> \in R
    BY <1>1, <1>3, OrderAssumption
  <1>6. IsFiniteSet(group) /\ group # {}
    BY ClientsAssumption, FS_Subset DEF Deadlocked
  <1>7. PICK c \in group : \A d \in group : <<c, d>> \notin R
    BY <1>4, <1>5, <1>6, LastElement
  <1> QED BY <1>1, <1>3, <1>7

(* A deadlock is over a row that is being opened: transfers between        *)
(* accounts that are there take their locks in one order.                  *)
THEOREM DeadlockNeedsInserts == Spec => []OnlyInsertsDeadlock
  <1>1. Init => OInv
    <2> SUFFICES ASSUME Init PROVE OInv
      OBVIOUS
    <2> PICK idle : idle = Idle
      OBVIOUS
    <2>1. requests = [c \in Clients |-> idle] /\ Ascending(idle)
      BY IdleAscends DEF Init
    <2> QED BY <2>1, InitSound DEF OInv
  <1>2. OInv /\ [Next]_vars => OInv'
    BY StepAscends
  <1>3. OInv => OnlyInsertsDeadlock
    BY Acyclic DEF OnlyInsertsDeadlock
  <1> QED BY <1>1, <1>2, <1>3, PTL DEF Spec

-----------------------------------------------------------------------------
(* A request is over when its list is: the commit is its last statement,   *)
(* and then it holds no row.                                               *)
Ends(r) == IF r.todo = <<>> THEN Locked(r) = {} ELSE r.todo[Len(r.todo)].op = "commit"

CInv == IInv /\ \A c \in Clients : Ends(requests[c])

LEMMA EndsContinued ==
    ASSUME NEW todo \in Seq(Statements), todo # <<>>, NEW more \in Seq(Statements),
           Head(todo).op # "commit", todo[Len(todo)].op = "commit",
           NEW new, new = more \o Tail(todo)
    PROVE  new # <<>> /\ new[Len(new)].op = "commit"
  <1> PICK n, m : n = Len(more) /\ m = Len(todo)
    OBVIOUS
  <1>1. /\ new \in Seq(Statements) /\ Len(new) = n + m - 1 /\ n \in Nat /\ m \in Nat \ {0}
        /\ Head(todo) = todo[1] /\ \A i \in 2..m : new[n + i - 1] = todo[i]
    BY Continued
  <1>2. m \in 2..m
    BY <1>1
  <1> QED BY <1>1, <1>2

LEMMA StatementEnds ==
    ASSUME CInv, NEW c \in Clients, Running(c), Current(c).op # "commit",
           NEW r, r = requests[c], NEW r1, DOMAIN r1 = Fields, r1.todo = r.todo,
           NEW more \in Seq(Statements), Continue(c, r1, more)
    PROVE  \A d \in Clients : Ends(requests'[d])
  <1> PICK r2 : r2 = [r1 EXCEPT !.todo = more \o Tail(@)]
    OBVIOUS
  <1> PICK todo, new : todo = r.todo /\ new = r2.todo
    OBVIOUS
  <1>1. todo \in Seq(Statements) /\ todo # <<>> /\ Current(c) = Head(todo)
    BY Taken DEF CInv
  <1>2. new = more \o Tail(todo)
    BY DEF Fields
  <1>3. todo[Len(todo)].op = "commit"
    BY <1>1 DEF CInv, Ends
  <1>4. new # <<>> /\ new[Len(new)].op = "commit"
    BY <1>1, <1>2, <1>3, EndsContinued
  <1>5. Ends(r2)
    BY <1>4 DEF Ends
  <1>6. requests' = [requests EXCEPT ![c] = r2]
    BY Zenon DEF Continue
  <1> QED BY <1>5, <1>6 DEF CInv, IInv

LEMMA RollbackEnds ==
    ASSUME CInv, NEW c \in Clients, requests' = [requests EXCEPT ![c] = Idle]
    PROVE  \A d \in Clients : Ends(requests'[d])
  <1> PICK idle : idle = Idle
    OBVIOUS
  <1>1. idle.todo = <<>> /\ Locked(idle) = {}
    BY IdleSound DEF Idle, Request
  <1>2. Ends(idle) /\ requests' = [requests EXCEPT ![c] = idle]
    BY <1>1 DEF Ends
  <1> QED BY <1>2 DEF CInv, IInv

LEMMA BeginEnds ==
    ASSUME CInv, NEW c \in Clients, NEW plan \in Seq(Statements), NEW transfer,
           Begin(c, plan, transfer), Len(plan) # 0, plan[Len(plan)].op = "commit"
    PROVE  \A d \in Clients : Ends(requests'[d])
  <1> PICK r2 : r2 = Request(plan, transfer)
    OBVIOUS
  <1>1. r2.todo = plan /\ plan # <<>>
    BY DEF Request
  <1>2. Ends(r2) /\ requests' = [requests EXCEPT ![c] = r2]
    BY <1>1 DEF Ends, Begin
  <1> QED BY <1>2 DEF CInv, IInv

LEMMA PlanEnds ==
    ASSUME CInv, NEW c \in Clients,
           \/ Transfer(c) \/ Balance(c) \/ Login(c) \/ DropSession(c)
           \/ ViewAccount(c) \/ AddBeneficiary(c)
    PROVE  \A d \in Clients : Ends(requests'[d])
  <1>1. CASE Transfer(c)
    <2>1. PICK from \in Accounts, to \in Accounts, amount \in Amounts, user \in Customers \cup {None} :
            Begin(c, TransferStatements(from, to, amount, user), Transferred(from, to, amount))
      BY <1>1 DEF Transfer
    <2>2. PICK plan, transfer : /\ plan = TransferStatements(from, to, amount, user)
                                /\ transfer = Transferred(from, to, amount)
      BY Zenon
    <2>3. Begin(c, plan, transfer) /\ TransferPlan(plan, from, to, amount)
      BY <2>1, <2>2, TransferPlanned, Zenon
    <2>4. plan \in Seq(Statements) /\ Len(plan) # 0 /\ plan[Len(plan)].op = "commit"
      BY <2>3 DEF TransferPlan
    <2>5. Begin(c, plan, transfer)
      BY <2>3
    <2> QED BY <2>4, <2>5, BeginEnds, Zenon
  <1>2. CASE Balance(c) \/ Login(c) \/ DropSession(c) \/ ViewAccount(c) \/ AddBeneficiary(c)
    <2> PICK plan : Transferless(plan) /\ Begin(c, plan, NoTransfer)
      BY <1>2, OthersPlanned DEF CInv
    <2> QED BY BeginEnds DEF Transferless
  <1> QED BY <1>1, <1>2

LEMMA LookupEnds ==
    ASSUME CInv, NEW c \in Clients, Lookup(c) PROVE \A d \in Clients : Ends(requests'[d])
  <1> PICK r, more : r = requests[c] /\ more \in Seq(Statements) /\ Continue(c, r, more)
    BY LookupContinues DEF CInv
  <1>1. Running(c) /\ Current(c).op # "commit" /\ DOMAIN r = Fields
    BY DEF Lookup, At, CInv, IInv, Sound, Done
  <1> QED BY <1>1, StatementEnds

(* The other statements put nothing before the rest of the list.           *)
LEMMA OneEnds ==
    ASSUME CInv, NEW c \in Clients,
           \/ InsertRow(c) \/ ReadBalance(c) \/ WriteBalance(c)
           \/ ClaimDevice(c) \/ ReferToCustomer(c) \/ DeleteSession(c)
    PROVE  \A d \in Clients : Ends(requests'[d])
  <1> PICK r, s, none : r = requests[c] /\ s = Current(c) /\ none = <<>>
    OBVIOUS
  <1>1. DOMAIN r = Fields /\ none \in Seq(Statements)
    BY DEF CInv, IInv, Sound, Done
  <1>2. Running(c) /\ s.op # "commit"
    BY DEF InsertRow, ReadBalance, WriteBalance, ClaimDevice, ReferToCustomer, DeleteSession, At
  <1>3. ASSUME NEW r1, DOMAIN r1 = Fields, r1.todo = r.todo, Continue(c, r1, none)
        PROVE  \A d \in Clients : Ends(requests'[d])
    BY <1>1, <1>2, <1>3, StatementEnds
  <1>4. CASE InsertRow(c) \/ ClaimDevice(c)
    <2> PICK r1 : r1 = WithRow(r, s.key, s.value)
      OBVIOUS
    <2>1. DOMAIN r1 = Fields /\ r1.todo = r.todo
      BY <1>1, NewRow
    <2>2. Continue(c, r1, none) \/ Continue(c, r, none) \/ Rollback(c)
      BY <1>4 DEF InsertRow, ClaimDevice
    <2> QED BY <1>1, <1>3, <2>1, <2>2, RollbackEnds DEF Rollback
  <1>5. CASE ReferToCustomer(c)
    <2>1. Continue(c, r, none) \/ Rollback(c)
      BY <1>5 DEF ReferToCustomer
    <2> QED BY <1>1, <1>3, <2>1, RollbackEnds DEF Rollback
  <1>6. CASE DeleteSession(c)
    <2> PICK r1 : r1 = [r EXCEPT !.written = [k \in {s.key} |-> None]]
      OBVIOUS
    <2>1. DOMAIN r1 = Fields /\ r1.todo = r.todo
      BY <1>1 DEF Fields
    <2>2. Continue(c, r1, none) \/ Continue(c, r, none)
      BY <1>6 DEF DeleteSession
    <2> QED BY <1>1, <1>3, <2>1, <2>2
  <1>7. CASE ReadBalance(c)
    <2> PICK a, value : /\ a = s.key
                        /\ value = IF a \in DOMAIN r.inserted THEN r.inserted[a] ELSE table[a]
      OBVIOUS
    <2> PICK r1 : r1 = [r EXCEPT
                  !.balance = [k \in DOMAIN @ \cup {a} |-> IF k = a THEN value ELSE @[k]],
                  !.effects = [k \in DOMAIN @ \cup {a} |-> IF k = a THEN effects[a] ELSE @[k]]]
      OBVIOUS
    <2>1. DOMAIN r1 = Fields /\ r1.todo = r.todo
      BY <1>1 DEF Fields
    <2>2. Continue(c, r1, none)
      BY <1>7 DEF ReadBalance
    <2> QED BY <1>3, <2>1, <2>2
  <1>8. CASE WriteBalance(c)
    <2>3. PICK cents : Continue(c, [r EXCEPT !.written =
              [k \in DOMAIN @ \cup {s.key} |-> IF k = s.key THEN cents ELSE @[k]]], none)
      BY <1>8 DEF WriteBalance
    <2> PICK r1 : r1 = [r EXCEPT !.written =
                          [k \in DOMAIN @ \cup {s.key} |-> IF k = s.key THEN cents ELSE @[k]]]
      OBVIOUS
    <2>1. DOMAIN r1 = Fields /\ r1.todo = r.todo
      BY <1>1 DEF Fields
    <2>2. Continue(c, r1, none)
      BY <2>3
    <2> QED BY <1>3, <2>1, <2>2
  <1> QED BY <1>4, <1>5, <1>6, <1>7, <1>8

LEMMA StepEnds == ASSUME CInv, [Next]_vars PROVE CInv'
  <1>1. IInv'
    BY StepKeeps DEF CInv
  <1>2. CASE Next
    <2> PICK c \in Clients : \/ Transfer(c) \/ Balance(c) \/ Login(c) \/ AddBeneficiary(c)
                             \/ DropSession(c) \/ ViewAccount(c)
                             \/ Step(c) \/ Fail(c)
      BY <1>2 DEF Next
    <2>1. CASE \/ Transfer(c) \/ Balance(c) \/ Login(c) \/ AddBeneficiary(c)
               \/ DropSession(c) \/ ViewAccount(c)
      BY <1>1, <2>1, PlanEnds DEF CInv
    <2>2. CASE Fail(c) \/ BreakDeadlock(c) \/ CommitRequest(c)
      <3>1. requests' = [requests EXCEPT ![c] = Idle]
        BY <2>2 DEF Fail, BreakDeadlock, CommitRequest, Rollback
      <3> QED BY <1>1, <3>1, RollbackEnds DEF CInv
    <2>3. CASE \/ Lookup(c) \/ InsertRow(c) \/ ReadBalance(c) \/ WriteBalance(c)
               \/ ClaimDevice(c) \/ ReferToCustomer(c) \/ DeleteSession(c)
      BY <1>1, <2>3, LookupEnds, OneEnds DEF CInv
    <2> QED BY <2>1, <2>2, <2>3 DEF Step
  <1>3. CASE UNCHANGED vars
    BY <1>1, <1>3 DEF vars, CInv
  <1> QED BY <1>2, <1>3

(* Where each of a finite group waits for another of it, the smallest part *)
(* of which this is true is a deadlock: one it can do without, because no  *)
(* other waits for it, is not in it.                                       *)
Tangled(group) == group # {} /\ \A c \in group : \E d \in group : WaitsFor(c, d)

LEMMA TangleDeadlocks ==
    ASSUME NEW group \in SUBSET Clients, Tangled(group)
    PROVE  \E part \in SUBSET group : Deadlocked(part)
  <1> PICK T : T = {n \in Nat : \E part \in SUBSET group : Tangled(part) /\ n = Cardinality(part)}
    OBVIOUS
  <1>1. \A part \in SUBSET group : IsFiniteSet(part) /\ Cardinality(part) \in Nat
    BY ClientsAssumption, FS_Subset, FS_CardinalityType
  <1>2. T \in SUBSET Nat /\ Cardinality(group) \in T
    BY <1>1
  <1>3. PICK n \in T : \A m \in T : n <= m
    BY <1>2, LeastNatural
  <1>4. PICK part \in SUBSET group : Tangled(part) /\ n = Cardinality(part)
    BY <1>3
  <1>5. ASSUME NEW d \in part, \A c \in part : ~WaitsFor(c, d) PROVE FALSE
    <2> PICK rest : rest = part \ {d}
      OBVIOUS
    <2>1. \A c \in rest : \E e \in rest : WaitsFor(c, e)
      BY <1>4, <1>5 DEF Tangled
    <2>2. rest # {}
      BY <1>4, <1>5 DEF Tangled
    <2>3. IsFiniteSet(part) /\ Cardinality(rest) = n - 1 /\ n \in Nat
      BY <1>1, <1>4, FS_RemoveElement
    <2>4. Cardinality(rest) \in T
      BY <1>1, <2>1, <2>2 DEF Tangled
    <2> QED BY <1>3, <2>3, <2>4
  <1> QED BY <1>4, <1>5 DEF Tangled, Deadlocked

LEMMA HoldersRun ==
    ASSUME CInv, NEW c \in Clients, NEW d \in Clients, WaitsFor(c, d) PROVE Running(d)
  BY DEF CInv, Ends, WaitsFor, Holds, Locked, Running

LEMMA EndsUnstuck == CInv => NobodyStuck
  <1> SUFFICES ASSUME CInv, NEW group \in (SUBSET {c \in Clients : Running(c)}) \ {{}},
                      \A c \in group, d \in Clients : WaitsFor(c, d) /\ Running(d) => d \in group
               PROVE  \E c \in group : CanGoOn(c)
    BY DEF NobodyStuck
  <1>1. group \in SUBSET Clients /\ group # {}
    OBVIOUS
  <1>2. CASE Tangled(group)
    <2>1. PICK part \in SUBSET group : Deadlocked(part)
      BY <1>1, <1>2, TangleDeadlocks
    <2>2. PICK c \in part : TRUE
      BY <2>1 DEF Deadlocked
    <2> QED BY <1>1, <2>1, <2>2 DEF CanGoOn
  <1>3. CASE ~Tangled(group)
    <2>1. PICK c \in group : \A d \in group : ~WaitsFor(c, d)
      BY <1>1, <1>3 DEF Tangled
    <2>2. ~Blocked(c)
      BY <1>1, <2>1, HoldersRun DEF Blocked
    <2> QED BY <2>2 DEF CanGoOn
  <1> QED BY <1>2, <1>3

(* NobodyStuck: no lock outlives its request, and a group of requests that *)
(* wait for each other is one the database finds.                          *)
THEOREM NeverStuck == Spec => []NobodyStuck
  <1>1. Init => CInv
    <2> SUFFICES ASSUME Init PROVE CInv
      OBVIOUS
    <2> PICK idle : idle = Idle
      OBVIOUS
    <2>1. idle.todo = <<>> /\ Locked(idle) = {}
      BY IdleSound DEF Idle, Request
    <2>2. requests = [c \in Clients |-> idle] /\ Ends(idle)
      BY <2>1 DEF Init, Ends
    <2> QED BY <2>2, InitSound DEF CInv
  <1>2. CInv /\ [Next]_vars => CInv'
    BY StepEnds
  <1> QED BY <1>1, <1>2, EndsUnstuck, PTL DEF Spec

-----------------------------------------------------------------------------
(* A commit is the one step of the bank; the statements before it are      *)
(* seen by nobody.                                                         *)

SeenBy(r) ==
    [a \in Accounts |-> IF a \in DOMAIN r.balance \ DOMAIN r.inserted THEN r.balance[a] ELSE None]

AllSeen == [c \in Clients |-> Seen(c)]

LEMMA SeenStep ==
    ASSUME BInv, NEW c \in Clients, NEW r2, requests' = [requests EXCEPT ![c] = r2]
    PROVE  AllSeen' = [AllSeen EXCEPT ![c] = SeenBy(r2)]
  <1>1. requests'[c] = r2 /\ \A d \in Clients \ {c} : requests'[d] = requests[d]
    BY DEF BInv, IInv
  <1>2. \A d \in Clients : Seen(d) = SeenBy(requests[d]) /\ Seen(d)' = SeenBy(requests'[d])
    BY DEF Seen, SeenBy
  <1> QED BY <1>1, <1>2 DEF AllSeen

ReadsInto(r, r2, a, v) ==
    /\ a \in Accounts /\ a \notin DOMAIN r.inserted /\ r2.inserted = r.inserted
    /\ r2.balance = [k \in DOMAIN r.balance \cup {a} |-> IF k = a THEN v ELSE r.balance[k]]

SeesNow(r, r2, a, v) == SeenBy(r2) = [SeenBy(r) EXCEPT ![a] = v]

LEMMA ReadSees == \A r, r2, a, v : ReadsInto(r, r2, a, v) => SeesNow(r, r2, a, v)
  <1> SUFFICES ASSUME NEW b1, NEW i1, NEW b2, NEW a \in Accounts, NEW v, a \notin i1,
                      b2 = [k \in DOMAIN b1 \cup {a} |-> IF k = a THEN v ELSE b1[k]]
               PROVE  [k \in Accounts |-> IF k \in DOMAIN b2 \ i1 THEN b2[k] ELSE None]
                       = [[k \in Accounts |-> IF k \in DOMAIN b1 \ i1 THEN b1[k] ELSE None]
                           EXCEPT ![a] = v]
    BY ZenonT(60) DEF SeenBy, ReadsInto, SeesNow
  <1> PICK new, old :
        /\ new = [k \in Accounts |-> IF k \in DOMAIN b2 \ i1 THEN b2[k] ELSE None]
        /\ old = [k \in Accounts |-> IF k \in DOMAIN b1 \ i1 THEN b1[k] ELSE None]
    OBVIOUS
  <1>1. \A k \in Accounts : new[k] = [old EXCEPT ![a] = v][k]
    OBVIOUS
  <1>2. new = [k \in Accounts |-> new[k]]
    OBVIOUS
  <1>3. [old EXCEPT ![a] = v] = [k \in Accounts |-> [old EXCEPT ![a] = v][k]]
    OBVIOUS
  <1>4. new = [old EXCEPT ![a] = v]
    BY <1>1, <1>2, <1>3
  <1> QED BY <1>4

LEMMA IdleSees == SeenBy(Idle) = Bank!Nothing
  <1> PICK none : none = Empty
    OBVIOUS
  <1>1. DOMAIN none = {}
    BY DEF Empty
  <1>2. Idle.balance = none
    BY DEF Idle, Request
  <1> QED BY <1>1, <1>2 DEF SeenBy, Bank!Nothing

(* The request goes on, and its client has seen nothing new. *)
LEMMA SeenSame ==
    ASSUME BInv, NEW c \in Clients, NEW r2, requests' = [requests EXCEPT ![c] = r2],
           SeenBy(r2) = SeenBy(requests[c]), UNCHANGED <<table, ledger>>
    PROVE  UNCHANGED Bank!vars
  <1>1. AllSeen' = [AllSeen EXCEPT ![c] = SeenBy(r2)]
    BY SeenStep
  <1>2. AllSeen[c] = SeenBy(requests[c]) /\ AllSeen = [d \in Clients |-> AllSeen[d]]
    BY DEF AllSeen, Seen, SeenBy
  <1>3. AllSeen' = AllSeen
    BY <1>1, <1>2
  <1> QED BY <1>3 DEF AllSeen, Bank!vars

LEMMA ContinueSees ==
    ASSUME BInv, NEW c \in Clients, NEW r1, DOMAIN r1 = Fields, NEW more, Continue(c, r1, more),
           SeenBy(r1) = SeenBy(requests[c]), UNCHANGED <<table, ledger>>
    PROVE  UNCHANGED Bank!vars
  <1> PICK r2 : r2 = [r1 EXCEPT !.todo = more \o Tail(@)]
    OBVIOUS
  <1>1. r2.inserted = r1.inserted /\ r2.balance = r1.balance
    BY Gone
  <1>2. SeenBy(r2) = SeenBy(requests[c])
    BY <1>1 DEF SeenBy
  <1>3. requests' = [requests EXCEPT ![c] = r2]
    BY Zenon DEF Continue
  <1> QED BY <1>2, <1>3, SeenSame

LEMMA RollbackForgets ==
    ASSUME BInv, NEW c \in Clients, Rollback(c), UNCHANGED <<table, ledger>>
    PROVE  Bank!Forget(c)
  <1> PICK idle : idle = Idle
    OBVIOUS
  <1>1. requests' = [requests EXCEPT ![c] = idle]
    BY DEF Rollback
  <1>2. AllSeen' = [AllSeen EXCEPT ![c] = SeenBy(idle)]
    BY <1>1, SeenStep
  <1>3. AllSeen' = [AllSeen EXCEPT ![c] = Bank!Nothing]
    BY <1>2, IdleSees
  <1> QED BY <1>3 DEF AllSeen, Bank!Forget

LEMMA BeginSees ==
    ASSUME BInv, NEW c \in Clients, NEW plan, NEW transfer, Begin(c, plan, transfer)
    PROVE  UNCHANGED Bank!vars
  <1> PICK none, r2 : none = Empty /\ r2 = Request(plan, transfer)
    OBVIOUS
  <1>1. r2.balance = none /\ Idle.balance = none /\ DOMAIN none = {}
    BY DEF Empty, Request, Idle
  <1>2. SeenBy(r2) = SeenBy(requests[c])
    BY <1>1 DEF SeenBy, Begin
  <1>3. requests' = [requests EXCEPT ![c] = r2] /\ UNCHANGED <<table, ledger>>
    BY DEF Begin
  <1> QED BY <1>2, <1>3, SeenSame

(* A row that is opened is none whose balance the handler has read. *)
LEMMA RowSees ==
    ASSUME BInv, NEW c \in Clients, NEW r, r = requests[c], NEW key, ~Visible(c, key), NEW value,
           NEW more, Continue(c, WithRow(r, key, value), more), UNCHANGED <<table, ledger>>
    PROVE  UNCHANGED Bank!vars
  <1> PICK r1 : r1 = WithRow(r, key, value)
    OBVIOUS
  <1>1. DOMAIN r = Fields /\ Explained(r, table, opened, ledger)
    BY Known
  <1>2. /\ DOMAIN r1 = Fields /\ r1.balance = r.balance
        /\ DOMAIN r1.inserted = DOMAIN r.inserted \cup {key}
    BY <1>1, NewRow
  <1>3. key \notin DOMAIN r.balance
    BY <1>1 DEF Explained, Rows, Visible
  <1>4. SeenBy(r1) = SeenBy(r)
    BY <1>2, <1>3 DEF SeenBy
  <1> QED BY <1>2, <1>4, ContinueSees

LEMMA ReadLooks ==
    ASSUME BInv, NEW c \in Clients, ReadBalance(c)
    PROVE  Bank!Look(c) \/ UNCHANGED Bank!vars
  <1> PICK r, s, more : r = requests[c] /\ s = Current(c) /\ more = <<>>
    OBVIOUS
  <1> PICK a, value : a = s.key /\ value = IF s.key \in DOMAIN r.inserted
                                           THEN r.inserted[s.key] ELSE table[s.key]
    OBVIOUS
  <1>1. Running(c) /\ s.op = "read" /\ UNCHANGED <<table, ledger>>
    BY DEF ReadBalance, At
  <1>2. a \in Accounts /\ a \in Rows(r, table)
    BY <1>1, Taken, InHand DEF Typed, BInv
  <1>3. DOMAIN r = Fields
    BY Known
  <1> PICK r1 : r1 = [r EXCEPT
                !.balance = [k \in DOMAIN @ \cup {a} |-> IF k = a THEN value ELSE @[k]],
                !.effects = [k \in DOMAIN @ \cup {a} |-> IF k = a THEN effects[a] ELSE @[k]]]
    OBVIOUS
  <1>4. Continue(c, r1, more)
    BY DEF ReadBalance
  <1>5. /\ DOMAIN r1 = Fields /\ r1.inserted = r.inserted
        /\ r1.balance = [k \in DOMAIN r.balance \cup {a} |-> IF k = a THEN value ELSE r.balance[k]]
    BY <1>3 DEF Fields
  <1>6. CASE a \in DOMAIN r.inserted
    <2>1. SeenBy(r1) = SeenBy(r)
      BY <1>5, <1>6 DEF SeenBy
    <2> QED BY <1>1, <1>4, <1>5, <2>1, ContinueSees
  <1>7. CASE a \notin DOMAIN r.inserted
    <2>1. value = table[a] /\ table[a] # None
      BY <1>2, <1>7 DEF Rows
    <2> PICK r2 : r2 = [r1 EXCEPT !.todo = more \o Tail(@)]
      OBVIOUS
    <2>2. requests' = [requests EXCEPT ![c] = r2]
      BY <1>4, Zenon DEF Continue
    <2>3. r2.inserted = r.inserted /\ r2.balance = r1.balance
      BY <1>5, Gone
    <2>4. SeenBy(r2) = [SeenBy(r) EXCEPT ![a] = table[a]]
      <3>1. r2.balance = [k \in DOMAIN r.balance \cup {a} |->
                            IF k = a THEN table[a] ELSE r.balance[k]]
        BY <1>5, <2>1, <2>3
      <3>2. ReadsInto(r, r2, a, table[a])
        BY <1>2, <1>7, <2>3, <3>1 DEF ReadsInto
      <3>3. SeesNow(r, r2, a, table[a])
        BY <3>2, ReadSees
      <3> QED BY <3>3 DEF SeesNow
    <2>5. AllSeen[c] = SeenBy(r)
      BY DEF AllSeen, Seen, SeenBy
    <2>6. AllSeen' = [AllSeen EXCEPT ![c] = SeenBy(r2)]
      BY ZenonT(60), <2>2, SeenStep
    <2>7. AllSeen' = [AllSeen EXCEPT ![c][a] = table[a]]
      BY <2>4, <2>5, <2>6
    <2> PICK balance : balance = [b \in Accounts |-> table[b]]
      OBVIOUS
    <2>8. balance[a] = table[a]
      BY <1>2
    <2> QED BY <1>1, <1>2, <2>1, <2>7, <2>8 DEF AllSeen, Bank!Look
  <1> QED BY <1>6, <1>7

(* The statements between a request's reads and its end. *)
LEMMA OthersUnseen ==
    ASSUME BInv, NEW c \in Clients,
           \/ Lookup(c) \/ InsertRow(c) \/ ClaimDevice(c) \/ ReferToCustomer(c)
           \/ DeleteSession(c) \/ WriteBalance(c)
    PROVE  Bank!Forget(c) \/ UNCHANGED Bank!vars
  <1> PICK r, s, more : r = requests[c] /\ s = Current(c) /\ more = <<>>
    OBVIOUS
  <1>1. DOMAIN r = Fields
    BY Known
  <1>2. CASE Lookup(c)
    <2>1. PICK m : Continue(c, r, m) /\ UNCHANGED <<table, ledger>>
      BY <1>2 DEF Lookup
    <2> QED BY <1>1, <2>1, ContinueSees
  <1>3. CASE InsertRow(c)
    <2>1. UNCHANGED <<table, ledger>>
      BY <1>3 DEF InsertRow
    <2>2. CASE Rejected(c, s.key)
      <3>1. Rollback(c)
        BY <1>3, <2>2 DEF InsertRow
      <3> QED BY <2>1, <3>1, RollbackForgets
    <2>3. CASE ~Rejected(c, s.key)
      <3>1. Continue(c, WithRow(r, s.key, s.value), more) /\ ~Visible(c, s.key)
        BY <1>3, <2>3 DEF InsertRow, Rejected
      <3> QED BY <2>1, <3>1, RowSees
    <2> QED BY <2>2, <2>3
  <1>4. CASE ClaimDevice(c)
    <2>1. UNCHANGED <<table, ledger>>
      BY <1>4 DEF ClaimDevice
    <2>2. CASE ~Unclaimed(c, s.key)
      <3>1. Continue(c, r, more)
        BY <1>4, <2>2 DEF ClaimDevice
      <3> QED BY <1>1, <2>1, <3>1, ContinueSees
    <2>3. CASE Unclaimed(c, s.key)
      <3>1. Continue(c, WithRow(r, s.key, s.value), more) /\ ~Visible(c, s.key)
        BY <1>4, <2>3 DEF ClaimDevice, Unclaimed
      <3> QED BY <2>1, <3>1, RowSees
    <2> QED BY <2>2, <2>3
  <1>5. CASE ReferToCustomer(c)
    <2>1. (Continue(c, r, more) \/ Rollback(c)) /\ UNCHANGED <<table, ledger>>
      BY <1>5 DEF ReferToCustomer
    <2> QED BY <1>1, <2>1, ContinueSees, RollbackForgets
  <1>6. CASE DeleteSession(c)
    <2> PICK r1 : r1 = [r EXCEPT !.written = [k \in {s.key} |-> None]]
      OBVIOUS
    <2>1. (Continue(c, r, more) \/ Continue(c, r1, more)) /\ UNCHANGED <<table, ledger>>
      BY <1>6 DEF DeleteSession
    <2>2. DOMAIN r1 = Fields /\ SeenBy(r1) = SeenBy(r)
      BY <1>1 DEF Fields, SeenBy
    <2> QED BY <1>1, <2>1, <2>2, ContinueSees
  <1>7. CASE WriteBalance(c)
    <2>1. PICK cents : Continue(c, [r EXCEPT !.written =
              [k \in DOMAIN @ \cup {s.key} |-> IF k = s.key THEN cents ELSE @[k]]], more)
      BY <1>7 DEF WriteBalance
    <2> PICK r1 : r1 = [r EXCEPT !.written =
                          [k \in DOMAIN @ \cup {s.key} |-> IF k = s.key THEN cents ELSE @[k]]]
      OBVIOUS
    <2>2. Continue(c, r1, more) /\ UNCHANGED <<table, ledger>>
      BY <1>7, <2>1 DEF WriteBalance
    <2>3. DOMAIN r1 = Fields /\ SeenBy(r1) = SeenBy(r)
      BY <1>1 DEF Fields, SeenBy
    <2> QED BY <2>2, <2>3, ContinueSees
  <1> QED BY <1>2, <1>3, <1>4, <1>5, <1>6, <1>7

(* A transfer's two accounts, at its commit. *)
LEMMA AccountSettles ==
    ASSUME BInv, NEW c \in Clients, NEW r, r = requests[c], NEW e, EntryOf(r, e), Committed(r, e),
           r.transfer # NoTransfer, NEW a \in Accounts, a \in DOMAIN r.written
    PROVE  Bank!Settles(c, e, a)
  <1>1. /\ table'[a] = r.written[a] /\ r.written[a] \in Int /\ table'[a] # None
        /\ a \in DOMAIN r.balance /\ Settled(r.balance[a], r.written[a], e, a)
    BY WrittenExact
  <1>2. Done(r, table) /\ Explained(r, table, opened, ledger)
    BY Known
  <1> PICK balance, balance2, b, w, moved :
        /\ balance = [k \in Accounts |-> table[k]] /\ balance2 = [k \in Accounts |-> table'[k]]
        /\ b = r.balance[a] /\ w = r.written[a] /\ moved = Effect(e, a)
    OBVIOUS
  <1>3. /\ balance[a] = table[a] /\ balance2[a] = w /\ w # None /\ w \in Int /\ b \in Int
        /\ AllSeen[c][a] = IF a \in DOMAIN r.inserted THEN None ELSE b
    BY <1>1, <1>2 DEF AllSeen, Seen, Done
  <1>4. /\ w - b - moved \in -Bank!Tolerance(e)..Bank!Tolerance(e) /\ moved \in Int
        /\ Bank!Effect(e, a) = moved /\ Bank!Tolerance(e) \in {0, 1}
    <2>1. moved \in Int
      BY <1>1, EntryFacts DEF Effect, Settled
    <2>2. w - b - moved \in -1..1 /\ (e.whole => w - b - moved = 0)
      BY <1>1 DEF Settled
    <2>3. Bank!Effect(e, a) = moved
      BY DEF Effect, Bank!Effect
    <2>4. Bank!Tolerance(e) = IF e.whole THEN 0 ELSE 1
      BY DEF Bank!Tolerance
    <2> QED BY <2>1, <2>2, <2>3, <2>4
  <1>5. CASE a \notin DOMAIN r.inserted
    <2>1. AllSeen[c][a] = b /\ b # None
      BY <1>3, <1>5, NamesAssumption
    <2> QED BY <1>3, <1>4, <2>1 DEF AllSeen, Bank!Settles
  <1>6. CASE a \in DOMAIN r.inserted
    <2>1. b \in Nat /\ table[a] = None /\ AllSeen[c][a] = None
      BY <1>1, <1>2, <1>3, <1>6 DEF Done, Explained
    <2>2. w - moved >= -Bank!Tolerance(e)
      BY <1>3, <1>4, <2>1
    <2> QED BY <1>3, <1>4, <2>1, <2>2 DEF AllSeen, Bank!Settles, Bank!IsOpened
  <1> QED BY <1>5, <1>6

LEMMA CommitIsAtomic ==
    ASSUME BInv, NEW c \in Clients, CommitRequest(c)
    PROVE  Bank!Next
  <1> PICK r, idle : r = requests[c] /\ idle = Idle
    OBVIOUS
  <1>1. PICK e : EntryOf(r, e) /\ Committed(r, e)
    BY CommitIs
  <1>2. Complete(r) /\ Written(r) /\ Done(r, table)
    BY CommitComplete, Known DEF CommitRequest
  <1>3. AllSeen' = [AllSeen EXCEPT ![c] = Bank!Nothing]
    <2>1. requests' = [requests EXCEPT ![c] = idle]
      BY DEF CommitRequest
    <2>2. AllSeen' = [AllSeen EXCEPT ![c] = SeenBy(idle)]
      BY <2>1, SeenStep
    <2> QED BY <2>2, IdleSees
  <1> PICK balance, balance2 : /\ balance = [k \in Accounts |-> table[k]]
                               /\ balance2 = [k \in Accounts |-> table'[k]]
    OBVIOUS
  <1>4. ASSUME NEW a \in Accounts, a \notin DOMAIN r.written
        PROVE  /\ a \notin DOMAIN r.inserted => balance2[a] = balance[a]
               /\ a \in DOMAIN r.inserted =>
                    balance[a] = None /\ balance2[a] # None /\ balance2[a] \in Nat
    BY <1>1, <1>2, <1>4, NamesAssumption DEF Committed, Done, Keys
  <1>5. CASE r.transfer = NoTransfer
    <2>1. ledger' = ledger
      BY <1>1, <1>5 DEF Committed
    <2>2. \A a \in Accounts :
            \/ balance2[a] = balance[a]
            \/ balance[a] = None /\ balance2[a] # None /\ balance2[a] >= 0
      BY <1>2, <1>4, <1>5 DEF Written
    <2>3. Bank!Open(c)
      BY <1>3, <2>1, <2>2 DEF AllSeen, Bank!Open, Bank!IsOpened
    <2> QED BY <2>3 DEF Bank!Next
  <1>6. CASE r.transfer # NoTransfer
    <2>1. PICK cents \in Rounded(r.transfer.amount) : e = Entry(r.transfer, cents)
      BY <1>1, <1>6 DEF EntryOf
    <2>2. /\ r.transfer \in Orders /\ r.transfer.from # r.transfer.to
          /\ e.from = r.transfer.from /\ e.to = r.transfer.to
          /\ {e.from, e.to} \subseteq DOMAIN r.written /\ {e.from, e.to} \subseteq Accounts
          /\ \A a \in Accounts \ {e.from, e.to} : a \notin DOMAIN r.written \cup DOMAIN r.inserted
      BY <1>2, <1>6, <2>1, OrderFacts DEF Written, Complete, Entry
    <2>3. e \in [from : Accounts, to : Accounts,
                 amount : UNION {Rounded(amount) : amount \in Amounts}, whole : BOOLEAN]
      BY <2>1, <2>2 DEF Orders, Entry, Whole
    <2>4. \A a \in {e.from, e.to} : Bank!Settles(c, e, a)
      BY <1>1, <1>6, <2>2, AccountSettles
    <2>5. \A a \in Accounts \ {e.from, e.to} : balance2[a] = balance[a]
      BY <1>4, <2>2
    <2>6. ledger' = Append(ledger, e) /\ e.from # e.to
      BY <1>1, <1>6, <2>2 DEF Committed
    <2>7. Bank!Transfer(c, e)
      BY <1>3, <2>4, <2>5, <2>6 DEF AllSeen, Bank!Transfer
    <2> QED BY <2>3, <2>7 DEF Bank!Next
  <1> QED BY <1>5, <1>6

(* ImplementsAtomicBank: whatever the interleaving of their statements and *)
(* the failures, a request's entry, the accounts it opens and both         *)
(* balances come in one step; each balance is the one it read, moved by    *)
(* its own amount, and no third account changes.                           *)
THEOREM RequestsAreAtomic == Spec => ImplementsAtomicBank
  <1>1. Init => BInv /\ Bank!Init
    <2> SUFFICES ASSUME Init PROVE BInv /\ Bank!Init
      OBVIOUS
    <2>1. \A a \in Accounts : table[a] \in {0, None}
      BY DEF Init, Initially, Keys
    <2>2. \A c \in Clients : Seen(c) = Bank!Nothing
      <3>1. \A c \in Clients : Seen(c) = SeenBy(Idle)
        BY DEF Init, Seen, SeenBy
      <3> QED BY <3>1, IdleSees
    <2> QED BY <2>1, <2>2, InitBooks DEF Init, Bank!Init
  <1>2. BInv /\ [Next]_vars => BInv'
    BY StepBooks
  <1>3. BInv /\ [Next]_vars => [Bank!Next]_(Bank!vars)
    <2> SUFFICES ASSUME BInv, [Next]_vars PROVE Bank!Next \/ UNCHANGED Bank!vars
      OBVIOUS
    <2>1. CASE UNCHANGED vars
      BY <2>1 DEF vars, Bank!vars, Seen
    <2>2. CASE Next
      <3> PICK c \in Clients : \/ Transfer(c) \/ Balance(c) \/ Login(c) \/ AddBeneficiary(c)
                               \/ DropSession(c) \/ ViewAccount(c)
                               \/ Step(c) \/ Fail(c)
        BY <2>2 DEF Next
      <3>1. CASE \/ Transfer(c) \/ Balance(c) \/ Login(c) \/ AddBeneficiary(c)
                 \/ DropSession(c) \/ ViewAccount(c)
        <4>1. \E plan, transfer : Begin(c, plan, transfer)
          BY <3>1 DEF Transfer, Balance, Login, AddBeneficiary, DropSession, ViewAccount
        <4> QED BY <4>1, BeginSees
      <3>2. CASE Fail(c) \/ BreakDeadlock(c)
        <4>1. Bank!Forget(c)
          BY <3>2, RollbackForgets DEF Fail, BreakDeadlock
        <4> QED BY <4>1 DEF Bank!Next
      <3>3. CASE CommitRequest(c)
        BY <3>3, CommitIsAtomic
      <3>4. CASE ReadBalance(c)
        BY <3>4, ReadLooks DEF Bank!Next
      <3>5. CASE \/ Lookup(c) \/ InsertRow(c) \/ ClaimDevice(c) \/ ReferToCustomer(c)
                 \/ DeleteSession(c) \/ WriteBalance(c)
        BY <3>5, OthersUnseen DEF Bank!Next
      <3> QED BY <3>1, <3>2, <3>3, <3>4, <3>5 DEF Step
    <2> QED BY <2>1, <2>2
  <1> QED BY <1>1, <1>2, <1>3, PTL DEF Spec, ImplementsAtomicBank, Bank!Spec
=============================================================================
