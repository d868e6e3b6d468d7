------------------------- MODULE RiskPipelineProofs -------------------------
(***************************************************************************)
(* The job's promises for any rows, capacity, failures and submissions:    *)
(* the account map is that of the rows read, no alert is lost, and every   *)
(* row counts once per identity.  They are facts about a cut, that is      *)
(* about the operators' state and the topics; the running job and its      *)
(* checkpoint are two cuts of the same topics.                             *)
(***************************************************************************)
EXTENDS RiskPipeline, FiniteSetTheorems, TLAPS

RowType == [topic : Topics, value : {"json", "avro", "null"}, op : {"c", "u", "d"},
            customer : Customers \cup {None}, account : Accounts \cup {None},
            address : Addresses \cup {None}, lsn : Keys]

(* A topic holds its own rows. *)
LogType == {lg \in [Topics -> Seq(RowType)] :
              \A t \in Topics : \A n \in 1..Len(lg[t]) : lg[t][n].topic = t}

(* A topic is only appended to. *)
Grown(lg, more) ==
    \A t \in Topics : /\ Len(lg[t]) <= Len(more[t])
                      /\ \A n \in 1..Len(lg[t]) : more[t][n] = lg[t][n]

(* No source is ahead of its topic; the lookup keeps its capacity and      *)
(* holds events with an identity.                                          *)
CutType(lg, off, own, wait, sn, sc) ==
    /\ off \in [Topics -> Nat] /\ own \in [Accounts -> Customers \cup {None}]
    /\ sn \in SUBSET (Identities \X Keys) /\ sc \in [Identities -> Nat]
    /\ \A t \in Topics : off[t] <= Len(lg[t])
    /\ wait \in SUBSET Events /\ \A e \in wait : e.identity # None
    /\ IsFiniteSet(wait) /\ Cardinality(wait) <= MaxInFlight

TypeInv ==
    /\ log \in LogType
    /\ CutType(log, offset, owner, waiting, seen, score)
    /\ checkpoint \in StateType
    /\ CutType(log, checkpoint.offset, checkpoint.owner, checkpoint.waiting, checkpoint.seen,
               checkpoint.score)
    /\ unsent \in SUBSET (Identities \X Keys) /\ published \in SUBSET (Identities \X Keys)
    /\ status \in {"RUNNING", "RESTARTING", "FAILED"}
    /\ restarts \in 0..MaxRestarts

-----------------------------------------------------------------------------
(* Types. *)

LEMMA KeysFinite ==
    ASSUME NEW S \in SUBSET Keys
    PROVE  IsFiniteSet(S) /\ Cardinality(S) \in Nat
  <1>1. IsFiniteSet(Keys)
    BY FS_Interval, BoundsAssumption DEF Keys
  <1> QED BY <1>1, FS_Subset, FS_CardinalityType

LEMMA IdentityTyped ==
    ASSUME NEW row \in RowType
    PROVE  /\ Identity(row) \in Identities \cup {None}
           /\ Identity(row) = None <=>
                row.customer = None /\ row.address = None /\ row.account = None
  BY NamesAssumption DEF Identity, RowType, Identities

(* What the join makes of a row, under any account map. *)
LEMMA EnrichedTyped ==
    ASSUME NEW row \in RowType, owner \in [Accounts -> Customers \cup {None}]
    PROVE  /\ Enriched(Normalized(row)) \in Events
           /\ Enriched(Normalized(row)).key = row.lsn
           /\ Enriched(Normalized(row)).identity = None <=>
                row.customer = None /\ row.address = None /\ row.account = None
  <1> DEFINE e == Normalized(row)
  <1>1. /\ e = [key |-> row.lsn, customer |-> row.customer, account |-> row.account,
                identity |-> Identity(row)]
        /\ e \in Events
    BY IdentityTyped DEF Normalized, Events, RowType
  <1> HIDE DEF e
  <1>2. CASE e.customer = None /\ e.account # None /\ owner[e.account] # None
    <2>1. /\ Enriched(e) = [e EXCEPT !.customer = owner[e.account],
                                     !.identity = owner[e.account]]
          /\ owner[e.account] \in Customers
      BY <1>1, <1>2 DEF Enriched, Events
    <2>2. Enriched(e) = [key |-> row.lsn, customer |-> owner[e.account],
                         account |-> row.account, identity |-> owner[e.account]]
      BY <1>1, <2>1
    <2>3. Enriched(e) \in Events
      BY <1>1, <2>1, <2>2 DEF Events, Identities, RowType
    <2> QED BY <1>1, <1>2, <2>1, <2>2, <2>3 DEF e
  <1>3. CASE ~(e.customer = None /\ e.account # None /\ owner[e.account] # None)
    BY <1>1, <1>3, IdentityTyped DEF Enriched, e
  <1> QED BY <1>2, <1>3

LEMMA CutGrown ==
    ASSUME NEW lg \in LogType, NEW more \in LogType, Grown(lg, more),
           NEW off, NEW own, NEW wait, NEW sn, NEW sc, CutType(lg, off, own, wait, sn, sc)
    PROVE  CutType(more, off, own, wait, sn, sc)
  <1>1. \A t \in Topics : Len(lg[t]) \in Nat /\ Len(more[t]) \in Nat
    BY DEF LogType
  <1> QED BY <1>1 DEF CutType, Grown

LEMMA LogStep ==
    ASSUME log \in LogType, [Next]_vars
    PROVE  log' \in LogType /\ Grown(log, log')
  <1>1. CASE log' = log
    BY <1>1 DEF Grown, LogType
  <1>2. ASSUME NEW t \in Topics, NEW row \in RowType, row.topic = t,
               log' = [log EXCEPT ![t] = Append(@, row)]
        PROVE  log' \in LogType /\ Grown(log, log')
    <2> PICK n : n = Len(log[t])
      OBVIOUS
    <2>1. n \in Nat /\ log[t] \in Seq(RowType) /\ log \in [Topics -> Seq(RowType)]
          /\ log' = [log EXCEPT ![t] = Append(log[t], row)]
      BY <1>2 DEF LogType
    <2>2. /\ Append(log[t], row) \in Seq(RowType) /\ Len(Append(log[t], row)) = n + 1
          /\ Append(log[t], row)[n + 1] = row
          /\ \A m \in 1..n : Append(log[t], row)[m] = log[t][m]
      BY <2>1, <1>2
    <2>3. log' \in [Topics -> Seq(RowType)] /\ log'[t] = Append(log[t], row)
          /\ \A u \in Topics : u # t => log'[u] = log[u]
      BY <2>1, <2>2
    <2>4. \A m \in 1..n + 1 : m \in 1..n \/ m = n + 1
      BY <2>1
    <2>5. \A u \in Topics : Len(log[u]) \in Nat
      BY <2>1
    <2>6. ASSUME NEW u \in Topics
          PROVE  /\ Len(log[u]) <= Len(log'[u])
                 /\ \A m \in 1..Len(log[u]) : log'[u][m] = log[u][m]
                 /\ \A m \in 1..Len(log'[u]) : log'[u][m].topic = u
      <3>1. CASE u = t
        BY <1>2, <2>1, <2>2, <2>3, <2>4, <3>1 DEF LogType
      <3>2. CASE u # t
        BY <2>3, <2>5, <3>2 DEF LogType
      <3> QED BY <3>1, <3>2
    <2> QED BY <2>3, <2>6 DEF Grown, LogType
  <1>3. ASSUME NEW body \in Bodies, Change(body)
        PROVE  log' \in LogType /\ Grown(log, log')
    <2> DEFINE lsn == Cardinality({row.lsn : row \in Rows}) + 1
    <2>1. {row.lsn : row \in Rows} \in SUBSET Keys
      <3>1. ASSUME NEW row \in Rows
            PROVE  row.lsn \in Keys
        <4>1. PICK t \in Topics : \E n \in 1..Len(log[t]) : row = log[t][n]
          BY DEF Rows
        <4>2. row \in RowType
          BY <4>1 DEF LogType
        <4> QED BY <4>2 DEF RowType
      <3> QED BY <3>1
    <2>2. lsn \in Keys
      BY <1>3, <2>1, KeysFinite, BoundsAssumption DEF Change, Keys
    <2>3. body \in BodyType /\ log' = [log EXCEPT ![body.topic] = Append(@, Row(body, lsn))]
      BY <1>3, BodiesAssumption DEF Change
    <2> HIDE DEF lsn
    <2>4. Row(body, lsn) \in RowType /\ Row(body, lsn).topic = body.topic /\ body.topic \in Topics
      BY <2>2, <2>3 DEF Row, BodyType, RowType
    <2> QED BY <1>2, <2>3, <2>4
  <1>4. ASSUME NEW t \in Topics, Redeliver(t)
        PROVE  log' \in LogType /\ Grown(log, log')
    <2>1. log[t][Len(log[t])] \in RowType /\ log[t][Len(log[t])].topic = t
      BY <1>4 DEF Redeliver, LogType
    <2> QED BY <1>2, <1>4, <2>1 DEF Redeliver
  <1>5. \/ log' = log
        \/ \E body \in Bodies : Change(body)
        \/ \E t \in Topics : Redeliver(t)
    BY DEF Next, vars, Process, ReadEvent, ReadTombstone, ReadAccount, Score, Restore, Send,
           Checkpoint, Crash, Stop, Submit
  <1> QED BY <1>1, <1>3, <1>4, <1>5

LEMMA CutFacts ==
    ASSUME TypeInv
    PROVE  /\ log \in LogType /\ CutType(log, offset, owner, waiting, seen, score)
           /\ CutType(log, checkpoint.offset, checkpoint.owner, checkpoint.waiting,
                      checkpoint.seen, checkpoint.score)
  BY DEF TypeInv

LEMMA NextRowTyped ==
    ASSUME TypeInv, NEW t \in Topics, offset[t] < Len(log[t])
    PROVE  /\ offset[t] \in Nat /\ Len(log[t]) \in Nat /\ offset[t] + 1 \in 1..Len(log[t])
           /\ NextRow(t) = log[t][offset[t] + 1]
           /\ NextRow(t) \in RowType /\ NextRow(t).topic = t
  <1>1. offset[t] \in Nat /\ log[t] \in Seq(RowType)
    BY DEF TypeInv, CutType, LogType
  <1>2. offset[t] + 1 \in 1..Len(log[t])
    BY <1>1
  <1> QED BY <1>1, <1>2 DEF TypeInv, LogType, NextRow

LEMMA ReadEventTyped ==
    ASSUME TypeInv, NEW t \in Topics, ReadEvent(t)
    PROVE  CutType(log', offset', owner', waiting', seen', score')
  <1> PICK e : e = Enriched(Normalized(NextRow(t)))
    OBVIOUS
  <1>1. CutType(log, offset, owner, waiting, seen, score)
    BY CutFacts
  <1>2. /\ log' = log /\ owner' = owner /\ seen' = seen /\ score' = score
        /\ offset' = [offset EXCEPT ![t] = offset[t] + 1]
        /\ \/ waiting' = waiting
           \/ waiting' = waiting \cup {e} /\ e.identity # None
        /\ offset[t] < Len(log[t]) /\ Cardinality(waiting) < MaxInFlight
    BY Zenon DEF ReadEvent, HasNext
  <1>3. offset[t] \in Nat /\ Len(log[t]) \in Nat /\ NextRow(t) \in RowType
    BY <1>2, NextRowTyped
  <1>4. e \in Events
    BY <1>1, <1>3, EnrichedTyped DEF CutType
  <1>5. IsFiniteSet(waiting) /\ Cardinality(waiting) \in Nat
    BY <1>1, FS_CardinalityType DEF CutType
  <1>6. IsFiniteSet(waiting \cup {e}) /\ Cardinality(waiting \cup {e}) <= MaxInFlight
    <2>1. /\ IsFiniteSet(waiting \cup {e})
          /\ \/ Cardinality(waiting \cup {e}) = Cardinality(waiting)
             \/ Cardinality(waiting \cup {e}) = Cardinality(waiting) + 1
      BY <1>5, FS_AddElement
    <2> QED BY <1>2, <1>5, <2>1, BoundsAssumption
  <1>7. waiting' \in SUBSET Events /\ \A x \in waiting' : x.identity # None
    BY <1>1, <1>2, <1>4 DEF CutType
  <1>8. IsFiniteSet(waiting') /\ Cardinality(waiting') <= MaxInFlight
    BY <1>1, <1>2, <1>6 DEF CutType
  <1>9. offset' \in [Topics -> Nat] /\ \A u \in Topics : offset'[u] <= Len(log[u])
    BY <1>1, <1>2, <1>3 DEF CutType
  <1> QED BY <1>1, <1>2, <1>7, <1>8, <1>9 DEF CutType

LEMMA UpdatedTyped ==
    ASSUME NEW map \in [Accounts -> Customers \cup {None}], NEW row \in RowType
    PROVE  Updated(map, row) \in [Accounts -> Customers \cup {None}]
  BY DEF Updated, RowType

LEMMA ReadAccountTyped ==
    ASSUME TypeInv, ReadAccount
    PROVE  CutType(log', offset', owner', waiting', seen', score')
  <1> PICK t : t = "banking.accounts"
    OBVIOUS
  <1>1. CutType(log, offset, owner, waiting, seen, score) /\ t \in Topics
    BY CutFacts DEF Topics
  <1>2. /\ log' = log /\ waiting' = waiting /\ seen' = seen /\ score' = score
        /\ offset' = [offset EXCEPT ![t] = offset[t] + 1]
        /\ owner' = Updated(owner, NextRow(t)) /\ offset[t] < Len(log[t])
    BY DEF ReadAccount, HasNext
  <1>3. offset[t] \in Nat /\ Len(log[t]) \in Nat /\ NextRow(t) \in RowType
    BY <1>1, <1>2, NextRowTyped
  <1>4. owner' \in [Accounts -> Customers \cup {None}]
    BY <1>1, <1>2, <1>3, UpdatedTyped DEF CutType
  <1> QED BY <1>1, <1>2, <1>3, <1>4 DEF CutType

LEMMA ScoreTyped ==
    ASSUME TypeInv, NEW e \in waiting, Score(e)
    PROVE  /\ CutType(log', offset', owner', waiting', seen', score')
           /\ unsent' \in SUBSET (Identities \X Keys)
           /\ e.identity \in Identities /\ e.key \in Keys
  <1>1. CutType(log, offset, owner, waiting, seen, score)
    BY CutFacts
  <1>2. e.identity \in Identities /\ e.key \in Keys
    BY <1>1 DEF CutType, Events
  <1>3. /\ log' = log /\ offset' = offset /\ owner' = owner
        /\ waiting' = waiting \ {e}
    BY DEF Score
  <1>4. IsFiniteSet(waiting') /\ Cardinality(waiting') <= Cardinality(waiting)
        /\ Cardinality(waiting) \in Nat /\ Cardinality(waiting') \in Nat
    BY <1>1, <1>3, FS_Subset, FS_CardinalityType DEF CutType
  <1>5. seen' \in SUBSET (Identities \X Keys) /\ score' \in [Identities -> Nat]
        /\ unsent' \in SUBSET (Identities \X Keys)
    BY <1>1, <1>2 DEF Score, CutType, TypeInv
  <1>6. Cardinality(waiting') <= MaxInFlight
    BY <1>1, <1>4, BoundsAssumption DEF CutType
  <1> QED BY <1>1, <1>2, <1>3, <1>4, <1>5, <1>6 DEF CutType

LEMMA ScratchTyped ==
    ASSUME NEW lg \in LogType
    PROVE  /\ CutType(lg, Scratch.offset, Scratch.owner, Scratch.waiting, Scratch.seen,
                      Scratch.score)
           /\ Scratch \in StateType
  <1>1. IsFiniteSet({}) /\ Cardinality({}) = 0
    BY FS_EmptySet
  <1>2. \A t \in Topics : Len(lg[t]) \in Nat
    BY DEF LogType
  <1> QED BY <1>1, <1>2, BoundsAssumption DEF CutType, Scratch, StateType

LEMMA TypeInit == Init => TypeInv
  <1> SUFFICES ASSUME Init PROVE TypeInv
    OBVIOUS
  <1>1. log \in LogType
    BY DEF Init, LogType
  <1>2. /\ offset = Scratch.offset /\ owner = Scratch.owner /\ waiting = Scratch.waiting
        /\ seen = Scratch.seen /\ score = Scratch.score /\ checkpoint = Scratch
    BY DEF Init, Scratch
  <1>3. /\ CutType(log, offset, owner, waiting, seen, score) /\ checkpoint \in StateType
        /\ CutType(log, checkpoint.offset, checkpoint.owner, checkpoint.waiting,
                   checkpoint.seen, checkpoint.score)
    BY <1>1, <1>2, ScratchTyped
  <1>4. unsent = {} /\ published = {} /\ status = "RUNNING" /\ restarts \in 0..MaxRestarts
    BY BoundsAssumption DEF Init
  <1> QED BY <1>1, <1>3, <1>4 DEF TypeInv

(* What a step does to the running cut, the checkpoint and the sinks. *)
LEMMA StepCases ==
    ASSUME [Next]_vars
    PROVE  \/ UNCHANGED <<operators, sinks, checkpoint, status, restarts>>
           \/ \E t \in Topics : ReadEvent(t)
           \/ ReadAccount
           \/ \E e \in waiting : Score(e)
           \/ Restore \/ Send \/ Checkpoint \/ Submit
           \/ Stop
  BY DEF Next, vars, Process, Change, Redeliver, ReadTombstone, Crash

LEMMA TypeStep == TypeInv /\ [Next]_vars => TypeInv'
  <1> SUFFICES ASSUME TypeInv, [Next]_vars PROVE TypeInv'
    OBVIOUS
  <1>1. log' \in LogType /\ Grown(log, log')
    BY LogStep DEF TypeInv
  <1>2. /\ CutType(log', offset, owner, waiting, seen, score)
        /\ CutType(log', checkpoint.offset, checkpoint.owner, checkpoint.waiting,
                   checkpoint.seen, checkpoint.score)
    BY <1>1, CutFacts, CutGrown
  <1>3. checkpoint \in StateType
    BY DEF TypeInv
  <1>4. State \in StateType
    BY CutFacts DEF State, StateType, CutType
  <1>5. /\ unsent \in SUBSET (Identities \X Keys) /\ published \in SUBSET (Identities \X Keys)
        /\ status \in {"RUNNING", "RESTARTING", "FAILED"}
        /\ restarts \in 0..MaxRestarts /\ MaxRestarts \in Nat
    BY BoundsAssumption DEF TypeInv
  <1>6. CASE UNCHANGED <<operators, sinks, checkpoint, status, restarts>>
    BY <1>1, <1>2, <1>3, <1>5, <1>6 DEF TypeInv, operators, sinks
  <1>7. ASSUME NEW t \in Topics, ReadEvent(t) PROVE TypeInv'
    BY <1>1, <1>2, <1>3, <1>5, <1>7, ReadEventTyped DEF TypeInv, ReadEvent, sinks
  <1>8. CASE ReadAccount
    BY <1>1, <1>2, <1>3, <1>5, <1>8, ReadAccountTyped DEF TypeInv, ReadAccount, sinks
  <1>9. ASSUME NEW e \in waiting, Score(e) PROVE TypeInv'
    BY <1>1, <1>2, <1>3, <1>5, <1>9, ScoreTyped DEF TypeInv, Score
  <1>10. CASE Restore
    BY <1>1, <1>2, <1>3, <1>5, <1>10 DEF TypeInv, Restore, From, sinks
  <1>11. CASE Send
    BY <1>1, <1>2, <1>3, <1>5, <1>11 DEF TypeInv, Send, operators
  <1>12. CASE Checkpoint
    <2>1. /\ checkpoint' = State /\ checkpoint'.offset = offset /\ checkpoint'.owner = owner
          /\ checkpoint'.waiting = waiting /\ checkpoint'.seen = seen
          /\ checkpoint'.score = score
          /\ UNCHANGED <<offset, owner, waiting, seen, score, status, restarts>>
          /\ published' = published \cup unsent /\ unsent' = {}
      BY <1>12 DEF Checkpoint, State, operators
    <2> QED BY <1>1, <1>2, <1>4, <1>5, <2>1 DEF TypeInv
  <1>13. CASE Submit
    <2>1. /\ offset' = Scratch.offset /\ owner' = Scratch.owner /\ waiting' = Scratch.waiting
          /\ seen' = Scratch.seen /\ score' = Scratch.score /\ checkpoint' = Scratch
          /\ status' = "RUNNING" /\ restarts' = 0 /\ unsent' = {} /\ published' = published
      BY <1>13 DEF Submit, From
    <2> QED BY <1>1, <1>5, <2>1, ScratchTyped DEF TypeInv
  <1>14. CASE Stop
    <2>1. /\ UNCHANGED <<offset, owner, waiting, seen, score, checkpoint, published>>
          /\ unsent' = {} /\ status' \in {"RESTARTING", "FAILED"}
          /\ \/ restarts' = restarts
             \/ restarts < MaxRestarts /\ restarts' = restarts + 1
      BY <1>14 DEF Stop, operators
    <2>2. restarts' \in 0..MaxRestarts
      BY <1>5, <2>1
    <2> QED BY <1>1, <1>2, <1>3, <1>5, <2>1, <2>2 DEF TypeInv
  <1> QED BY <1>6, <1>7, <1>8, <1>9, <1>10, <1>11, <1>12, <1>13, <1>14, StepCases

LEMMA TypeAlways == Spec => []TypeInv
  BY TypeInit, TypeStep, PTL DEF Spec

(* Operators, checkpoint and sinks keep the types of the job, no source is *)
(* ahead of its topic, and the lookup keeps its capacity.                  *)
THEOREM TypeCorrect == Spec => []TypeOK
  <1>1. TypeInv => TypeOK
    <2> SUFFICES ASSUME TypeInv PROVE TypeOK
      OBVIOUS
    <2>1. State \in StateType
      BY CutFacts DEF State, StateType, CutType
    <2> QED BY <2>1, CutFacts DEF TypeInv, TypeOK, CutType
  <1> QED BY <1>1, TypeAlways, PTL

-----------------------------------------------------------------------------
(* The alerts. *)

(* An alert of a running job is in Kafka, in a buffer, or of an event the  *)
(* checkpoint knows; those of the checkpoint were flushed before it.       *)
THEOREM AlertsNeverLost == Spec => []AlertsPublished
  <1>1. Init => AlertsPublished
    BY DEF Init, AlertsPublished, Scratch
  <1>2. AlertsPublished /\ [Next]_vars => AlertsPublished'
    <2> SUFFICES ASSUME AlertsPublished, [Next]_vars PROVE AlertsPublished'
      OBVIOUS
    <2>1. CASE UNCHANGED <<operators, sinks, checkpoint, status, restarts>>
      BY <2>1 DEF AlertsPublished, operators, sinks, Running
    <2>2. ASSUME NEW t \in Topics, ReadEvent(t) PROVE AlertsPublished'
      BY <2>2 DEF AlertsPublished, ReadEvent, sinks, Running
    <2>3. CASE ReadAccount
      BY <2>3 DEF AlertsPublished, ReadAccount, sinks, Running
    <2>4. ASSUME NEW e \in waiting, Score(e) PROVE AlertsPublished'
      BY <2>4 DEF AlertsPublished, Score, Running
    <2>5. CASE Restore
      BY <2>5 DEF AlertsPublished, Restore, From, sinks, Running
    <2>6. CASE Send
      BY <2>6 DEF AlertsPublished, Send, operators, Running
    <2>7. CASE Checkpoint
      BY <2>7 DEF AlertsPublished, Checkpoint, State, operators, Running
    <2>8. CASE Submit
      BY <2>8 DEF AlertsPublished, Submit, From, Scratch, Running
    <2>9. CASE Stop
      BY <2>9 DEF AlertsPublished, Stop, operators, Running
    <2> QED BY <2>1, <2>2, <2>3, <2>4, <2>5, <2>6, <2>7, <2>8, <2>9, StepCases
  <1> QED BY <1>1, <1>2, PTL DEF Spec

-----------------------------------------------------------------------------
(* The account map. *)

(* Naming, of any topics. *)
NamingIn(lg, a, n) ==
    {m \in 1..n : LET row == lg["banking.accounts"][m]
                  IN  /\ row.value = "json" /\ row.account = a
                      /\ row.op = "d" \/ row.customer # None}

OwnerBy(row) == IF row.op = "d" THEN None ELSE row.customer

(* There is a last row that names the owner of a, if there is any.         *)
OwnedAs(lg, n, a, customer) ==
    \/ NamingIn(lg, a, n) = {} /\ customer = None
    \/ \E m \in NamingIn(lg, a, n) :
         /\ \A k \in NamingIn(lg, a, n) : k <= m
         /\ customer = OwnerBy(lg["banking.accounts"][m])

Owned(lg, n, own) == \A a \in Accounts : OwnedAs(lg, n, a, own[a])

OwnerInv ==
    /\ TypeInv
    /\ Owned(log, offset["banking.accounts"], owner)
    /\ Owned(log, checkpoint.offset["banking.accounts"], checkpoint.owner)

LEMMA OwnerGrown ==
    ASSUME NEW lg \in LogType, NEW more, Grown(lg, more),
           NEW n \in Nat, n <= Len(lg["banking.accounts"]), NEW own, Owned(lg, n, own)
    PROVE  Owned(more, n, own)
  <1> PICK t : t = "banking.accounts"
    OBVIOUS
  <1>1. t \in Topics /\ Len(lg[t]) \in Nat
    BY DEF Topics, LogType
  <1>2. \A m \in 1..n : more[t][m] = lg[t][m]
    BY <1>1 DEF Grown
  <1>3. ASSUME NEW a
        PROVE  NamingIn(more, a, n) = NamingIn(lg, a, n)
    BY <1>2 DEF NamingIn
  <1>4. ASSUME NEW a \in Accounts
        PROVE  OwnedAs(more, n, a, own[a])
    <2>1. OwnedAs(lg, n, a, own[a])
      BY DEF Owned
    <2>2. \A m \in NamingIn(lg, a, n) : more[t][m] = lg[t][m]
      BY <1>2 DEF NamingIn
    <2> QED BY <1>3, <2>1, <2>2 DEF OwnedAs
  <1> QED BY <1>4 DEF Owned

(* The row after the n rows read. *)
LEMMA OwnerOfNextRow ==
    ASSUME NEW lg \in LogType, NEW n \in Nat, n + 1 <= Len(lg["banking.accounts"]),
           NEW own \in [Accounts -> Customers \cup {None}], Owned(lg, n, own)
    PROVE  Owned(lg, n + 1, Updated(own, lg["banking.accounts"][n + 1]))
  <1> PICK t, row : t = "banking.accounts" /\ row = lg[t][n + 1]
    OBVIOUS
  <1>1. row \in RowType
    <2>1. t \in Topics
      BY DEF Topics
    <2>2. lg[t] \in Seq(RowType) /\ n + 1 \in 1..Len(lg[t])
      BY <2>1 DEF LogType
    <2> QED BY <2>2
  <1> DEFINE names(a) == /\ row.value = "json" /\ row.account = a
                         /\ row.op = "d" \/ row.customer # None
  <1>2. ASSUME NEW a \in Accounts
        PROVE  OwnedAs(lg, n + 1, a, Updated(own, row)[a])
    <2>1. OwnedAs(lg, n, a, own[a])
      BY DEF Owned
    <2>2. a # None
      BY NamesAssumption
    <2>3. \A m \in 1..n + 1 : m \in 1..n \/ m = n + 1
      OBVIOUS
    <2>4. n + 1 \in 1..n + 1 /\ \A m \in 1..n : m \in 1..n + 1
      OBVIOUS
    <2>5. CASE names(a)
      <3>1. n + 1 \in NamingIn(lg, a, n + 1)
        BY <2>4, <2>5 DEF NamingIn
      <3>2. \A k \in NamingIn(lg, a, n + 1) : k <= n + 1
        BY DEF NamingIn
      <3>3. Updated(own, row)[a] = OwnerBy(row)
        BY <1>1, <2>2, <2>5 DEF Updated, OwnerBy, RowType
      <3> QED BY <3>1, <3>2, <3>3 DEF OwnedAs
    <2>6. CASE ~names(a)
      <3>1. NamingIn(lg, a, n + 1) = NamingIn(lg, a, n)
        BY <2>3, <2>4, <2>6 DEF NamingIn
      <3>2. Updated(own, row)[a] = own[a]
        BY <1>1, <2>2, <2>6 DEF Updated, RowType
      <3> QED BY <2>1, <3>1, <3>2 DEF OwnedAs
    <2> QED BY <2>5, <2>6
  <1> QED BY <1>2 DEF Owned

LEMMA OwnerScratch ==
    ASSUME NEW lg
    PROVE  Owned(lg, Scratch.offset["banking.accounts"], Scratch.owner)
  <1>1. Scratch.offset["banking.accounts"] = 0
    BY DEF Scratch, Topics
  <1>2. \A a : NamingIn(lg, a, 0) = {}
    BY DEF NamingIn
  <1>3. \A a \in Accounts : Scratch.owner[a] = None
    BY DEF Scratch
  <1> QED BY <1>1, <1>2, <1>3 DEF Owned, OwnedAs

LEMMA OwnerInit == Init => OwnerInv
  <1> SUFFICES ASSUME Init PROVE OwnerInv
    OBVIOUS
  <1>1. offset = Scratch.offset /\ owner = Scratch.owner /\ checkpoint = Scratch
    BY DEF Init
  <1> QED BY <1>1, OwnerScratch, TypeInit DEF OwnerInv

LEMMA OwnerStep == OwnerInv /\ [Next]_vars => OwnerInv'
  <1> SUFFICES ASSUME OwnerInv, [Next]_vars PROVE OwnerInv'
    OBVIOUS
  <1> PICK t : t = "banking.accounts"
    OBVIOUS
  <1>1. TypeInv /\ TypeInv'
    BY TypeStep DEF OwnerInv
  <1>2. log \in LogType /\ log' \in LogType /\ Grown(log, log') /\ t \in Topics
    BY <1>1, LogStep DEF TypeInv, Topics
  <1>3. /\ offset[t] \in Nat /\ offset[t] <= Len(log[t])
        /\ checkpoint.offset[t] \in Nat /\ checkpoint.offset[t] <= Len(log[t])
    BY <1>1, <1>2 DEF TypeInv, CutType
  <1>4. Owned(log', offset[t], owner)
    BY <1>2, <1>3, OwnerGrown DEF OwnerInv
  <1>5. Owned(log', checkpoint.offset[t], checkpoint.owner)
    BY <1>2, <1>3, OwnerGrown DEF OwnerInv
  <1>6. ASSUME Owned(log', offset'[t], owner'),
               Owned(log', checkpoint'.offset[t], checkpoint'.owner)
        PROVE  OwnerInv'
    BY <1>1, <1>6 DEF OwnerInv
  <1>7. CASE offset'[t] = offset[t] /\ owner' = owner /\ checkpoint' = checkpoint
    BY <1>4, <1>5, <1>6, <1>7
  <1>8. CASE ReadAccount
    <2>1. /\ offset[t] < Len(log[t]) /\ offset' = [offset EXCEPT ![t] = offset[t] + 1]
          /\ owner' = Updated(owner, log[t][offset[t] + 1])
          /\ log' = log /\ checkpoint' = checkpoint
      BY <1>8 DEF ReadAccount, HasNext, NextRow
    <2>2. /\ owner \in [Accounts -> Customers \cup {None}] /\ offset \in [Topics -> Nat]
          /\ Owned(log, offset[t], owner)
      BY <1>1 DEF TypeInv, CutType, OwnerInv
    <2>3. offset[t] + 1 <= Len(log[t]) /\ offset'[t] = offset[t] + 1
      <3>1. Len(log[t]) \in Nat
        BY <1>2 DEF LogType
      <3> QED BY <1>2, <1>3, <2>1, <2>2, <3>1
    <2>4. Owned(log, offset[t] + 1, Updated(owner, log[t][offset[t] + 1]))
      BY <1>2, <1>3, <2>2, <2>3, OwnerOfNextRow
    <2> QED BY <1>5, <1>6, <2>1, <2>3, <2>4
  <1>9. CASE Restore
    BY <1>5, <1>6, <1>9 DEF Restore, From
  <1>10. CASE Checkpoint
    <2>1. /\ checkpoint'.offset = offset /\ checkpoint'.owner = owner
          /\ offset' = offset /\ owner' = owner
      BY <1>10 DEF Checkpoint, State, operators
    <2> QED BY <1>4, <1>6, <2>1
  <1>11. CASE Submit
    <2>1. offset' = Scratch.offset /\ owner' = Scratch.owner /\ checkpoint' = Scratch
      BY <1>11 DEF Submit, From
    <2> QED BY <1>6, <2>1, OwnerScratch
  <1>12. ASSUME NEW u \in Topics, ReadEvent(u)
         PROVE  offset'[t] = offset[t] /\ owner' = owner /\ checkpoint' = checkpoint
    BY <1>2, <1>12 DEF ReadEvent, EventTopics
  <1>13. ASSUME \/ UNCHANGED <<operators, sinks, checkpoint, status, restarts>>
                \/ \E e \in waiting : Score(e)
                \/ Send \/ Stop
         PROVE  offset'[t] = offset[t] /\ owner' = owner /\ checkpoint' = checkpoint
    BY <1>13 DEF operators, Score, Send, Stop
  <1> QED BY <1>7, <1>8, <1>9, <1>10, <1>11, <1>12, <1>13, StepCases

(* OwnerOfLastRow: in whatever order the two inputs of the join advance,   *)
(* and wherever the job restarts from, the account map is what the account *)
(* rows read say.                                                          *)
THEOREM OwnerFollowsLog == Spec => []OwnerOfLastRow
  <1>1. ASSUME NEW n, NEW a, NEW customer, OwnedAs(log, n, a, customer)
        PROVE  customer = LET naming == Naming(a, n)
                          IN  IF naming = {} THEN None
                              ELSE LET last == CHOOSE m \in naming : \A k \in naming : k <= m
                                       row  == log["banking.accounts"][last]
                                   IN  IF row.op = "d" THEN None ELSE row.customer
    <2> DEFINE naming == Naming(a, n)
               last == CHOOSE m \in naming : \A k \in naming : k <= m
    <2>1. naming = NamingIn(log, a, n)
      BY DEF Naming, NamingIn
    <2>2. CASE naming = {}
      BY <1>1, <2>1, <2>2 DEF OwnedAs
    <2>3. CASE naming # {}
      <3>1. PICK m \in naming : /\ \A k \in naming : k <= m
                                /\ customer = OwnerBy(log["banking.accounts"][m])
        BY <1>1, <2>1, <2>3 DEF OwnedAs
      <3>2. last \in naming /\ \A k \in naming : k <= last
        BY <3>1
      <3>3. naming \subseteq Int
        BY <2>1 DEF NamingIn
      <3>4. last = m
        <4> HIDE DEF last, naming
        <4>1. last \in Int /\ m \in Int /\ last <= m /\ m <= last
          BY <3>1, <3>2, <3>3
        <4> QED BY <4>1
      <3> QED BY <2>3, <3>1, <3>4 DEF OwnerBy
    <2> QED BY <2>2, <2>3
  <1>2. OwnerInv => OwnerOfLastRow
    <2> SUFFICES ASSUME OwnerInv, NEW a \in Accounts, NEW c \in {State, checkpoint}
                 PROVE  OwnedAs(log, c.offset["banking.accounts"], a, c.owner[a])
      BY <1>1 DEF OwnerOfLastRow
    <2>1. State.offset = offset /\ State.owner = owner
      BY DEF State
    <2> QED BY <2>1 DEF OwnerInv, Owned
  <1> QED BY <1>2, OwnerInit, OwnerStep, PTL DEF Spec

-----------------------------------------------------------------------------
(* Rows scored. *)

(* The deliveries of row k that a cut is past, and the identities that     *)
(* have taken it: scored, or in the lookup.                                *)
Passed(lg, off, k) ==
    {p \in EventTopics \X Nat :
        p[2] \in 1..off[p[1]] /\ lg[p[1]][p[2]].lsn = k /\ Due(lg[p[1]][p[2]])}

Taken(wait, sn, k) ==
    {i \in Identities : <<i, k>> \in sn} \cup {e.identity : e \in {w \in wait : w.key = k}}

OnceAt(lg, off, wait, sn, k) ==
    /\ IsFiniteSet(Passed(lg, off, k)) /\ IsFiniteSet(Taken(wait, sn, k))
    /\ Passed(lg, off, k) # {} => Taken(wait, sn, k) # {}
    /\ Cardinality(Taken(wait, sn, k)) <= Cardinality(Passed(lg, off, k))

RowsOf(sn, i) == {k \in Keys : <<i, k>> \in sn}

Counted(sn, sc) == \A i \in Identities : sc[i] = Cardinality(RowsOf(sn, i))

Once(lg, off, wait, sn, sc) ==
    Counted(sn, sc) /\ \A k \in Keys : OnceAt(lg, off, wait, sn, k)

OnceInv ==
    /\ TypeInv
    /\ Once(log, offset, waiting, seen, score)
    /\ Once(log, checkpoint.offset, checkpoint.waiting, checkpoint.seen, checkpoint.score)

LEMMA OnceGrown ==
    ASSUME NEW lg \in LogType, NEW more, Grown(lg, more), NEW off \in [Topics -> Nat],
           \A t \in Topics : off[t] <= Len(lg[t]),
           NEW wait, NEW sn, NEW sc, Once(lg, off, wait, sn, sc)
    PROVE  Once(more, off, wait, sn, sc)
  <1>1. ASSUME NEW t \in EventTopics, NEW n \in 1..off[t]
        PROVE  more[t][n] = lg[t][n]
    <2>1. t \in Topics
      BY DEF Topics
    <2>2. Len(lg[t]) \in Nat /\ off[t] \in Nat /\ off[t] <= Len(lg[t])
      BY <2>1 DEF LogType
    <2>3. n \in 1..Len(lg[t])
      BY <2>2
    <2> QED BY <2>1, <2>3 DEF Grown
  <1>2. ASSUME NEW k
        PROVE  Passed(more, off, k) = Passed(lg, off, k)
    BY <1>1 DEF Passed
  <1> QED BY <1>2 DEF Once, OnceAt

LEMMA SamePairs ==
    ASSUME NEW S \in SUBSET (EventTopics \X Nat), NEW T \in SUBSET (EventTopics \X Nat),
           \A t \in EventTopics : \A n \in Nat : <<t, n>> \in S <=> <<t, n>> \in T
    PROVE  S = T
  <1>1. ASSUME NEW p \in EventTopics \X Nat
        PROVE  p \in S <=> p \in T
    <2>1. PICK t \in EventTopics, n \in Nat : p = <<t, n>>
      OBVIOUS
    <2> QED BY <2>1
  <1> QED BY <1>1

LEMMA OneMore ==
    ASSUME NEW S, NEW x, IsFiniteSet(S)
    PROVE  /\ IsFiniteSet(S \cup {x})
           /\ Cardinality(S) \in Nat /\ Cardinality(S \cup {x}) \in Nat
           /\ Cardinality(S \cup {x}) <= Cardinality(S) + 1
           /\ x \notin S => Cardinality(S \cup {x}) = Cardinality(S) + 1
  <1>1. Cardinality(S) \in Nat
    BY FS_CardinalityType
  <1>2. IsFiniteSet(S \cup {x}) /\ x \in S => Cardinality(S \cup {x}) = Cardinality(S)
    BY FS_AddElement
  <1>3. x \notin S => Cardinality(S \cup {x}) = Cardinality(S) + 1
    BY FS_AddElement
  <1> QED BY <1>1, <1>2, <1>3, FS_AddElement

(* A row read is due exactly if it goes to the lookup. *)
LEMMA ReadOnce ==
    ASSUME NEW lg \in LogType, NEW off \in [Topics -> Nat], NEW t \in EventTopics,
           off[t] + 1 <= Len(lg[t]),
           NEW wait, NEW sn, NEW e,
           e.key = lg[t][off[t] + 1].lsn,
           e.identity = None <=> /\ lg[t][off[t] + 1].customer = None
                                 /\ lg[t][off[t] + 1].address = None
                                 /\ lg[t][off[t] + 1].account = None,
           NEW wait2, wait2 = IF IsEvent(lg[t][off[t] + 1]) /\ e.identity # None
                              THEN wait \cup {e} ELSE wait,
           NEW k \in Keys, OnceAt(lg, off, wait, sn, k)
    PROVE  OnceAt(lg, [off EXCEPT ![t] = off[t] + 1], wait2, sn, k)
  <1> PICK n, off2, row : n = off[t] + 1 /\ off2 = [off EXCEPT ![t] = n] /\ row = lg[t][n]
    OBVIOUS
  <1>1. t \in Topics /\ off[t] \in Nat /\ n \in Nat
    BY DEF Topics
  <1>2. row.topic = t
    <2>1. lg[t] \in Seq(RowType) /\ n \in 1..Len(lg[t])
      BY <1>1 DEF LogType
    <2> QED BY <1>1, <2>1 DEF LogType
  <1>3. Due(row) <=> IsEvent(row) /\ e.identity # None
    BY <1>2 DEF Due, IsEvent
  <1>4. /\ off2[t] = n /\ \A u \in Topics : u # t => off2[u] = off[u]
        /\ \A m \in 1..n : m \in 1..off[t] \/ m = n
        /\ n \in 1..n /\ n \notin 1..off[t] /\ \A m \in 1..off[t] : m \in 1..n
    BY <1>1
  <1>5. CASE Due(row) /\ row.lsn = k
    <2>1. Passed(lg, off2, k) = Passed(lg, off, k) \cup {<<t, n>>}
      <3>1. ASSUME NEW u \in EventTopics, NEW m \in Nat
            PROVE  <<u, m>> \in Passed(lg, off2, k)
                     <=> <<u, m>> \in Passed(lg, off, k) \cup {<<t, n>>}
        <4>1. u \in Topics
          BY DEF Topics
        <4>2. CASE u = t
          BY <1>4, <1>5, <4>2 DEF Passed
        <4>3. CASE u # t
          BY <1>4, <4>1, <4>3 DEF Passed
        <4> QED BY <4>2, <4>3
      <3>2. /\ Passed(lg, off2, k) \in SUBSET (EventTopics \X Nat)
            /\ Passed(lg, off, k) \cup {<<t, n>>} \in SUBSET (EventTopics \X Nat)
        BY <1>1 DEF Passed
      <3>3. PICK S, T : S = Passed(lg, off2, k) /\ T = Passed(lg, off, k) \cup {<<t, n>>}
        OBVIOUS
      <3>4. /\ S \in SUBSET (EventTopics \X Nat) /\ T \in SUBSET (EventTopics \X Nat)
            /\ \A a \in EventTopics : \A b \in Nat : <<a, b>> \in S <=> <<a, b>> \in T
        BY <3>1, <3>2, <3>3
      <3>5. S = T
        BY <3>4, SamePairs
      <3> QED BY <3>3, <3>5
    <2>2. <<t, n>> \notin Passed(lg, off, k)
      BY <1>4 DEF Passed
    <2>3. Taken(wait2, sn, k) = Taken(wait, sn, k) \cup {e.identity}
      BY <1>3, <1>5 DEF Taken
    <2>4. /\ IsFiniteSet(Passed(lg, off2, k))
          /\ Cardinality(Passed(lg, off2, k)) = Cardinality(Passed(lg, off, k)) + 1
          /\ Cardinality(Passed(lg, off, k)) \in Nat
      <3>1. PICK S, x : S = Passed(lg, off, k) /\ x = <<t, n>>
        OBVIOUS
      <3>2. IsFiniteSet(S) /\ x \notin S
        BY <2>2, <3>1 DEF OnceAt
      <3>3. /\ IsFiniteSet(S \cup {x}) /\ Cardinality(S) \in Nat
            /\ Cardinality(S \cup {x}) = Cardinality(S) + 1
        BY <3>2, OneMore
      <3> QED BY <2>1, <3>1, <3>3
    <2>5. /\ IsFiniteSet(Taken(wait2, sn, k)) /\ Cardinality(Taken(wait2, sn, k)) \in Nat
          /\ Cardinality(Taken(wait2, sn, k)) <= Cardinality(Taken(wait, sn, k)) + 1
          /\ Cardinality(Taken(wait, sn, k)) \in Nat
      <3>1. PICK S, x : S = Taken(wait, sn, k) /\ x = e.identity
        OBVIOUS
      <3>2. IsFiniteSet(S)
        BY <3>1 DEF OnceAt
      <3>3. /\ IsFiniteSet(S \cup {x}) /\ Cardinality(S) \in Nat
            /\ Cardinality(S \cup {x}) \in Nat
            /\ Cardinality(S \cup {x}) <= Cardinality(S) + 1
        BY <3>2, OneMore
      <3> QED BY <2>3, <3>1, <3>3
    <2>6. Cardinality(Taken(wait, sn, k)) <= Cardinality(Passed(lg, off, k))
      BY DEF OnceAt
    <2>7. Cardinality(Taken(wait2, sn, k)) <= Cardinality(Passed(lg, off2, k))
      BY <2>4, <2>5, <2>6
    <2> QED BY <2>3, <2>4, <2>5, <2>7 DEF OnceAt
  <1>6. CASE ~(Due(row) /\ row.lsn = k)
    <2>1. Passed(lg, off2, k) = Passed(lg, off, k)
      <3>1. ASSUME NEW u \in EventTopics, NEW m \in Nat
            PROVE  <<u, m>> \in Passed(lg, off2, k) <=> <<u, m>> \in Passed(lg, off, k)
        <4>1. u \in Topics
          BY DEF Topics
        <4>2. CASE u = t
          BY <1>4, <1>6, <4>2 DEF Passed
        <4>3. CASE u # t
          BY <1>4, <4>1, <4>3 DEF Passed
        <4> QED BY <4>2, <4>3
      <3>2. /\ Passed(lg, off2, k) \in SUBSET (EventTopics \X Nat)
            /\ Passed(lg, off, k) \in SUBSET (EventTopics \X Nat)
        BY DEF Passed
      <3>3. PICK S, T : S = Passed(lg, off2, k) /\ T = Passed(lg, off, k)
        OBVIOUS
      <3>4. /\ S \in SUBSET (EventTopics \X Nat) /\ T \in SUBSET (EventTopics \X Nat)
            /\ \A a \in EventTopics : \A b \in Nat : <<a, b>> \in S <=> <<a, b>> \in T
        BY <3>1, <3>2, <3>3
      <3>5. S = T
        BY <3>4, SamePairs
      <3> QED BY <3>3, <3>5
    <2>2. Taken(wait2, sn, k) = Taken(wait, sn, k)
      BY <1>3, <1>6 DEF Taken
    <2> QED BY <2>1, <2>2 DEF OnceAt
  <1> QED BY <1>5, <1>6

(* An event that leaves the lookup goes to the scored ones. *)
LEMMA ScoreTaken ==
    ASSUME NEW wait, NEW e \in wait, NEW sn, NEW sn2, sn2 = sn \cup {<<e.identity, e.key>>},
           e.identity \in Identities, NEW k
    PROVE  Taken(wait \ {e}, sn2, k) = Taken(wait, sn, k)
  <1>1. \A i \in Identities : <<i, k>> \in sn2 <=>
          <<i, k>> \in sn \/ (i = e.identity /\ k = e.key)
    OBVIOUS
  <1> QED BY <1>1 DEF Taken

LEMMA ScoreCounted ==
    ASSUME NEW sn, NEW sc \in [Identities -> Nat], NEW i \in Identities, NEW k \in Keys,
           Counted(sn, sc), <<i, k>> \notin sn
    PROVE  Counted(sn \cup {<<i, k>>}, [sc EXCEPT ![i] = @ + 1])
  <1> PICK sn2 : sn2 = sn \cup {<<i, k>>}
    OBVIOUS
  <1>1. RowsOf(sn2, i) = RowsOf(sn, i) \cup {k} /\ k \notin RowsOf(sn, i)
    BY DEF RowsOf
  <1>2. \A j \in Identities : j # i => RowsOf(sn2, j) = RowsOf(sn, j)
    BY DEF RowsOf
  <1>3. RowsOf(sn, i) \in SUBSET Keys
    BY DEF RowsOf
  <1>4. Cardinality(RowsOf(sn2, i)) = Cardinality(RowsOf(sn, i)) + 1
    BY <1>1, <1>3, KeysFinite, FS_AddElement
  <1> QED BY <1>2, <1>4 DEF Counted

LEMMA OnceScratch ==
    ASSUME NEW lg
    PROVE  Once(lg, Scratch.offset, Scratch.waiting, Scratch.seen, Scratch.score)
  <1>1. \A t \in EventTopics : Scratch.offset[t] = 0
    BY DEF Scratch, Topics
  <1>2. \A k : Passed(lg, Scratch.offset, k) = {}
    BY <1>1 DEF Passed
  <1>3. \A k : Taken(Scratch.waiting, Scratch.seen, k) = {}
    BY DEF Scratch, Taken
  <1>4. \A i : RowsOf(Scratch.seen, i) = {}
    BY DEF Scratch, RowsOf
  <1>5. \A i \in Identities : Scratch.score[i] = 0
    BY DEF Scratch
  <1>6. IsFiniteSet({}) /\ Cardinality({}) = 0
    BY FS_EmptySet
  <1>7. Counted(Scratch.seen, Scratch.score)
    BY <1>4, <1>5, <1>6 DEF Counted
  <1>8. \A k \in Keys : OnceAt(lg, Scratch.offset, Scratch.waiting, Scratch.seen, k)
    BY <1>2, <1>3, <1>6 DEF OnceAt
  <1> QED BY <1>7, <1>8 DEF Once

LEMMA OnceInit == Init => OnceInv
  <1> SUFFICES ASSUME Init PROVE OnceInv
    OBVIOUS
  <1>1. /\ offset = Scratch.offset /\ waiting = Scratch.waiting /\ seen = Scratch.seen
        /\ score = Scratch.score /\ checkpoint = Scratch
    BY DEF Init, Scratch
  <1> QED BY <1>1, OnceScratch, TypeInit DEF OnceInv

LEMMA ReadEventOnce ==
    ASSUME OnceInv, NEW t \in Topics, ReadEvent(t)
    PROVE  Once(log', offset', waiting', seen', score')
  <1> PICK e, row : row = log[t][offset[t] + 1] /\ e = Enriched(Normalized(row))
    OBVIOUS
  <1>1. TypeInv /\ Once(log, offset, waiting, seen, score)
    BY DEF OnceInv
  <1>2. /\ log' = log /\ seen' = seen /\ score' = score /\ t \in EventTopics
        /\ offset' = [offset EXCEPT ![t] = offset[t] + 1] /\ offset[t] < Len(log[t])
        /\ waiting' = IF IsEvent(row) /\ e.identity # None THEN waiting \cup {e} ELSE waiting
    BY DEF ReadEvent, HasNext, NextRow
  <1>3. offset[t] + 1 <= Len(log[t]) /\ row \in RowType
    BY <1>1, <1>2, NextRowTyped
  <1>4. log \in LogType /\ offset \in [Topics -> Nat]
        /\ owner \in [Accounts -> Customers \cup {None}]
    BY <1>1 DEF TypeInv, CutType
  <1>5. /\ e.key = row.lsn
        /\ e.identity = None <=>
             row.customer = None /\ row.address = None /\ row.account = None
    BY <1>3, <1>4, EnrichedTyped
  <1>6. ASSUME NEW k \in Keys
        PROVE  OnceAt(log, [offset EXCEPT ![t] = offset[t] + 1], waiting', seen, k)
    <2>1. OnceAt(log, offset, waiting, seen, k)
      BY <1>1 DEF Once
    <2> PICK lg, off, wait, sn, wait2 :
          lg = log /\ off = offset /\ wait = waiting /\ sn = seen /\ wait2 = waiting'
      OBVIOUS
    <2>2. /\ lg \in LogType /\ off \in [Topics -> Nat] /\ off[t] + 1 <= Len(lg[t])
          /\ e.key = lg[t][off[t] + 1].lsn
          /\ e.identity = None <=> /\ lg[t][off[t] + 1].customer = None
                                   /\ lg[t][off[t] + 1].address = None
                                   /\ lg[t][off[t] + 1].account = None
          /\ wait2 = IF IsEvent(lg[t][off[t] + 1]) /\ e.identity # None
                     THEN wait \cup {e} ELSE wait
          /\ OnceAt(lg, off, wait, sn, k) /\ t \in EventTopics
      BY <1>2, <1>3, <1>4, <1>5, <2>1
    <2>3. OnceAt(lg, [off EXCEPT ![t] = off[t] + 1], wait2, sn, k)
      BY <2>2, ReadOnce
    <2> QED BY <2>3
  <1> QED BY <1>1, <1>2, <1>6 DEF Once

LEMMA ScoreOnce ==
    ASSUME OnceInv, NEW e \in waiting, Score(e)
    PROVE  Once(log', offset', waiting', seen', score')
  <1> PICK pair : pair = <<e.identity, e.key>>
    OBVIOUS
  <1>1. TypeInv /\ Once(log, offset, waiting, seen, score)
    BY DEF OnceInv
  <1>2. e.identity \in Identities /\ e.key \in Keys
    BY <1>1, ScoreTyped
  <1>3. /\ log' = log /\ offset' = offset /\ waiting' = waiting \ {e}
        /\ seen' = seen \cup {pair}
    BY DEF Score
  <1>4. \A k : Taken(waiting', seen', k) = Taken(waiting, seen, k)
    BY <1>2, <1>3, ScoreTaken
  <1>5. Counted(seen', score')
    <2>1. CASE pair \in seen
      BY <1>1, <2>1 DEF Score, Once
    <2>2. CASE pair \notin seen
      <3>1. score' = [score EXCEPT ![e.identity] = @ + 1]
        BY <2>2 DEF Score
      <3>2. score \in [Identities -> Nat] /\ Counted(seen, score)
        BY <1>1 DEF TypeInv, CutType, Once
      <3> QED BY <1>2, <1>3, <2>2, <3>1, <3>2, ScoreCounted
    <2> QED BY <2>1, <2>2
  <1>6. \A k \in Keys : OnceAt(log', offset', waiting', seen', k)
    BY <1>1, <1>3, <1>4 DEF Once, OnceAt
  <1> QED BY <1>5, <1>6 DEF Once

LEMMA OnceStep == OnceInv /\ [Next]_vars => OnceInv'
  <1> SUFFICES ASSUME OnceInv, [Next]_vars PROVE OnceInv'
    OBVIOUS
  <1>1. TypeInv /\ TypeInv'
    BY TypeStep DEF OnceInv
  <1>2. log \in LogType /\ log' \in LogType /\ Grown(log, log')
    BY <1>1, LogStep DEF TypeInv
  <1>3. Once(log', offset, waiting, seen, score)
    BY <1>1, <1>2, OnceGrown DEF TypeInv, CutType, OnceInv
  <1>4. Once(log', checkpoint.offset, checkpoint.waiting, checkpoint.seen, checkpoint.score)
    BY <1>1, <1>2, OnceGrown DEF TypeInv, CutType, OnceInv
  <1>5. ASSUME Once(log', offset', waiting', seen', score'),
               Once(log', checkpoint'.offset, checkpoint'.waiting, checkpoint'.seen,
                    checkpoint'.score)
        PROVE  OnceInv'
    BY <1>1, <1>5 DEF OnceInv
  <1>6. CASE UNCHANGED <<offset, waiting, seen, score, checkpoint>>
    BY <1>3, <1>4, <1>5, <1>6
  <1>7. ASSUME NEW t \in Topics, ReadEvent(t) PROVE OnceInv'
    BY <1>4, <1>5, <1>7, ReadEventOnce DEF ReadEvent
  <1>8. ASSUME NEW e \in waiting, Score(e) PROVE OnceInv'
    BY <1>4, <1>5, <1>8, ScoreOnce DEF Score
  <1>9. CASE Restore
    BY <1>4, <1>5, <1>9 DEF Restore, From
  <1>10. CASE Checkpoint
    <2>1. /\ checkpoint'.offset = offset /\ checkpoint'.waiting = waiting
          /\ checkpoint'.seen = seen /\ checkpoint'.score = score
          /\ UNCHANGED <<offset, waiting, seen, score>>
      BY <1>10 DEF Checkpoint, State, operators
    <2> QED BY <1>3, <1>5, <2>1
  <1>11. CASE Submit
    <2>1. /\ offset' = Scratch.offset /\ waiting' = Scratch.waiting /\ seen' = Scratch.seen
          /\ score' = Scratch.score /\ checkpoint' = Scratch
      BY <1>11 DEF Submit, From
    <2> QED BY <1>5, <2>1, OnceScratch
  <1>12. ASSUME \/ UNCHANGED <<operators, sinks, checkpoint, status, restarts>>
                \/ ReadAccount \/ Send \/ Stop
         PROVE  UNCHANGED <<offset, waiting, seen, score, checkpoint>>
                \/ ReadAccount
    BY <1>12 DEF operators, Send, Stop
  <1>13. CASE ReadAccount
    <2>1. /\ UNCHANGED <<log, waiting, seen, score, checkpoint>>
          /\ offset' = [offset EXCEPT !["banking.accounts"] = @ + 1]
      BY <1>13 DEF ReadAccount
    <2>2. \A t \in EventTopics : offset'[t] = offset[t]
      BY <1>1, <2>1 DEF TypeInv, CutType, EventTopics, Topics
    <2>3. \A k : Passed(log, offset', k) = Passed(log, offset, k)
      BY <2>2 DEF Passed
    <2>4. Once(log, offset', waiting, seen, score)
      BY <1>3, <2>1, <2>3 DEF Once, OnceAt
    <2> QED BY <1>4, <1>5, <2>1, <2>4
  <1> QED BY <1>6, <1>7, <1>8, <1>9, <1>10, <1>11, <1>12, <1>13, StepCases

(* ExactlyOnce: whatever the lookup reorders, the connector repeats and    *)
(* the checkpoints restore, a row the sources are past has been taken, no  *)
(* more often than it was delivered, and counts once for an identity.      *)
THEOREM CountedExactlyOnce == Spec => []ExactlyOnce
  <1>1. ASSUME TypeInv, NEW k \in Keys
        PROVE  Reads(k) = Cardinality(Passed(log, offset, k))
    <2> DEFINE at(t) == {m \in 1..offset[t] : log[t][m].lsn = k /\ Due(log[t][m])}
               reads == UNION {{<<t, n>> : n \in at(t)} : t \in EventTopics}
    <2>1. \A t \in EventTopics : offset[t] \in Nat
      BY <1>1 DEF TypeInv, CutType, Topics
    <2>2. ASSUME NEW p
          PROVE  p \in reads <=> p \in Passed(log, offset, k)
      <3>1. ASSUME p \in reads PROVE p \in Passed(log, offset, k)
        <4>1. PICK t \in EventTopics : p \in {<<t, n>> : n \in at(t)}
          BY <3>1
        <4>2. PICK n \in at(t) : p = <<t, n>>
          BY <4>1
        <4>3. n \in 1..offset[t] /\ log[t][n].lsn = k /\ Due(log[t][n])
          OBVIOUS
        <4>4. n \in Nat /\ p[1] = t /\ p[2] = n
          BY <2>1, <4>2, <4>3
        <4> QED BY <4>2, <4>3, <4>4 DEF Passed
      <3>2. ASSUME p \in Passed(log, offset, k) PROVE p \in reads
        <4>1. PICK t \in EventTopics, n \in Nat : p = <<t, n>>
          BY <3>2 DEF Passed
        <4>2. n \in at(t)
          BY <3>2, <4>1 DEF Passed
        <4>3. p \in {<<t, m>> : m \in at(t)}
          BY <4>1, <4>2
        <4> QED BY <4>3
      <3> QED BY <3>1, <3>2
    <2>3. reads = Passed(log, offset, k)
      BY <2>2
    <2> QED BY <2>3 DEF Reads
  <1>2. OnceInv => ExactlyOnce
    <2> SUFFICES ASSUME OnceInv PROVE ExactlyOnce
      OBVIOUS
    <2>1. TypeInv /\ Once(log, offset, waiting, seen, score)
      BY DEF OnceInv
    <2>2. ASSUME NEW k \in Keys
          PROVE  /\ Reads(k) > 0 => Taken(waiting, seen, k) # {}
                 /\ Cardinality(Taken(waiting, seen, k)) <= Reads(k)
      <3> PICK P, T : P = Passed(log, offset, k) /\ T = Taken(waiting, seen, k)
        OBVIOUS
      <3>1. IsFiniteSet(P) /\ (P # {} => T # {}) /\ Cardinality(T) <= Cardinality(P)
        BY <2>1 DEF Once, OnceAt
      <3>2. Reads(k) = Cardinality(P)
        BY <1>1, <2>1
      <3>3. Cardinality({}) = 0
        BY FS_EmptySet
      <3> QED BY <3>1, <3>2, <3>3
    <2>3. \A i \in Identities : score[i] = Cardinality({k \in Keys : <<i, k>> \in seen})
      BY <2>1 DEF Once, Counted, RowsOf
    <2> QED BY <2>2, <2>3 DEF ExactlyOnce, Taken
  <1> QED BY <1>2, OnceInit, OnceStep, PTL DEF Spec
=============================================================================
