---------------------------- MODULE RiskPipeline ----------------------------
(***************************************************************************)
(* The Flink job around the scoring operator: five topics, normalisation,  *)
(* the account join, the lookup in OpenSearch, scoring, and the two alert  *)
(* topics, with the checkpoints the job restarts from.                     *)
(*                                                                         *)
(* The account map is broadcast state: the two inputs of the join advance  *)
(* independently, so a transaction may overtake the row of its account.    *)
(* The lookup is unordered.  Scoring is reduced to what the pipeline can   *)
(* disturb: which events an identity's score counts (see RiskScoring for   *)
(* the rest); any scored event may be the one that alerts, so that each    *)
(* is taken to produce output.                                             *)
(***************************************************************************)
EXTENDS Naturals, Sequences, FiniteSets

CONSTANTS None, Accounts, Customers, Addresses,
          Bodies,           \* the rows the topics may carry, without their LSN
          MaxInFlight,      \* capacity of the lookup (100 in the code)
          MaxRestarts,      \* attempts of the restart strategy (3 in the code)
          MaxRows, MaxRedelivered, MaxFailures, MaxSubmissions   \* bounds

VARIABLES log,         \* topic |-> the rows in it; a row carries its LSN
          offset,      \* topic |-> how many of its rows the job has read
          owner,       \* broadcast state: account |-> customer; None is no entry
          waiting,     \* events the lookup has not answered yet
          seen,        \* seenEventKeys: pairs of identity and dedup key
          score,       \* identity |-> number of events its score counts
          unsent,      \* alerts in the buffers of the Kafka sinks
          published,   \* alerts in the alert topics
          checkpoint,  \* the last completed checkpoint
          status,      \* of the job
          restarts,    \* restarts of this submission
          redelivered, failures, submissions   \* counters of the bounds

operators == <<offset, owner, waiting, seen, score>>
sinks     == <<unsent, published>>
counters  == <<redelivered, failures, submissions>>
vars == <<log, operators, sinks, checkpoint, status, restarts, counters>>

EventTopics == {"banking.transactions", "banking.login_events", "banking.sessions",
                "api_requests"}
Topics == EventTopics \cup {"banking.accounts"}

Identities == Customers \cup ({"ip"} \X Addresses) \cup ({"acct"} \X Accounts)

(* value: how the message is encoded; a tombstone, which follows a deleted *)
(* row, has no value.                                                      *)
BodyType == [topic : Topics, value : {"json", "avro", "null"}, op : {"c", "u", "d"},
             customer : Customers \cup {None}, account : Accounts \cup {None},
             address : Addresses \cup {None}]

ASSUME NamesAssumption == None \notin Accounts \cup Identities
ASSUME BodiesAssumption == Bodies \subseteq BodyType
ASSUME BoundsAssumption ==
    /\ MaxInFlight \in Nat \ {0} /\ MaxRestarts \in Nat
    /\ {MaxRows, MaxRedelivered, MaxFailures, MaxSubmissions} \subseteq Nat

Keys == 1..MaxRows     \* log sequence numbers

Row(body, lsn) == [topic |-> body.topic, value |-> body.value, op |-> body.op,
                   customer |-> body.customer, account |-> body.account,
                   address |-> body.address, lsn |-> lsn]

Events == [key : Keys, customer : Customers \cup {None}, account : Accounts \cup {None},
           identity : Identities \cup {None}]

-----------------------------------------------------------------------------
(* RiskEventNormalizer.normalize: a value that is not JSON and the row of a *)
(* delete are no events.  The dedup key is the row's LSN.                   *)
IsEvent(row) == row.value = "json" /\ row.op # "d"

(* Mutant: a transaction has no fallback identity. *)
IdentityJoined(row) ==
    IF row.customer # None THEN row.customer
    ELSE IF row.address # None THEN <<"ip", row.address>>
    ELSE None

Identity(row) ==
    IF row.customer # None THEN row.customer
    ELSE IF row.address # None THEN <<"ip", row.address>>
    ELSE IF row.account # None THEN <<"acct", row.account>>
    ELSE None

Normalized(row) == [key |-> row.lsn, customer |-> row.customer, account |-> row.account,
                    identity |-> Identity(row)]

(* AccountEnrichmentFunction.processElement. *)
Enriched(e) ==
    IF e.customer = None /\ e.account # None /\ owner[e.account] # None
    THEN [e EXCEPT !.customer = owner[e.account], !.identity = owner[e.account]]
    ELSE e

(* Mutant: a row without a customer clears the entry. *)
UpdatedOrCleared(map, row) ==
    IF row.value # "json" \/ row.account = None THEN map
    ELSE [map EXCEPT ![row.account] = IF row.op = "d" THEN None ELSE row.customer]

(* AccountEventNormalizer.normalize and processBroadcastElement: a deleted *)
(* account is forgotten; a row that names no customer changes nothing.     *)
Updated(map, row) ==
    IF row.value # "json" \/ row.account = None THEN map
    ELSE IF row.op = "d" THEN [map EXCEPT ![row.account] = None]
    ELSE IF row.customer # None THEN [map EXCEPT ![row.account] = row.customer]
    ELSE map

-----------------------------------------------------------------------------
(* What a job without a checkpoint starts from: the earliest offsets.      *)
Scratch == [offset |-> [t \in Topics |-> 0], owner |-> [a \in Accounts |-> None],
            waiting |-> {}, seen |-> {}, score |-> [i \in Identities |-> 0]]

Init ==
    /\ log = [t \in Topics |-> <<>>]
    /\ offset = Scratch.offset /\ owner = Scratch.owner /\ waiting = {}
    /\ seen = {} /\ score = Scratch.score
    /\ unsent = {} /\ published = {}
    /\ checkpoint = Scratch
    /\ status = "RUNNING" /\ restarts = 0
    /\ redelivered = 0 /\ failures = 0 /\ submissions = 1

Rows == UNION {{log[t][n] : n \in 1..Len(log[t])} : t \in Topics}

(* The connector writes a row, or after a restart of its own the last row  *)
(* of a topic again.                                                       *)
Change(body) ==
    LET lsn == Cardinality({row.lsn : row \in Rows}) + 1
    IN  /\ lsn <= MaxRows
        /\ log' = [log EXCEPT ![body.topic] = Append(@, Row(body, lsn))]
        /\ UNCHANGED <<operators, sinks, checkpoint, status, restarts, counters>>

Redeliver(t) ==
    /\ log[t] # <<>>
    /\ redelivered < MaxRedelivered
    /\ redelivered' = redelivered + 1
    /\ log' = [log EXCEPT ![t] = Append(@, log[t][Len(log[t])])]
    /\ UNCHANGED <<operators, sinks, checkpoint, status, restarts, failures, submissions>>

Running == status = "RUNNING"

NextRow(t) == log[t][offset[t] + 1]

HasNext(t) ==
    /\ Running
    /\ offset[t] < Len(log[t])
    /\ NextRow(t).value # "null"

(* A row of an event topic: normalised, joined, and without an identity    *)
(* dropped; otherwise it waits for the lookup.                             *)
ReadEvent(t) ==
    /\ t \in EventTopics
    /\ HasNext(t)
    /\ Cardinality(waiting) < MaxInFlight
    /\ offset' = [offset EXCEPT ![t] = @ + 1]
    /\ LET e == Enriched(Normalized(NextRow(t)))
       IN  waiting' = IF IsEvent(NextRow(t)) /\ e.identity # None THEN waiting \cup {e}
                      ELSE waiting
    /\ UNCHANGED <<log, owner, seen, score, sinks, checkpoint, status, restarts, counters>>

ReadAccount ==
    /\ HasNext("banking.accounts")
    /\ offset' = [offset EXCEPT !["banking.accounts"] = @ + 1]
    /\ owner' = Updated(owner, NextRow("banking.accounts"))
    /\ UNCHANGED <<log, waiting, seen, score, sinks, checkpoint, status, restarts, counters>>

(* The lookup answers, fails or times out, in any order: the event goes on *)
(* to its identity's state in all three cases.  A duplicate is dropped.    *)
Score(e) ==
    /\ Running
    /\ e \in waiting
    /\ waiting' = waiting \ {e}
    /\ IF <<e.identity, e.key>> \in seen
       THEN UNCHANGED <<seen, score, unsent>>
       ELSE /\ seen' = seen \cup {<<e.identity, e.key>>}
            /\ score' = [score EXCEPT ![e.identity] = @ + 1]
            /\ unsent' = unsent \cup {<<e.identity, e.key>>}
    /\ UNCHANGED <<log, offset, owner, published, checkpoint, status, restarts, counters>>

(* The producers of the sinks send a batch in the background ...           *)
Send ==
    /\ Running
    /\ unsent # {}
    /\ unsent' = {}
    /\ published' = published \cup unsent
    /\ UNCHANGED <<log, operators, checkpoint, status, restarts, counters>>

State == [offset |-> offset, owner |-> owner, waiting |-> waiting, seen |-> seen,
          score |-> score]

(* Mutant: the sinks are not flushed. *)
CheckpointUnflushed ==
    /\ Running /\ checkpoint # State
    /\ checkpoint' = State
    /\ UNCHANGED <<log, operators, sinks, status, restarts, counters>>

(* ... and are flushed by a checkpoint, which is a consistent cut: the     *)
(* positions of the sources, the account map, the events in the lookup and *)
(* the keyed state.                                                        *)
Checkpoint ==
    /\ Running
    /\ checkpoint # State
    /\ checkpoint' = State
    /\ published' = published \cup unsent
    /\ unsent' = {}
    /\ UNCHANGED <<log, operators, status, restarts, counters>>

-----------------------------------------------------------------------------
(* The job fails: what it had not sent is gone, and the restart strategy   *)
(* gives it another attempt or gives up.                                   *)
Stop ==
    /\ Running
    /\ unsent' = {}
    /\ IF restarts < MaxRestarts
       THEN status' = "RESTARTING" /\ restarts' = restarts + 1
       ELSE status' = "FAILED" /\ UNCHANGED restarts
    /\ UNCHANGED <<log, operators, published, checkpoint>>

Crash ==
    /\ failures < MaxFailures
    /\ failures' = failures + 1
    /\ Stop
    /\ UNCHANGED <<redelivered, submissions>>

(* SimpleStringSchema has no string for a message without a value.         *)
ReadTombstone(t) ==
    /\ offset[t] < Len(log[t])
    /\ NextRow(t).value = "null"
    /\ Stop
    /\ UNCHANGED counters

(* Mutant: the sources keep their positions. *)
FromHere(c) ==
    /\ offset' = offset /\ owner' = c.owner /\ waiting' = c.waiting
    /\ seen' = c.seen /\ score' = c.score

(* The operators resume from a checkpoint. *)
From(c) ==
    /\ offset' = c.offset /\ owner' = c.owner /\ waiting' = c.waiting
    /\ seen' = c.seen /\ score' = c.score

Restore ==
    /\ status = "RESTARTING"
    /\ From(checkpoint)
    /\ status' = "RUNNING"
    /\ UNCHANGED <<log, sinks, checkpoint, restarts, counters>>

(* The job, failed or lost with its cluster, is submitted anew: without a  *)
(* savepoint, and from the earliest offsets whatever the group committed.  *)
Submit ==
    /\ ~Running
    /\ submissions < MaxSubmissions
    /\ submissions' = submissions + 1
    /\ From(Scratch)
    /\ checkpoint' = Scratch
    /\ unsent' = {}
    /\ status' = "RUNNING" /\ restarts' = 0
    /\ UNCHANGED <<log, published, redelivered, failures>>

Process ==
    \/ \E t \in Topics : ReadEvent(t) \/ ReadTombstone(t)
    \/ ReadAccount
    \/ \E e \in waiting : Score(e)
    \/ Restore

Next ==
    \/ \E body \in Bodies : Change(body)
    \/ \E t \in Topics : Redeliver(t)
    \/ Process
    \/ Send \/ Checkpoint \/ Crash \/ Submit

Spec == Init /\ [][Next]_vars

(* Every operator of a running job runs, a lookup ends within its timeout, *)
(* and a restart comes after its delay.  Checkpoints and crashes need not. *)
FairSpec ==
    /\ Spec
    /\ \A t \in Topics : WF_vars(ReadEvent(t)) /\ WF_vars(ReadTombstone(t))
    /\ WF_vars(ReadAccount)
    /\ WF_vars(\E e \in waiting : Score(e))
    /\ WF_vars(Restore)

-----------------------------------------------------------------------------
StateType == [offset : [Topics -> Nat], owner : [Accounts -> Customers \cup {None}],
              waiting : SUBSET Events, seen : SUBSET (Identities \X Keys),
              score : [Identities -> Nat]]

(* The state of the operators, running or saved, has the types of the job; *)
(* no source is ahead of its topic, and the lookup keeps its capacity.     *)
TypeOK ==
    /\ {State, checkpoint} \subseteq StateType
    /\ \A t \in Topics : offset[t] <= Len(log[t])
    /\ Cardinality(waiting) <= MaxInFlight
    /\ unsent \cup published \subseteq Identities \X Keys
    /\ status \in {"RUNNING", "RESTARTING", "FAILED"}
    /\ restarts \in 0..MaxRestarts

(* A row that is due to be scored. *)
Due(row) ==
    /\ row.topic \in EventTopics /\ row.value = "json" /\ row.op # "d"
    /\ {row.customer, row.address, row.account} # {None}

(* How often the job has read row k of an event topic. *)
Reads(k) ==
    Cardinality(UNION {{<<t, n>> : n \in {m \in 1..offset[t] : log[t][m].lsn = k /\ Due(log[t][m])}}
                       : t \in EventTopics})

(* "EXACTLY_ONCE": over failures, restores and redelivered rows, every row *)
(* due that the sources are past is either scored or still in the lookup,  *)
(* never under more identities than it was delivered times, and the score  *)
(* of an identity counts each of its rows once.                            *)
ExactlyOnce ==
    /\ \A k \in Keys : LET taken == {i \in Identities : <<i, k>> \in seen}
                              \cup {e.identity : e \in {w \in waiting : w.key = k}}
                     IN  /\ Reads(k) > 0 => taken # {}
                         /\ Cardinality(taken) <= Reads(k)
    /\ \A i \in Identities : score[i] = Cardinality({k \in Keys : <<i, k>> \in seen})

(* The rows of an account among the first n of the account topic that      *)
(* change its entry.                                                       *)
Naming(a, n) == {m \in 1..n : LET row == log["banking.accounts"][m]
                              IN  /\ row.value = "json" /\ row.account = a
                                  /\ row.op = "d" \/ row.customer # None}

(* The account map is what the account rows read so far say, in a running  *)
(* job and in the checkpoint it would resume from: the last row that names *)
(* an owner or deletes the account decides.                                *)
OwnerOfLastRow ==
    \A c \in {State, checkpoint} : \A a \in Accounts :
        LET naming == Naming(a, c.offset["banking.accounts"])
        IN  c.owner[a] =
              IF naming = {} THEN None
              ELSE LET last == CHOOSE m \in naming : \A n \in naming : n <= m
                       row  == log["banking.accounts"][last]
                   IN  IF row.op = "d" THEN None ELSE row.customer

(* The sinks are AT_LEAST_ONCE: an event that a restart will not score     *)
(* again has its alert in Kafka.                                           *)
AlertsPublished ==
    /\ checkpoint.seen \subseteq published
    /\ seen \subseteq published \cup unsent \cup checkpoint.seen \/ ~Running

Scored(lsn) == \E i \in Identities : <<i, lsn>> \in seen

(* Whatever the lookup does and however often the job restarts, a row with *)
(* an identity is scored at last, unless the restart strategy gives up.    *)
EveryRowScored ==
    \A k \in Keys :
        (\E row \in Rows : row.lsn = k /\ Due(row))
            ~> Scored(k) \/ status = "FAILED"
=============================================================================
