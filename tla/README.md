# A TLA+ model of the banking fraud platform

The platform moves rows of a PostgreSQL ledger through Debezium and Kafka into two
risk engines, which publish alerts; a worker bundles the alerts into incidents, analysts
label them through an API, a sink copies every topic into OpenSearch, and a graph service
looks for fraud rings in the ledger. A simulator is the bank's customers, employees and
fraudsters. This directory models the parts whose correctness
depends on order, time, failure or concurrency, checks them with TLC on small instances,
and proves almost all of its safety properties with TLAPS, for every value of the constants.

  simulator --> API (main.py) --> PostgreSQL --> Debezium --> banking.* topics --+
                 |   ^   |                                                       |
                 |   |   +-- graph endpoints (networkx, thread pool)             |
                 |   |                                                           |
                 +-- telemetry thread --> api_requests --+                       |
                     |                                   v                       v
                 incidents API            Flink risk engine (job of operators)   secondary engine (threads)
                     |                                   |                       |
                     |                        fraud_alerts_v2 ...         fraud_alerts ...
                     v                                   v                       v
                 PostgreSQL <------------------- alert aggregator worker <-------+
                                          OpenSearch sink <---- every topic

## 1. Inventory

State, operations, interactions, what is hard, and what makes each part correct.

**Flink risk engine, scoring operator** (`RiskScoringProcessor`, `RiskProfileState`).
Keyed state per identity under a wall-clock TTL: a profile (score, decay anchor, last alert,
indicators, timestamp lists), the dedup keys seen, the alert ids emitted; event-time timers.
Operations: `processElement` (dedup, decay, indicators, timer, alert) and `onTimer`. Hard:
events late, out of order and replayed; two clocks; timers that chain over a jump of the
watermark. Correct when alerts of an identity keep their distance, ids never name two
alerts, an attack is never silenced altogether, a live score always decays, and every
indicator means what its name says.

**Flink risk engine, job** (`RiskScoringJob`, normalisers, `AccountEnrichmentFunction`,
`OpenSearchLookupFunction`, alert serialisation). State: offsets, the broadcast account map,
lookups in flight, keyed state, sink buffers, the last checkpoint, restarts left. Operations: read,
normalise, join, look up, score, send, checkpoint, crash, restore, submit. Hard: a
transaction that overtakes its account, rows Debezium sends twice, lookups answered in any order or timed out,
recovery of all state at one cut, poisoned records. Correct when every row is scored
exactly once under the identity the map gives it, and no alert is lost.

**Secondary risk engine** (`secondary_risk_engine.py`). One consumer thread per topic,
shared dictionaries under one lock, one producer; nothing is persistent. Hard: the time is read
before the lock is waited for, and the producer is flushed under the lock. Correct when indicators are
neither lost nor unexplained, alerts keep their distance and are up to date, and no thread waits for another for ever.

**Alert aggregator and incidents API** (`alert_aggregator.py`, `incidents.py`,
`models/incidents.py`). Tables incidents, incident_alerts, incident_audit_logs; offsets that
are committed automatically. Hard: read-then-write on rows shared with analysts at READ COMMITTED,
redelivery after a crash or a lost membership of the group, exceptions that are swallowed. The metrics (`analytics_service.py`) count the same rows
in three statements. Correct when counts match rows, corroboration and
severity do not depend on the order of arrival, the audit log tells an incident's status, alerts are not lost, an identity has one
recent active incident (which fails, section 6), and the metrics of one answer differ by what happened between its statements only.

**OpenSearch sink** (`opensearch_sink.py`). Position, committed offset, membership of the
group, the index. Hard: crash or eviction between indexing and committing, a client that sends a failed request again by itself,
poisoned messages. Correct when it is an at-least-once consumer that gets past everything, and duplicates are accounted for.

**Core banking API** (`main.py`). Tables customers, accounts, transactions, devices, employees, sessions, and
three that only grow. Hard: several statements per
request, rows opened or claimed on the way, balances computed in the process, in floats, and rounded to cents. Correct when every entry of the ledger is in its
balances once (which fails where two transfers overlap, section 6) and they differ by roundings only, an account is opened and a device claimed once, nothing
half-done stays, and only inserts can deadlock.

**Request telemetry** (`kafka_logger.py`, `kafka_producer.py`) and **fraud ring graph**
(`graph_builder.py`, `ring_detector.py`, `api/graph.py`). One background task per request; analyses and
telemetry share asyncio's thread pool; the producer is shared by all of them. Hard: four selects that see different
moments, a `flush()` without timeout that holds threads. Correct when the reported rings are those of one set of transfers, between
what was committed before and after the reads, and every request and its event come to an end.

**Simulator** (`simulator/app/main.py`, `scenarios.py`, `customer.py`, `trigger.py`). A loop counter, a task per
launched scenario, a login flag, device and persona per customer. Operations: the tick that launches what is due, the
steps of fifteen scenarios, the turns of customers and employees, a scenario started by hand, a restart. Hard: scenarios
overlap on the same customers and on the API's and the engine's state for them. Correct when each attack is seen as what it is, and
the customers' own traffic is not.

**Not modelled.**

- *Synchronous routers* behind `main.py` (`api/transfers.py`, `accounts.py`, `auth.py`, `employee.py`, `users.py`,
  `security.py`, `cards.py`): they reach no state. `get_db` is an async generator of async sessions, so `db.query` in a sync handler
  raises; transfers, accounts and logins are also shadowed by `main.py`, which registers its routes first;
  `cards.py` answers from a constant list and `security.py` imports a model that does not exist.
- *Demo endpoint* (`api/demo.py`): it changes nothing. The module it would take scenarios from does not exist, and a reset
  only says that it was executed.
- *Engine watchdog*: two probes and a status, without state between rounds and without a reader in the system.
- *Prototypes* under `kafka-stream-scripts`, `apache-flink-scripts` and `src/backend` that no compose service runs.
- Dashboards, index templates, migrations, Prometheus counters: data or pure I/O.

The hazards each part is exposed to are listed, line by line, in `PROJECT.json`.

## 2. Modules

| module | models | lines up with the code |
|---|---|---|
| `RiskIndicators` | `deriveIndicators`, `recordAndPrune`, `addIndicator` | pure operators: memory and row in, indicators and memory out |
| `RiskScoring` | the keyed operator | `DropDuplicate` and `ScoreEvent` are the two paths of `processElement`; `FireTimer` is `onTimer`; `AdvanceWatermark`, `TimersDone`, `Tick` are Flink's clocks |
| `RiskScoringProofs` | theorems about `RiskScoring` | |
| `RiskPipeline` | the job around the operator | one action per operator of the job graph; `Checkpoint`, `Crash`, `Restore`, `Submit` are Flink's runtime as the job configures it |
| `RiskPipelineProofs` | theorems about `RiskPipeline` | |
| `SecondaryEngine` | the secondary engine | a thread's steps are: take a message, wait for the lock, score under it, flush, let it go; implements `AtomicAlerts` |
| `AtomicAlerts` | what an engine promises that silences an identity with its alert | abstract |
| `SecondaryEngineProofs` | theorems about `SecondaryEngine` | |
| `Scenarios` | the request scripts of the simulator | pure operators: a scenario is a sequence of draws, the set a request is drawn from |
| `Simulator` | the simulator on the API and the Flink engine; extends `Scenarios`, `RiskIndicators` | `Tick` is a turn of `main_engine`'s loop, `Trigger` is `trigger.py`, `TaskStep` one request of a scenario, `CustomerActs` and `EmployeeActs` are the actors; `ReadAccount` and `Score` are the engine |
| `SimulatorProofs` | theorems about `Simulator` | |
| `Incidents` | aggregator worker and incidents API | `Fetch`, `Lookup`, `Create`/`Bundle` are the worker between its awaits, `Rejoin` its lost membership; `Load`, `CommitStatus`, `CommitAssign` are a request |
| `IncidentsProofs` | theorems about `Incidents` and `Metrics` | |
| `Metrics` | `compute_metrics`; extends `Incidents` | one action per statement |
| `AtLeastOnce` | what a consumer with manual commits promises | abstract |
| `OpenSearchSink`, `OpenSearchSinkProofs` | `consume_topic` | one action per outcome of the loop's body; implements `AtLeastOnce` |
| `CoreBanking` | every endpoint of `main.py` | a request is a list of statements, one step executes one statement; implements `AtomicBank` |
| `AtomicBank` | the bank as its clients see it: they look at balances, and a request takes effect in one step | abstract |
| `CoreBankingProofs` | theorems about `CoreBanking` | |
| `FraudGraph` | graph building and analysis | pure operators on sets of edges |
| `ApiServer` | graph endpoints, telemetry, pool, producer | extends `FraudGraph`; a graph query is four `Read`s, `ToThread`, `Analyse` |
| `ApiServerProofs` | theorems about `ApiServer` | |
| `MC*` | small instances for TLC | |

`RiskPipeline` reduces scoring to which events a score counts, since what it checks is
which events reach the operator and how often; `RiskScoring` has what the operator does
with them. Writes are single steps in `ApiServer` and `Simulator`, and statement by
statement in `CoreBanking`, whose accounts and ledger are proved to look like single steps (`RequestsAreAtomic`). `PROJECT.json` maps every definition to its lines. Definitions called
*Mutant* are not part of a model: each is a plausible bug that, put in the place of the
definition after it, makes one property fail.

## 3. Abstractions worth knowing

- `RiskScoring` models one identity. Flink partitions state and timers by key, so that
  other identities matter only through the watermark, which may advance at any time. `wall`
  starts above `MaxLag` so that times are positive, as epoch milliseconds are.
- `LagAssumption` (`MaxLag + Cooldown <= TTL`) says that no event trails the wall clock by so
  much that the TTL has dropped the last alert while its cooldown still runs. With 15 minutes of cooldown
  and 24 hours of TTL that is a lag below 23 h 45 min; a replay of older data is outside the theorems.
- `RiskPipeline` takes a checkpoint as one atomic, consistent cut, as Flink's exactly-once
  mode provides, and the sinks as at-least-once: flushed at checkpoints, repeated after a
  restore. A record without a value makes `SimpleStringSchema` fail at the same position after every
  restart, which uses the attempts up. A new submission starts from the earliest offsets with no state.
  The rows of a snapshot, which share an LSN, are not modelled.
- In `RiskPipeline`, a row that Debezium delivers twice may be scored under two identities if its account
  became known in between: the dedup state is keyed by identity. `ExactlyOnce` allows
  just that; the engine's README (lines 84-86) does not mention it.
- `SecondaryEngine` counts in quarter points, so that two halvings stay whole, and its
  clock is monotone. Its state is lost at a restart, so `CooldownSpacing` speaks of alerts of one life.
- `Incidents` has a constant `EngineColumnsMapped`. The worker writes `engine_sources` and
  `corroborated`, which neither the model class nor the migration has. `FALSE` is the code as it is, where no alert is ever
  recorded (section 6); `TRUE`, which the runs have, is the worker on a table that has them, so that the rest of its logic can be examined. The theorems
  hold for both. A worker that loses its membership (`Rejoin`) goes on with the alert in its hand, and its position goes
  back to the last commit.
- `AtLeastOnce` is implemented by *attempts*: a message that raised counts as delivered,
  because the sink gives it up (section 6). `MaxRetries` is opensearch-py's `max_retries`, which the sink leaves at its
  default of 3: a request that failed, be its document indexed or not, is sent again, and the document has no id.
- `AtomicBank` remembers the balances a client has looked at (`seen`); a transfer adds to what was seen, which need not be the balance any more,
  because that is what the code does: lost updates are in the abstract bank too, and nothing else is. Balance and entry may each be a
  cent off where the amount was not of whole cents.
  `AtomicAlerts` lets an alert be lost on its way, as the producer may, and judges events by whatever score and indicators result.
- `CoreBanking`: an amount is a whole number of parts of a cent, `Parts` to the cent, of any sign, as nothing checks what a client sends.
  `Rounded` is what `Numeric(15, 2)` makes of it: the nearest cent, and either one where the float is exactly between. Each of the two balances and the
  entry is rounded by itself. `whole` in an entry says that nothing was lost. Left out are NaN and infinities, amounts that overflow the column
  or the float's precision, and transfers from an account to itself. The unit of work flushes updates
  in the order of the primary key, which is SQLAlchemy's behaviour and not the handler's. Login events, beneficiaries and
  employee actions are only ever inserted, and no handler reads them: the insert has no state. A session's random id is the
  number of its login; a session that is not committed yet is not found, and nobody waits to delete it.
  `opened` and `effects` are histories: what an account was opened with, and which entries its balance contains. A handler that reads a balance
  reads its `effects` with it, so that an entry lost by an overlapping write leaves them as well.
- `Simulator`: a handler is one step, because what overlaps here is requests, and `CoreBanking` has what overlaps
  within them. The engine does not fail (`RiskPipeline`). A change event carries the time of its commit. A customer that
  was never seen is given an account with a random number, which no script uses. Accounts that scenarios only pay into have been
  paid into before. Requests whose handler writes nothing the engine reads (`Other`, `View`) keep their place in
  their script, as a failure of theirs may end it.
- `ApiServer`: amounts are integers, of any sign (in cents; the volume, a sum of floats rounded at the end, is taken as exact). `NodeOf`
  is the node of an account or a device: the prefixes of `graph_builder.py:31,44-45,71` make X and ACCT-X one node. A topic is a set of events, so that what a producer's own
  retry delivers twice is not seen. An analysis comes to an end, and no bound is put on how long it takes (section 6).
  Customers of its requests are registered already; the pool is smaller than the producer's
  queue of 100000 messages, so that `produce()` finds room. It shows why: a
  thread that produced waits in `flush()`, so messages never outnumber threads (`EventAccounted`).

## 4. Runs

Every bound is a constant of the module (`Max...`), named in the cfg.

| run | asks | bounds, and why they are enough |
|---|---|---|
| `RiskScoring` | late, repeated, replayed events against cooldown, TTL and decay | 4 events up to one step late over 7 steps, cooldown 2, TTL 3, decay 2: each period passes more than once and they overlap; the threshold is below one event's weight so that every event may alert |
| `Simulator` | what do attacks and customers' traffic raise? | 4 rows, 2 of them unscored at a time, so that scoring reorders; a takeover on the clock and any one scenario beside it, one customer's own loop; 1 lost request or restart; 2 ticks, windows of 0, thresholds of 2: each threshold is reached inside and outside its window; 2 payments of the mule against a threshold of 2, the least that divides into two that are below it, as the program's 6 do for its 4 |
| `RiskDecay` (violation) | does the score halve once per interval? | one pause of 12 intervals, beyond the cap of 10 |
| `RiskPipeline` | exactly once, account join, alerts, over restarts | 2 rows of all 8 kinds, 2 redeliveries, 2 failures, 1 restart and a second submission: a crash falls between any two steps of two rows |
| `SecondaryEngine` | the threads around the lock | 4 messages of 6 kinds, so that all threads compete; windows and cooldown of 1 and 2 within 4 time steps; 1 failure of the producer, 1 restart |
| `IncidentWorker` | the worker on alerts of both engines | 3 alerts of two severities: open, bundle, and one more after a crash or a lost membership; 1 of each and 1 swallowed failure, at any point of the loop and of the auto-commits; incidents that grow stale |
| `IncidentAnalyst` | two analysts on the same rows, and the metrics over them | 2 alerts that may open two incidents, 3 requests of 2 analysts, so that two of them read the same row and a third comes later, 1 swallowed failure, 1 report: an incident is labelled and assigned around and between its statements |
| `IncidentSplit` (violation) | does an identity have one recent active incident? | 2 alerts, 2 analysts, 2 requests |
| `Sink` | the sink as an at-least-once consumer | 4 messages of 3 kinds, 2 crashes, 2 evictions, 2 failed requests, 1 retry of the client: a request fails and is sent again, and fails for good |
| `CoreBanking` | two requests statement by statement | 3 requests of 2 clients on 2 accounts, a device, an employee, 1 failure; one customer is seeded and one is not, so that inserts collide; the third request finds what two left; amounts of one cent and of half a cent the other way |
| `LostUpdate` (violation) | is what was paid in the balances? | 2 transfers of one cent between 2 accounts that exist |
| `ApiServer` | what graph queries report; do requests and events end? | a query and a second request of any kind, on a chain that one transfer closes to a ring of 3, by another name of an account, and another to one of 4; one amount is negative; 1 thread, so that telemetry and analysis compete; 1 failure, 1 restart, a clock that moves the window |

What they show:

- *Flink operator.* Whatever the order and repetition of events and the expiry of state,
  alerts are a cooldown apart (`CooldownSpacing`), an id names one alert (`AlertIdsUnique`), a
  live score has a timer (`DecayTimerPending`), a key is not scored twice before the
  TTL less the lag (`DedupWindow`); a score above the threshold always has a recent alert
  (`AttackNeverSilenced`); timers catch up in finitely many steps (`FiringEnds`).
- *Simulator.* In whatever order rows are scored, a velocity or failed-login indicator is raised exactly for the histories
  it is about (`VelocityIsBurst`, `FailedLoginsSinceSuccess`), among which late payments count what overtook them. A takeover of a known customer is an alert by itself unless an attack from its country came just before
  (`TakeoverAlarmed`). A structuring network, whose payments go by two identities because the mule account is opened by the first of
  them, passes unnoticed only if they are divided between the two, each below the threshold (`UnnoticedOnlyIfDivided`). A customer's own login raises nothing that another
  device did not cause (`QuietBaseline`).
- *Job.* Each row counts once per identity (`ExactlyOnce`), the account map is that of the last row
  read (`OwnerOfLastRow`), a scored event's alert is published or will be sent again (`AlertsPublished`),
  and while the job has not failed for good every row is scored (`EveryRowScored`).
- *Secondary engine.* Indicators are not lost (`NoIndicatorLost`), explain an alert's score (`AlertExplained`), and count what they say
  (`VelocityExact`). Deciding, flushing and resetting look like one step (`ImplementsAtomicAlerts`): no alert that goes out is out of date,
  however long the broker took, or before the cooldown of the last has passed.
- *Incidents.* Whatever the order of alerts, crashes and lost memberships, an incident's sources and severity are those of its alerts (`CorroboratedByBoth`,
  `SeverityOfWorstAlert`); an alert is recorded again only after a crash or a lost membership (`RecordedOncePerSession`), and recorded at all unless a crash
  or a swallowed failure came between (`EveryAlertRecorded`). Beside two analysts the count is that of the alert rows (`CountMatchesLinks`), and the audit log tells the
  status an incident has, although two requests may start from the same one (`StatusAudited`); two numbers of one metrics answer differ only by
  incidents that the audit log shows relabelled in between (`MetricsExplained`). That an identity has one recent active incident, as the lookup assumes, fails (`LookupUnambiguous`).
- *Sink.* It implements `AtLeastOnce` (`ImplementsAtLeastOnce`), indexes a document again at most once
  per restart, lost membership and request sent again (`DuplicatesBounded`), and reaches every message (`EverythingAttempted`).
- *Ledger.* The balance of every account is its opening balance and the entries it contains, each once and with its sign, to a cent for each that was not of whole
  cents (`LedgerExact`); that it contains all of them fails where two transfers read the same balance (`EveryTransferCounts`). Every deadlock has an insert in it (`OnlyInsertsDeadlock`); an account is never opened over nor
  a device claimed again (`OpenedOnce`); every request ends (`EveryRequestAnswered`). To
  everybody but the database a request looks at balances and is one step (`ImplementsAtomicBank`).
- *API process.* The rings of a detection are exactly those, with exactly the volumes, of the transfers that were committed before it
  began and some of those that came while it read, and its clusters lie between the two
  (`DetectionBetween`, against a definition of cycles without an algorithm); an entity's
  neighbourhood lies between them too (`NeighbourhoodBetween`); a request has one event, accounted for (`EventAccounted`); and requests and
  events come to an end though the broker is away (`EveryRequestSettled`).

`TypeOK` is proved for `RiskScoring`, `RiskPipeline` and `Incidents` (`TypeCorrect`), for `Simulator` (`MemoriesReplayed`) and, as part of the invariant, for
`OpenSearchSink`. In the other modules it documents the state; the properties the runs check
are about hazards.

**Fairness.** Weak fairness, and only for steps the code or its runtime keeps taking:
the firing of due timers (`RiskScoring`); each operator of a running job and its restart strategy (`RiskPipeline`);
the worker's loop (`Incidents`); the consumer's loop (`OpenSearchSink`); the event loop
for each client (`CoreBanking`); event loop, pool threads and `message.timeout.ms` (`ApiServer`, where the broker is never
assumed to answer). Crashes, failures, evictions, clients, analysts, clocks and checkpoints have none.
Deadlock is not checked (`CHECK_DEADLOCK FALSE`) because every instance stops when its
bounded inputs are used up; where being stuck is the question it is asked as a property (`OnlyInsertsDeadlock`,
`EveryRequestAnswered`, `EveryRequestSettled`).

## 5. Proofs

For every value of the constants that satisfies the assumptions, and any number of
events, crashes and messages.

`RiskScoringProofs` rests on `IInv`: the types, `written <= wall`, and four facts that make the properties
inductive. (a) `LastAlertKnown`: the unexpired profile's last-alert time is that of an alert and not older than any;
without it the cooldown test says nothing about past alerts. (b) `AlertsNamed`: an alert's id is its severity and
the number of its cooldown window. (c) `TimerNamed`: the profile's timer is registered. (d)
`KeysRemembered`: a scored key is in the seen state until the TTL has passed. Each action has a
lemma (`ScoreEventKeeps`, `FireTimerKeeps`, ...); `LagAssumption` is what joins the wall-clock TTL to the event-time cooldown.
Theorems: `TypeCorrect`, `CooldownHolds`, `IdsNeverRepeat` (from spacing, and a lemma that
times a cooldown apart fall into different windows), `TimerAlwaysPending`, `DuplicatesDropped`. `SInv` adds that what suppresses
an alert is an alert: the profile's last-alert time and every id in the emitted state are those of one that was raised.
`NeverSilenced` follows: an id that is suppressed names a cooldown window, and times in one window are less than a cooldown apart.
`SweepsConverge` is the part of `FiringEnds` that needs no fairness: what a sweep may still fire, one firing per instant from a due timer to
the watermark (`Outstanding`), is finite and shrinks with each firing. The next timer of a chain is later, so its instants are among those of
the one it replaces, except that one's own (`SweepShrinks`, by an injection).

`OpenSearchSinkProofs`: `SinkIsAtLeastOnce` proves the refinement, with `IInv == TypeOK /\ 1..DoneUpTo \subseteq Settled`,
everything up to the message in hand is handled or given up.
`DuplicatesCounted` rests on `DInv`: an offset has been indexed no more often than it may have been sent (`Reads`), once for each crash, for each membership
that ended and each request that failed, and once if the position has passed it in this one.

`IncidentsProofs` has one invariant per question. `IInv`: the types; `ReadIsCurrent`, the row the worker read still has the
count, engines, score and severity it was read with, because the worker is their only writer
(analysts write other columns, and a commit writes only changed ones); and `Agrees(i)`, the row of an incident and its alert
rows tell the same. Without `ReadIsCurrent` the absolute values the worker writes could undo another's.
Theorems: `TypeCorrect`, `CountIsExact`, `CorroborationIsExact`, `SeverityIsWorst`. They hold for any number of analysts,
crashes, lost memberships and failures, also with `EngineColumnsMapped = FALSE`, where there are no rows. `OnceInv`: ids are distinct (`IdsDistinct`), what the
worker holds and what is recorded was published (`HoldsMessage`, `FromTopics`), and a message's rows, with the one it may have in hand, are at most the crashes and lost memberships, plus one if the position is
past it (`OncePerPass`); an auto-commit may happen at any time since it only
decides how far back one of those goes. `RecordedOnce` follows. `BoundsAssumption` says that ids are natural numbers.

`StatusIsAudited` assumes nothing of the analysts. `AuditInv`: the status an incident has is the one the last row to change it names (`ChangedTo`), and the status
a request read, which may be outdated, was given to the incident by an earlier row (`ReadWasGiven`), and so is what every row starts from. A commit may write a status over one its request never
saw, but never without a row about it; the worker, which writes the same rows of the table, leaves the status alone. Every step
relabels nothing (`Quiet`) or adds just the row about what it relabels (`Audits`).

For the metrics, every step of `Incidents` is `Audited`: a status changes only with an audit row about it, incidents and audit rows are only
added, and a new incident is OPEN. Hence `MInv`: until the average is taken, an incident without a new audit row
has the label it was counted with. `MetricsAreExplained` follows, for any number of analysts and requests.

`RiskPipelineProofs` speaks of *cuts*: the state of the operators together with the topics. The running job is one cut,
its checkpoint another, and topics only grow (`Grown`), so that a fact about a cut needs an argument only where that cut changes:
a checkpoint copies one to the other, a restore copies it back. `OwnerInv`: the owner of an account is what the last row read that names it says
(`OwnedAs`, the same as `OwnerOfLastRow` without its CHOOSE). `OnceInv`: every due row read is scored or waits in the lookup (`Passed`), no row
is taken under more identities than it was read times (`Taken`), and a score is the number of an identity's rows (`Counted`).
`AlertsPublished` is inductive over the types. Theorems: `TypeCorrect`, `OwnerFollowsLog`, `CountedExactlyOnce`, `AlertsNeverLost`, for any rows, lookup capacity,
redeliveries, failures and submissions. `NamesAssumption` says that None names nobody.

`SecondaryEngineProofs`: `IInv` says what the lock protects. A thread that flushes is the only one (`OneHolder`), the profile's cooldown has
passed by the time the thread read, and the alert it carries has all that is owed (`InHand`); a profile's indicators are the last of those owed
(`ProfilesOK`; dropping old ones early or late leaves the same, `LastNAppended`); and a profile remembers the time of its last alert in this life
(`Remembered`), without which the cooldown test says nothing about earlier alerts. Theorems: `CooldownHolds` (what the run checks as part of `ImplementsAtomicAlerts`), `IndicatorsKept`, for any
messages, weights, windows, failures of the producer and restarts. `MessagesAssumption` says that a topic carries what its producer puts there.
`EInv` adds that a profile's score is at most what the indicators owed weigh (`ScoresFit`), of which decay only takes away; a deque with room to spare
has all that is owed, hence `AlertsExplained`. `VInv` is about the retained timestamps (`TimesKept`): they are in order, because one thread scores
all transactions (`Clock`), and for every n up to the limit and every time that may still be asked for they tell whether n transactions came since
(`Counts`), although old ones are pruned and the list is capped. `VelocityIsExact` follows if the threshold is within the cap (`VelocityAssumption`;
50 and 3 in the code).
`AlertsAreAtomic` proves the refinement of `AtomicAlerts`. `HInv` adds to `IInv` that the alert a flushing thread holds is still the one
the profile calls for, and still due (`HandCurrent`): only the holder of the lock changes a profile, and messages go on being resolved
meanwhile without touching one. A flush, lost or not, is then the abstract `Report`; `Score` is `Assess`; a crash with an alert on its way is `Restart`;
all other steps are seen by nobody.

`ApiServerProofs`: `EventsAccounted` follows an event through pool, thread, producer and topics. Its `IInv` has, for
each request, where its event may be (`Accounted`), and that a job is in the pool or on a thread once (`JobsOnce`): without it a thread could
report a request that another is about to report again. It holds for any number of threads and requests, whatever they ask for.
`NeighbourhoodsBetween` rests on `NInv`: what a request has read, with what its other reads would find now, covers what was committed before it began, and
is within what is committed now (`Bracketed`); and on what the recursion of `FraudGraph` computes in any graph: the nodes at the end of
a walk of at most that length.
`DetectionsBetween` rests on the same invariant, with rows that stay finitely many (`DInv`), and on three results about any finite graph. The cycles that
`Cycles` enumerates are exactly the sets of pairs that are rings: a lap that visits no node twice has no smaller cycle in it (`LapIsRing`), and the
longest trail along the hops of a ring returns to where it began, for otherwise a smaller cycle would be inside (`LongestTrail`, `RingIsLap`).
A sum of amounts is the same in any order and grouping (`AddsAnyOrder`, `SumsRegroup`), so that a ring's volume is what its transfers moved (`VolumeIsMoved`), whatever
the signs. The transfers read are those committed before and some that came since, which gives the set of which the rings are reported (`RingsFound`, `RingsLieBetween`). A cluster
holds the customers at its node (`ClustersLieBetween`). `QueryAssumption` has a threshold for clusters of at least 1 (the endpoint demands 2), `HistoriesAssumption` finitely many rows to start from, and
`AmountsAssumption` integers.

`CoreBankingProofs`: `RowsOpenedOnce` rests on the locks. `IInv`: a row is locked by one request at a time (`Exclusive`), and what a
request has inserted is not in the table yet (`Done`), so that a commit opens only what nobody has. That an account's row is a number once it is
there needs the plans of the handlers: a balance is read after the account was looked up or inserted, and written after it was read (`Planned`),
which every statement preserves. It holds for any clients, accounts and orders of account numbers. `NamesAssumption` and `BoundsAssumption` say that None is no key
and no number, that accounts, devices and sessions are told apart, and that amounts are whole numbers of parts of a cent, of any sign.
`LedgerIsExact`: `BInv` adds to the books' agreement (`Exact`) what each request will do to them (`Honest`): a balance it has read is, with the entries it contained then,
as exact as the account's own, however old it is, and what it has written and has yet to write is what its transfer says. A rounded sum and a rounded entry differ by a cent at most,
and by nothing if the amount is of whole cents (`RoundedClose`), so that one more entry keeps a balance exact (`EntrySettles`). `DeadlockNeedsInserts`: `OInv` says that a request writes in the
order of the account numbers (`Ascending`). If nobody in a group of requests that wait for each other has inserted a row, each waits for one that another has written, and that comes after
all it has written itself; among finitely many (`ClientsAssumption`) the one that has written the last account in the order
(`OrderAssumption`) has nobody to wait for.
`NeverStuck` is the safety half of `EveryRequestAnswered`. `CInv` says that a request's last statement is its commit, and that a request without
statements left holds nothing (`Ends`), so that whoever is waited for is in process (`HoldersRun`). Where everybody in a finite group waits for somebody in
it, the smallest part of the group of which that is true is a deadlock, which the database breaks (`TangleDeadlocks`).
`RequestsAreAtomic` proves the refinement of `AtomicBank` from `BInv`, with what a request has read of committed rows as what its client has seen (`SeenBy`): a read is a `Look` (`ReadLooks`), a commit
sets the balances its transfer names to what was seen and what it moves, to a cent, and opens accounts
with what it inserted (`AccountSettles`, `CommitIsAtomic`), and no other statement changes a row that others see. It justifies the single-step
writes of `ApiServer` and `Simulator`, as far as accounts and ledger go.

`SimulatorProofs`: the scored rows of an identity are a history from which its memory follows, and `IInv` says so: there is a sequence of memories, one per
row, that begins empty, ends in the one the engine has, and in which each row was judged by the memory before it (`Replayed`). With the types it is all
that the engine's order of scoring can do; each theorem adds what the simulator does to it. It holds for any customers, scripts, countries, bounds on rows, losses and restarts.

- `BaselineStaysQuiet`, from `QInv`: every login from a customer's own device, scored or not, is the customer's, succeeds, and comes from the one country that belongs to
  the device (`OwnKnown`), since a restart gives both anew (`Generations`); and a memory has the device and country of the last login scored (`Tracks`).
- `TakeoversNoticed`, from `TInv`: the device of a takeover is its task's alone and is announced once, in one login (`Announced`, `Once`), so that the memory before
  that login cannot have it. `TakeoverAssumption` says that the three indicators together exceed the threshold (30, 35 and 50 points against 80 in `risk-scoring.properties`).
- `VelocityCounts` and `FailuresCount` are `Spec /\ []NeverFull => []...`: no list has had to be as long as it may be (50 in the code). The hypothesis is
  needed: a list that drops its oldest time has lost one that an event arriving late would still count. `RInv` says that the list a memory holds
  is that of the rows within the window at each row since (`Counts`), which takes an induction over the rows and one over the list that is filtered.
- `StructuringIsNoticed`, under the same hypothesis, from `CInv`: the owner of the mule account is one customer for good, whichever of the rows about it are still to be read (`MuleKnown`), so that its payments are under two identities
  at most; and as long as nothing has failed, what a structuring task has paid out is queued or scored under one of them (`SmurfsCounted`). Where one of the two has the threshold's number of payments, the last of them to be scored finds them all in the window. It
  holds for any number of payments and any threshold, also for the six and the four of the program.

*Induction.* The provers cannot instantiate the library's induction theorems. `LeastNatural` says instead that a set of natural numbers
has a least element, and every induction over a recursive function (the sum over a ledger or a deque, the breadth-first search, the filter of a list, the memories of a
history, the paths of a graph) is an argument about the least number, or the smallest set, for which it fails. The modules that need it prove it for themselves.

*Only model-checked:* all liveness (it needs fairness and ENABLED). The parts of `FiringEnds` and `EveryRequestAnswered` that are safety are
proved: `FiringConverges` (`SweepsConverge`) and `NobodyStuck` (`NeverStuck`), which no run repeats, since the liveness says more on
its instance. Every invariant that a passing run checks is proved.

## 6. Where code and text part

Three runs find a disagreement: `RiskDecay` (the decay anchor lags after a long pause and the
same pause is halved again), `IncidentSplit` (an incident gone stale is labelled or assigned after
a second was opened: `scalar_one_or_none` then raises on every further alert of the identity) and `LostUpdate` (two transfers that read the
same balance). Others came up in modelling and have no run of their own:

- The worker reads and writes `engine_sources` and `corroborated`, which the incident model does not have (`models/incidents.py:30-49`): its
  constructor raises on every alert, `consume()` prints the exception, and no incident is ever made. With `EngineColumnsMapped = FALSE` the
  property `EveryAlertRecorded` fails at the first alert.
- The API writes `api_requests` in Avro, the job reads it as a JSON string (`RiskScoringJob.java:41`), and drops every call, though
  `RiskScoringJob.java:84-85` says that they no longer are. `RiskPipeline` has it so: `Due` leaves rows out that do not parse.
- Two requests that read the same status both commit (`incidents.py:97-109`): the second audit row, and the message at line 116, name a transition
  the incident did not make. An assignment that read OPEN puts a case back to INVESTIGATING that was closed since (line 145). `StatusAudited` says what holds all the same.
- `opensearch_sink.py:344-346` says that a failed message is redelivered after a restart "rather
  than being skipped". The loop polls on, and the next commit (line 340) passes over it. The refinement counts it as given up.
- With late events a velocity list filtered against the late event's time keeps
  timestamps after it (`RiskProfileState.java:106-113`): payments later than the one scored count for it. `VelocityIsBurst` says which.
- The structuring scenario sends 6 payments and the threshold is 4 (`risk-scoring.properties:21`): scored three and three under the
  mule's account number and its owner, as the account becomes known in between, they raise nothing, although `AccountEnrichmentFunction.java:26-30` speaks of "that one event".
  `UnnoticedOnlyIfDivided` says that this is the only way. It excepts one more payment of either identity, later than the window, that is scored among them and empties the list: the owner of the mule account may be a
  customer with payments of its own.
- `ring_detector.py:16` and `graph.py:60` call the cycle search bounded. `nx.simple_cycles` enumerates all cycles of the graph, and those that are too long are dropped
  afterwards: the result is what the model says, the time is not bounded by it.
- Customers log in once. A takeover more than two hours later raises NEW_DEVICE and NEW_COUNTRY, 65 points, which is below
  the threshold of 80: `TakeoverAlarmed` asks for the travel window. A bot's strike from the takeover's country before it hides the change of country too.
- 25 stuffed logins over 21 customers (`scenarios.py`) need not reach the threshold of 3 failures for any of them; and
  only the password `WrongPasswordAttempt` fails (`main.py:271`), so that spraying, the DDoS and guessed passwords are successful logins.
- `main_engine` never launches money laundering, the fraud ring or ransomware; `trigger.py` does. Scraping of `cust_gen_20`, which the
  start-up does not seed, violates a foreign key. After a restart of the simulator every customer has a new device, and raises NEW_DEVICE.
- The average resolution time is taken from `updated_at` (`analytics_service.py:38-42`), which a later assignment or a repeated label moves.
- `demo.py` answers a reset with RESET_EXECUTED without having reset anything.
- A FRAUD alert's cooldown also holds a CRITICAL one back (`RiskScoringProcessor.java:107`), though the
  engine's README (211, 375-376) describes suppression per severity.
- An alert read again after a crash or a lost membership is recorded twice (`alert_aggregator.py:90`; `RecordedOncePerSession` bounds it). The worker asks the
  registry in a blocking call on the event loop (line 76) that also sends its heartbeats.
- Balances and entries are rounded to cents each by itself (`main.py:352-360`): a transfer of half a cent may be in one of them and not in the others. A negative amount moves money the other way.
- An alert that times out in the secondary engine's producer is lost, and its identity
  silenced for the cooldown (`secondary_risk_engine.py:231-237`). Its weights differ from
  `risk-scoring.properties`, although the comment (58-60) calls them copied.
- `state.decay-ms=0` would make a timer re-register at its own time for ever; `PeriodsAssumption` excludes it.
- A device row belongs to the first customer seen with it (`domain.py:60`, `main.py:288`), so that the graph never links two
  customers to one device, and clusters are found at addresses only, whatever `ring_detector.py:18` says of devices.

## 7. Plan

Done, in this order: scoring, incidents, sink, secondary engine, ledger, job, graph and API process; the
first theorems; the rest of `main.py`, the metrics, the simulator over API and engine; the theorems about incidents,
metrics, job, secondary engine, telemetry, accounts, ledger, neighbourhoods, fraud rings and the simulator; the
refinements of `AtomicAlerts` and `AtomicBank`, and the safety halves of `FiringEnds` and `EveryRequestAnswered`. Next:

1. *Model.* A composition of engines, worker and analysts: from a row to an incident.
2. *Abstract specifications.* What a whole alert path promises, from a row to an incident, once that composition exists.
