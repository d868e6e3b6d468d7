----------------------------- MODULE ApiServer -----------------------------
(***************************************************************************)
(* The API process around its database: requests that write rows, requests *)
(* that read the fraud graph in four selects and analyse it in a thread,   *)
(* and the telemetry event each of them leaves behind.                     *)
(*                                                                         *)
(* Analyses and telemetry share asyncio's default thread pool.  A          *)
(* telemetry job serialises its event, or turns it into a dead letter, and *)
(* then waits in flush() until the producer, which all jobs share, has     *)
(* nothing left to deliver; a message leaves the producer when the broker  *)
(* has it or when it times out.                                            *)
(*                                                                         *)
(* The writes are single steps here (CoreBanking has their statements);    *)
(* their customers are registered.  The pool is never larger than the      *)
(* producer's queue, of 100000 messages, so that produce() finds room.     *)
(***************************************************************************)
EXTENDS FraudGraph

CONSTANTS None, Mule,
          Calls,            \* request |-> what its client may ask for
          Histories,        \* transactions, devices and logins to start from
          Lookback, MaxHops, MinShared, Depth,   \* query parameters
          Workers,          \* threads of the pool
          MaxRequests, MaxTime, MaxFailures, MaxRestarts   \* bounds

ASSUME WorkersAssumption == Workers \in Nat \ {0}
ASSUME QueryAssumption ==
    Lookback \in Nat /\ MaxHops \in Nat /\ MinShared \in Nat \ {0} /\ Depth \in Nat
(* In cents.  Nothing checks the sign of an amount.                        *)
ASSUME AmountsAssumption ==
    /\ \A r \in 1..MaxRequests : \A call \in Calls[r] : call.op = "transfer" => call.amount \in Int
    /\ \A past \in Histories : \A t \in past.transactions : t.amount \in Int
ASSUME HistoriesAssumption ==
    \A past \in Histories :
        IsFiniteSet(past.transactions) /\ IsFiniteSet(past.devices) /\ IsFiniteSet(past.logins)
ASSUME MuleAssumption    == Mule \in Customers /\ None \notin Customers \cup Accounts

VARIABLES now,                  \* hours
          accounts, transactions, devices, logins,   \* committed rows
          requests,             \* number |-> what has become of the request
          pool,                 \* jobs waiting for a thread, in order
          running,              \* jobs on a thread
          registered,           \* the serializer has looked its schema up
          queue,                \* messages in the producer: <<request, topic>>
          topics,               \* topic |-> the requests whose event it holds
          lost,                 \* history: requests whose event was given up
          failures, restarts    \* counters of the bounds

rows == <<accounts, transactions, devices, logins>>
wire == <<registered, queue, topics, lost>>
vars == <<now, rows, requests, pool, running, wire, failures, restarts>>

Requests == 1..MaxRequests
Topics   == {"api_requests", "dead_letter_queue"}

NoRequest == [call |-> [op |-> "none"], phase |-> "free", cutoff |-> 0, reads |-> 0, graph |-> {},
              before |-> {}, after |-> {}, status |-> 0, answer |-> None]

ReadsGraph(call) == call.op \in {"detect", "entity"}

Job(r, work) == [of |-> r, work |-> work]

Init ==
    /\ now = Lookback
    /\ \E past \in Histories :
         /\ transactions = past.transactions
         /\ devices = past.devices
         /\ logins = past.logins
    /\ accounts = {[customer |-> Mule, account |-> a] :
                      a \in UNION {{t.from, t.to} : t \in transactions}}
    /\ requests = [r \in Requests |-> NoRequest]
    /\ pool = <<>> /\ running = {}
    /\ registered = FALSE /\ queue = {}
    /\ topics = [t \in Topics |-> {}]
    /\ lost = {} /\ failures = 0 /\ restarts = 0

-----------------------------------------------------------------------------
(* The four selects of build_graph, each of which sees what is committed.  *)
Selected(i, cutoff) ==
    CASE i = 1 -> Owns(accounts)
      [] i = 2 -> TransferredTo(transactions, cutoff)
      [] i = 3 -> UsedDevice(devices)
      [] i = 4 -> LoggedInFrom(logins, cutoff)

(* All that is committed, as one graph: for the properties. *)
Committed(cutoff) == UNION {Selected(i, cutoff) : i \in 1..4}

(* Mutant: no telemetry for a request that raised. *)
DispatchOnSuccess(r, status) == IF status = 500 THEN pool ELSE Append(pool, Job(r, "telemetry"))

(* dispatch: whatever became of the request, a task to report it. *)
Dispatch(r, status) == Append(pool, Job(r, "telemetry"))

Respond(r, status, answer) ==
    /\ requests' = [requests EXCEPT ![r].phase = "answered", ![r].status = status,
                                    ![r].answer = answer, ![r].graph = {}]
    /\ pool' = Dispatch(r, status)

Receive(r) ==
    /\ requests[r].phase = "free"
    /\ \E call \in Calls[r] :
         requests' = [requests EXCEPT ![r] =
             [NoRequest EXCEPT !.call = call, !.phase = "handling", !.cutoff = now - Lookback,
                               !.before = IF ReadsGraph(call) THEN Committed(now - Lookback) ELSE {}]]
    /\ UNCHANGED <<now, rows, pool, running, wire, failures, restarts>>

(* execute_transfer opens the accounts it does not find. *)
Opened(account, customer) ==
    IF \E a \in accounts : a.account = account THEN {}
    ELSE {[customer |-> customer, account |-> account]}

Transfer(r) ==
    LET call == requests[r].call IN
    /\ requests[r].phase = "handling" /\ call.op = "transfer"
    /\ accounts' = accounts \cup Opened(call.from, call.customer) \cup Opened(call.to, Mule)
    /\ transactions' = transactions \cup
         {[id |-> Cardinality(transactions), from |-> call.from, to |-> call.to,
           amount |-> call.amount, at |-> now]}
    /\ Respond(r, 200, None)
    /\ UNCHANGED <<now, devices, logins, running, wire, failures, restarts>>

(* A device belongs to the first customer seen with it. *)
Seen(device, customer) ==
    IF \E d \in devices : d.device = device THEN {}
    ELSE {[device |-> device, customer |-> customer]}

(* api_login, whether the password was right or not. *)
Login(r) ==
    LET call == requests[r].call IN
    /\ requests[r].phase = "handling" /\ call.op = "login"
    /\ logins' = logins \cup {[id |-> Cardinality(logins), customer |-> call.customer,
                               address |-> call.address, at |-> now]}
    /\ devices' = devices \cup Seen(call.device, call.customer)
    /\ \E status \in {200, 401} : Respond(r, status, None)
    /\ UNCHANGED <<now, accounts, transactions, running, wire, failures, restarts>>

(* A statement of any request raises: the middleware sees the exception. *)
Fail(r) ==
    /\ requests[r].phase = "handling" /\ failures < MaxFailures
    /\ failures' = failures + 1
    /\ Respond(r, 500, None)
    /\ UNCHANGED <<now, rows, running, wire, restarts>>

-----------------------------------------------------------------------------
(* The graph endpoints: four reads, and then the pool; get_entity_subgraph *)
(* answers at once if there is no such node.                               *)
Read(r) ==
    LET request == requests[r] IN
    /\ request.phase = "handling" /\ ReadsGraph(request.call) /\ request.reads < 4
    /\ requests' = [requests EXCEPT ![r].reads = @ + 1,
                       ![r].graph = @ \cup Selected(request.reads + 1, request.cutoff),
                       ![r].after = IF request.reads = 3 THEN Committed(request.cutoff) ELSE {}]
    /\ UNCHANGED <<now, rows, pool, running, wire, failures, restarts>>

Missing(request) == request.call.op = "entity" /\ request.call.center \notin Nodes(request.graph)

NotFound(r) ==
    /\ requests[r].phase = "handling" /\ requests[r].reads = 4 /\ Missing(requests[r])
    /\ Respond(r, 404, None)
    /\ UNCHANGED <<now, rows, running, wire, failures, restarts>>

ToThread(r) ==
    /\ requests[r].phase = "handling" /\ requests[r].reads = 4 /\ ~Missing(requests[r])
    /\ requests' = [requests EXCEPT ![r].phase = "analysed"]
    /\ pool' = Append(pool, Job(r, "analysis"))
    /\ UNCHANGED <<now, rows, running, wire, failures, restarts>>

Result(call, G) ==
    IF call.op = "entity" THEN Subgraph(G, call.center, Depth)
    ELSE [rings |-> CircularRings(G, MaxHops), clusters |-> SharedClusters(G, MinShared)]

(* A thread takes the job that waits longest. *)
Start ==
    /\ pool # <<>> /\ Cardinality(running) < Workers
    /\ running' = running \cup {Head(pool)}
    /\ pool' = Tail(pool)
    /\ UNCHANGED <<now, rows, requests, wire, failures, restarts>>

Analyse(r) ==
    /\ Job(r, "analysis") \in running
    /\ running' = running \ {Job(r, "analysis")}
    /\ Respond(r, 200, Result(requests[r].call, requests[r].graph))
    /\ UNCHANGED <<now, rows, wire, failures, restarts>>

-----------------------------------------------------------------------------
(* send_telemetry_event.  The payload always has the schema's types; what  *)
(* can fail is the registry, asked for the schema the first time.          *)
Send(r) ==
    /\ Job(r, "telemetry") \in running
    /\ running' = (running \ {Job(r, "telemetry")}) \cup {Job(r, "flush")}
    /\ \/ /\ registered' = TRUE
          /\ queue' = queue \cup {<<r, "api_requests">>}
       \/ /\ ~registered /\ UNCHANGED registered
          /\ queue' = queue \cup {<<r, "dead_letter_queue">>}
    /\ UNCHANGED <<now, rows, requests, pool, topics, lost, failures, restarts>>

(* The broker has a message.  The producer may send it again when an       *)
(* acknowledgement is lost, and a topic then holds it twice: which topics  *)
(* have a request's event is kept here, not how many copies.               *)
Deliver(r, topic) ==
    /\ <<r, topic>> \in queue
    /\ topics' = [topics EXCEPT ![topic] = @ \cup {r}]
    /\ queue' = queue \ {<<r, topic>>}
    /\ UNCHANGED <<now, rows, requests, pool, running, registered, lost, failures, restarts>>

(* message.timeout.ms has passed: delivery_report prints the failure.      *)
Expire(r, topic) ==
    /\ <<r, topic>> \in queue
    /\ queue' = queue \ {<<r, topic>>}
    /\ lost' = lost \cup {r}
    /\ UNCHANGED <<now, rows, requests, pool, running, registered, topics, failures, restarts>>

(* Mutant: flush() waits for the broker to have this event. *)
DrainedToBroker(r) == queue = {} /\ \E t \in Topics : r \in topics[t]

(* flush() returns when nothing at all is left to deliver. *)
Drained(r) == queue = {}

Flushed(r) ==
    /\ Job(r, "flush") \in running /\ Drained(r)
    /\ running' = running \ {Job(r, "flush")}
    /\ UNCHANGED <<now, rows, requests, pool, wire, failures, restarts>>

-----------------------------------------------------------------------------
(* The process is killed and started again: what it held in memory is gone. *)
Restart ==
    LET jobs == running \cup {pool[i] : i \in DOMAIN pool} IN
    /\ restarts < MaxRestarts
    /\ restarts' = restarts + 1
    /\ requests' = [r \in Requests |->
                      IF requests[r].phase \in {"handling", "analysed"}
                      THEN [requests[r] EXCEPT !.phase = "failed", !.graph = {}] ELSE requests[r]]
    /\ lost' = lost \cup {r \in Requests : Job(r, "telemetry") \in jobs \/ \E t \in Topics : <<r, t>> \in queue}
    /\ pool' = <<>> /\ running' = {} /\ queue' = {} /\ registered' = FALSE
    /\ UNCHANGED <<now, rows, topics, failures>>

Tick ==
    /\ now < Lookback + MaxTime
    /\ now' = now + 1
    /\ UNCHANGED <<rows, requests, pool, running, wire, failures, restarts>>

Handle(r) == Transfer(r) \/ Login(r) \/ Read(r) \/ NotFound(r) \/ ToThread(r)
Settle(r, topic) == Deliver(r, topic) \/ Expire(r, topic)

Next ==
    \/ \E r \in Requests :
         \/ Receive(r) \/ Transfer(r) \/ Login(r) \/ Fail(r)
         \/ Read(r) \/ NotFound(r) \/ ToThread(r) \/ Analyse(r)
         \/ Send(r) \/ Flushed(r)
         \/ \E topic \in Topics : Deliver(r, topic) \/ Expire(r, topic)
    \/ Start \/ Restart \/ Tick

(* The event loop serves every request, the pool every job, and the        *)
(* producer gives every message up in the end.                             *)
Fairness ==
    /\ WF_vars(Start)
    /\ \A r \in Requests :
         /\ WF_vars(Handle(r)) /\ WF_vars(Analyse(r)) /\ WF_vars(Send(r)) /\ WF_vars(Flushed(r))
         /\ \A topic \in Topics : WF_vars(Expire(r, topic))

Spec == Init /\ [][Next]_vars
FairSpec == Spec /\ Fairness

-----------------------------------------------------------------------------
(* What detection promises, without the algorithms: a cycle is a set of    *)
(* pairs that leads back into itself and has no smaller one inside.        *)
Froms(pairs) == {p[1] : p \in pairs}
Tos(pairs)   == {p[2] : p \in pairs}

Returns(pairs) == Froms(pairs) = Tos(pairs)

IsCycle(pairs) ==
    /\ Returns(pairs) /\ Cardinality(Froms(pairs)) = Cardinality(pairs)
    /\ \A part \in (SUBSET pairs) \ {{}, pairs} : ~Returns(part)

IsRing(pairs) == Cardinality(pairs) \in 3..MaxHops /\ IsCycle(pairs)

Sent(G, p) == MapThenSumSet(LAMBDA e : e.row.amount, {e \in Transfers(G) : <<e.from, e.to>> = p})

Moved(G, pairs) == MapThenSumSet(LAMBDA p : Sent(G, p), pairs)

RingsOf(G, rings) ==
    /\ \A pairs \in SUBSET Pairs(G) :
         IsRing(pairs) => \E ring \in rings : ring.members = pairs
    /\ \A ring \in rings :
         /\ ring.members \subseteq Pairs(G) /\ IsRing(ring.members)
         /\ ring.volume = Moved(G, ring.members)
    /\ \A r1, r2 \in rings : r1.members = r2.members => r1 = r2

(* The rings of the transfers before, and of some that came since. *)
RingsBetween(before, after, rings) ==
    \E since \in SUBSET (Transfers(after) \ Transfers(before)) :
        RingsOf(Transfers(before) \cup since, rings)

At(G, node) == {c \in Customers : \E e \in G : e.from = c /\ e.to = node}

ClustersBetween(before, after, clusters) ==
    /\ \A node \in Devices \cup Addresses :
         Cardinality(At(before, node)) >= MinShared => \E c \in clusters : c.shared = node
    /\ \A c \in clusters :
         /\ Cardinality(c.customers) >= MinShared
         /\ At(before, c.shared) \subseteq c.customers
         /\ c.customers \subseteq At(after, c.shared)

(* A detection reports exactly the rings, with exactly the volumes, of a   *)
(* set of transfers that has all that were committed in its window before  *)
(* it began and none that was not when it had read; and every cluster that *)
(* was there before, and none that was not there in the end: although      *)
(* other requests commit between its four reads and the clock moves on.    *)
DetectionBetween ==
    \A r \in Requests :
      LET q == requests[r] IN
      q.call.op = "detect" /\ q.status = 200 =>
        /\ RingsBetween(q.before, q.after, q.answer.rings)
        /\ ClustersBetween(q.before, q.after, q.answer.clusters)

(* A walk of at most Depth steps along edges in either direction.          *)
Near(G, center, node) ==
    \E w \in [0..Depth -> Nodes(G)] :
      /\ w[0] = center /\ w[Depth] = node
      /\ \A i \in 1..Depth :
           w[i] = w[i - 1] \/ \E e \in G : {e.from, e.to} = {w[i - 1], w[i]}

(* An entity's neighbourhood holds every node that was within reach when   *)
(* the request began, none that was not at the end of its reads, and every *)
(* row between two nodes it shows; only an entity that was not there is    *)
(* answered with a 404.                                                    *)
NeighbourhoodBetween ==
    \A r \in Requests :
      LET q == requests[r] IN
      q.call.op = "entity" =>
        /\ q.status = 404 => q.call.center \notin Nodes(q.before)
        /\ q.status = 200 =>
             /\ \A n \in Nodes(q.before) : Near(q.before, q.call.center, n) => n \in q.answer.nodes
             /\ \A n \in q.answer.nodes : Near(q.after, q.call.center, n)
             /\ q.answer.edges \subseteq q.after
             /\ {e \in q.before : {e.from, e.to} \subseteq q.answer.nodes} \subseteq q.answer.edges

(* Where the event of a request is.                                        *)
Underway(r) == \/ \E i \in DOMAIN pool : pool[i] = Job(r, "telemetry")
               \/ Job(r, "telemetry") \in running
Carried(r)  == {t \in Topics : <<r, t>> \in queue \/ r \in topics[t]}

(* A request leaves no event before it is answered, and one afterwards,    *)
(* that is underway, or on one topic only, or given up; and a thread that  *)
(* flushes stands for every message in the producer.                       *)
EventAccounted ==
    /\ \A r \in Requests :
         /\ Cardinality(Carried(r)) <= 1
         /\ Underway(r) => Carried(r) = {}
         /\ (Underway(r) \/ Carried(r) # {} \/ r \in lost) <=> requests[r].phase = "answered"
    /\ \A m \in queue : Job(m[1], "flush") \in running

(* Every request is answered, though telemetry of others blocks the        *)
(* threads it may need, unless the process dies; and what it has to report *)
(* reaches a topic or is given up.                                         *)
EveryRequestSettled ==
    \A r \in Requests :
      requests[r].phase = "handling" ~>
        \/ requests[r].phase = "failed"
        \/ requests[r].phase = "answered" /\ (r \in lost \/ \E t \in Topics : r \in topics[t])
=============================================================================
