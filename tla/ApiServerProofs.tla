-------------------------- MODULE ApiServerProofs --------------------------
(***************************************************************************)
(* What becomes of a request's telemetry event, for any pool, any requests *)
(* and any failures of the broker: it is underway, or on one topic, or     *)
(* given up, from the answer on and not before.  And what requests for a   *)
(* neighbourhood and for fraud rings answer, whatever is committed between *)
(* their reads: walks, cycles and sums, in any graph.                      *)
(***************************************************************************)
EXTENDS ApiServer, FiniteSetTheorems, WellFoundedInduction, TLAPS

LEMMA NatOrder == IsWellFoundedOn({ss \in Nat \X Nat : ss[1] < ss[2]}, Nat)
  BY NatLessThanWellFounded, Zenon DEF OpToRel

(* A set of numbers has a least one.                                       *)
LEMMA LeastNatural ==
    ASSUME NEW T \in SUBSET Nat, T # {}
    PROVE  \E x \in T : \A y \in T : x <= y
  <1> PICK R : R = {ss \in Nat \X Nat : ss[1] < ss[2]}
    OBVIOUS
  <1>1. PICK x \in T : \A y \in T : <<y, x>> \notin R
    BY NatOrder, WFMin
  <1>2. ASSUME NEW y \in T PROVE x <= y
    <2>1. <<y, x>> \in Nat \X Nat /\ <<y, x>>[1] = y /\ <<y, x>>[2] = x
      OBVIOUS
    <2>2. ~(y < x)
      BY <1>1, <2>1
    <2> QED BY <1>2, <2>2
  <1> QED BY <1>2

-----------------------------------------------------------------------------

PoolJobs == [of : Requests, work : {"telemetry", "analysis"}]
Fields   == DOMAIN NoRequest

InPool(job) == \E i \in DOMAIN pool : pool[i] = job

Reporting(r) == InPool(Job(r, "telemetry")) \/ Job(r, "telemetry") \in running
Analysing(r) == InPool(Job(r, "analysis")) \/ Job(r, "analysis") \in running
Has(r, t)    == <<r, t>> \in queue \/ r \in topics[t]

(* A job waits once, and not while it runs.  Without it a thread could     *)
(* send an event that another job is going to send again.                  *)
JobsOnce ==
    /\ pool \in Seq(PoolJobs)
    /\ \A i, j \in DOMAIN pool : pool[i] = pool[j] => i = j
    /\ \A job \in running : ~InPool(job)

(* The event of one request. *)
Accounted(r) ==
    /\ \A t, u \in Topics : Has(r, t) /\ Has(r, u) => t = u
    /\ Reporting(r) => \A t \in Topics : ~Has(r, t)
    /\ (Reporting(r) \/ (\E t \in Topics : Has(r, t)) \/ r \in lost)
         <=> requests[r].phase = "answered"
    /\ Analysing(r) => requests[r].phase = "analysed"
    /\ \A t \in Topics : <<r, t>> \in queue => Job(r, "flush") \in running

IInv ==
    /\ DOMAIN requests = Requests
    /\ \A r \in Requests : DOMAIN requests[r] = Fields
    /\ DOMAIN topics = Topics /\ queue \subseteq Requests \X Topics
    /\ JobsOnce
    /\ \A r \in Requests : Accounted(r)

-----------------------------------------------------------------------------
(* Jobs in the pool. *)

LEMMA JobsDiffer ==
    ASSUME NEW r, NEW s, NEW work, NEW other
    PROVE  /\ Job(r, work) = Job(s, other) <=> r = s /\ work = other
           /\ r \in Requests /\ work \in {"telemetry", "analysis"} => Job(r, work) \in PoolJobs
  BY DEF Job, PoolJobs

LEMMA Queued ==
    ASSUME JobsOnce, NEW job \in PoolJobs, ~InPool(job), job \notin running,
           pool' = Append(pool, job), running' \subseteq running
    PROVE  JobsOnce' /\ \A other : InPool(other)' <=> InPool(other) \/ other = job
  <1>1. /\ pool' \in Seq(PoolJobs) /\ Len(pool') = Len(pool) + 1 /\ Len(pool) \in Nat
        /\ \A i \in 1..Len(pool) : pool'[i] = pool[i]
        /\ pool'[Len(pool) + 1] = job
        /\ DOMAIN pool = 1..Len(pool) /\ DOMAIN pool' = 1..Len(pool) + 1
    BY DEF JobsOnce
  <1>2. \A i \in DOMAIN pool' : i \in DOMAIN pool \/ i = Len(pool) + 1
    BY <1>1
  <1>3. ASSUME NEW other PROVE InPool(other)' <=> InPool(other) \/ other = job
    <2>1. ASSUME InPool(other)' PROVE InPool(other) \/ other = job
      BY <1>1, <1>2, <2>1 DEF InPool
    <2>2. ASSUME InPool(other) PROVE InPool(other)'
      BY <1>1, <2>2 DEF InPool
    <2>3. InPool(job)'
      BY <1>1 DEF InPool
    <2> QED BY <2>1, <2>2, <2>3
  <1>4. ASSUME NEW i \in DOMAIN pool', NEW j \in DOMAIN pool', pool'[i] = pool'[j] PROVE i = j
    <2>1. CASE i \in DOMAIN pool /\ j \in DOMAIN pool
      BY <1>1, <1>4, <2>1 DEF JobsOnce
    <2>2. CASE i = Len(pool) + 1 /\ j \in DOMAIN pool
      BY <1>1, <1>4, <2>2 DEF InPool
    <2>3. CASE i \in DOMAIN pool /\ j = Len(pool) + 1
      BY <1>1, <1>4, <2>3 DEF InPool
    <2> QED BY <1>2, <2>1, <2>2, <2>3
  <1>5. \A other \in running' : ~InPool(other)'
    BY <1>3 DEF JobsOnce
  <1> QED BY <1>1, <1>3, <1>4, <1>5 DEF JobsOnce

LEMMA Taken ==
    ASSUME JobsOnce, pool # <<>>, pool' = Tail(pool), running' = running \cup {Head(pool)}
    PROVE  /\ JobsOnce' /\ InPool(Head(pool)) /\ Head(pool) \in PoolJobs
           /\ \A other : InPool(other)' <=> InPool(other) /\ other # Head(pool)
  <1>1. /\ pool' \in Seq(PoolJobs) /\ Len(pool) \in Nat \ {0} /\ Head(pool) = pool[1]
        /\ pool[1] \in PoolJobs
        /\ \A i \in 1..Len(pool) - 1 : pool'[i] = pool[i + 1]
        /\ DOMAIN pool = 1..Len(pool) /\ DOMAIN pool' = 1..Len(pool) - 1
    BY DEF JobsOnce
  <1>2. InPool(Head(pool))
    BY <1>1 DEF InPool
  <1>3. ASSUME NEW other PROVE InPool(other)' <=> InPool(other) /\ other # Head(pool)
    <2>1. ASSUME InPool(other)' PROVE InPool(other) /\ other # Head(pool)
      <3>1. PICK i \in 1..Len(pool) - 1 : pool[i + 1] = other
        BY <1>1, <2>1 DEF InPool
      <3>2. i + 1 \in DOMAIN pool /\ 1 \in DOMAIN pool /\ i + 1 # 1
        BY <1>1
      <3> QED BY <1>1, <3>1, <3>2 DEF InPool, JobsOnce
    <2>2. ASSUME InPool(other), other # Head(pool) PROVE InPool(other)'
      <3>1. PICK i \in 1..Len(pool) : pool[i] = other
        BY <1>1, <2>2 DEF InPool
      <3>2. i # 1
        BY <1>1, <2>2, <3>1
      <3> PICK j : j = i - 1
        OBVIOUS
      <3>3. j \in 1..Len(pool) - 1 /\ j + 1 = i
        BY <1>1, <3>2
      <3> QED BY <1>1, <3>1, <3>3 DEF InPool
    <2> QED BY <2>1, <2>2
  <1>4. ASSUME NEW i \in DOMAIN pool', NEW j \in DOMAIN pool', pool'[i] = pool'[j] PROVE i = j
    <2>1. /\ i + 1 \in DOMAIN pool /\ j + 1 \in DOMAIN pool /\ i \in Nat /\ j \in Nat
          /\ pool'[i] = pool[i + 1] /\ pool'[j] = pool[j + 1]
      BY <1>1
    <2>2. i + 1 = j + 1
      BY <1>4, <2>1 DEF JobsOnce
    <2> QED BY <2>1, <2>2
  <1>5. \A other \in running' : ~InPool(other)'
    BY <1>3 DEF JobsOnce
  <1> QED BY <1>1, <1>2, <1>3, <1>4, <1>5 DEF JobsOnce

LEMMA NothingQueued ==
    ASSUME JobsOnce, pool' = pool, \A job \in running' : ~InPool(job)
    PROVE  JobsOnce' /\ \A other : InPool(other)' <=> InPool(other)
  BY DEF JobsOnce, InPool

-----------------------------------------------------------------------------
(* Steps. *)

(* A request the step does not concern. *)
LEMMA Aside ==
    ASSUME NEW r \in Requests, Accounted(r), requests'[r].phase = requests[r].phase,
           Reporting(r)' <=> Reporting(r), Analysing(r)' <=> Analysing(r),
           \A t \in Topics : /\ <<r, t>> \in queue' <=> <<r, t>> \in queue
                             /\ r \in topics'[t] <=> r \in topics[t],
           r \in lost' <=> r \in lost,
           Job(r, "flush") \in running => Job(r, "flush") \in running'
    PROVE  Accounted(r)'
  BY DEF Accounted, Has

(* A request in hand has no event and no job. *)
LEMMA InHandHasNothing ==
    ASSUME NEW r \in Requests, Accounted(r), requests[r].phase # "answered"
    PROVE  /\ ~Reporting(r) /\ r \notin lost /\ \A t \in Topics : ~Has(r, t)
           /\ requests[r].phase # "analysed" => ~Analysing(r)
  BY DEF Accounted

(* The answer, of whatever handler, and the task that reports it. *)
LEMMA Responds ==
    ASSUME IInv, NEW r \in Requests, NEW status, NEW answer, Respond(r, status, answer),
           requests[r].phase # "answered", UNCHANGED wire,
           \/ running' = running /\ ~Analysing(r)
           \/ running' = running \ {Job(r, "analysis")} /\ Job(r, "analysis") \in running
    PROVE  IInv'
  <1> PICK job : job = Job(r, "telemetry")
    OBVIOUS
  <1>1. /\ DOMAIN requests' = Requests /\ requests'[r].phase = "answered"
        /\ DOMAIN requests'[r] = Fields
        /\ \A q \in Requests \ {r} : requests'[q] = requests[q]
        /\ pool' = Append(pool, job)
    BY DEF Respond, Dispatch, IInv, Fields, NoRequest
  <1>2. /\ ~Reporting(r) /\ r \notin lost /\ \A t \in Topics : ~Has(r, t)
        /\ job \in PoolJobs
    BY InHandHasNothing, JobsDiffer DEF IInv
  <1>3. JobsOnce' /\ \A other : InPool(other)' <=> InPool(other) \/ other = job
    <2>1. running' \subseteq running
      OBVIOUS
    <2> QED BY <1>1, <1>2, <2>1, Queued DEF IInv, Reporting
  <1>4. Accounted(r)'
    <2>1. Reporting(r)'
      BY <1>3 DEF Reporting
    <2>2. ~Analysing(r)'
      <3>1. ~InPool(Job(r, "analysis")) /\ Job(r, "analysis") \notin running'
        BY DEF Analysing, IInv, JobsOnce
      <3> QED BY <1>3, <3>1, JobsDiffer DEF Analysing
    <2>3. \A t \in Topics : ~Has(r, t)'
      BY <1>2 DEF Has, wire
    <2>4. \A t \in Topics : <<r, t>> \notin queue'
      BY <2>3 DEF Has
    <2> QED BY <1>1, <2>1, <2>2, <2>3, <2>4 DEF Accounted
  <1>5. ASSUME NEW q \in Requests \ {r} PROVE Accounted(q)'
    <2>1. \A work : Job(q, work) # job /\ Job(q, work) # Job(r, "analysis")
      BY JobsDiffer
    <2>2. \A work : /\ InPool(Job(q, work))' <=> InPool(Job(q, work))
                    /\ Job(q, work) \in running' <=> Job(q, work) \in running
      BY <1>3, <2>1
    <2>3. (Reporting(q)' <=> Reporting(q)) /\ (Analysing(q)' <=> Analysing(q))
      BY <2>2 DEF Reporting, Analysing
    <2> QED BY <1>1, <2>2, <2>3, Aside DEF IInv, wire
  <1>6. \A q \in Requests : DOMAIN requests'[q] = Fields
    BY <1>1 DEF IInv
  <1> QED BY <1>1, <1>3, <1>4, <1>5, <1>6 DEF IInv, wire

(* A handler at work: nothing but its request changes. *)
LEMMA HandlerKeeps ==
    ASSUME IInv, NEW r \in Requests, requests[r].phase \in {"free", "handling"},
           DOMAIN requests' = Requests, DOMAIN requests'[r] = Fields,
           requests'[r].phase = "handling",
           \A q \in Requests \ {r} : requests'[q] = requests[q],
           UNCHANGED <<pool, running, wire>>
    PROVE  IInv'
  <1>1. JobsOnce' /\ \A other : InPool(other)' <=> InPool(other)
    BY NothingQueued DEF IInv, JobsOnce
  <1>2. \A q \in Requests : (Reporting(q)' <=> Reporting(q)) /\ (Analysing(q)' <=> Analysing(q))
    BY <1>1 DEF Reporting, Analysing
  <1>3. ASSUME NEW q \in Requests \ {r} PROVE Accounted(q)'
    BY <1>2, Aside DEF IInv, wire
  <1>4. Accounted(r)'
    <2>1. /\ ~Reporting(r) /\ r \notin lost /\ ~Analysing(r)
          /\ \A t \in Topics : ~Has(r, t)
      BY InHandHasNothing DEF IInv
    <2>2. /\ ~Reporting(r)' /\ r \notin lost' /\ ~Analysing(r)'
          /\ \A t \in Topics : ~Has(r, t)' /\ <<r, t>> \notin queue'
      BY <1>2, <2>1 DEF Has, wire
    <2> QED BY <2>2 DEF Accounted
  <1> QED BY <1>1, <1>3, <1>4 DEF IInv, wire

LEMMA ReceiveKeeps == ASSUME IInv, NEW r \in Requests, Receive(r) PROVE IInv'
  <1>1. PICK call : requests' = [requests EXCEPT ![r] =
             [NoRequest EXCEPT !.call = call, !.phase = "handling", !.cutoff = now - Lookback,
                               !.before = IF ReadsGraph(call) THEN Committed(now - Lookback)
                                          ELSE {}]]
    BY DEF Receive
  <1>2. /\ DOMAIN requests' = Requests /\ requests'[r].phase = "handling"
        /\ DOMAIN requests'[r] = Fields
        /\ \A q \in Requests \ {r} : requests'[q] = requests[q]
    BY <1>1 DEF IInv, NoRequest, Fields
  <1> QED BY <1>2, HandlerKeeps DEF Receive

LEMMA ReadKeeps == ASSUME IInv, NEW r \in Requests, Read(r) PROVE IInv'
  <1>1. /\ DOMAIN requests' = Requests /\ requests'[r].phase = "handling"
        /\ DOMAIN requests'[r] = Fields
        /\ \A q \in Requests \ {r} : requests'[q] = requests[q]
    BY DEF IInv, Read, Fields, NoRequest
  <1> QED BY <1>1, HandlerKeeps DEF Read

LEMMA ToThreadKeeps == ASSUME IInv, NEW r \in Requests, ToThread(r) PROVE IInv'
  <1> PICK job : job = Job(r, "analysis")
    OBVIOUS
  <1>1. /\ DOMAIN requests' = Requests /\ requests'[r].phase = "analysed"
        /\ DOMAIN requests'[r] = Fields
        /\ \A q \in Requests \ {r} : requests'[q] = requests[q]
        /\ pool' = Append(pool, job) /\ running' = running /\ UNCHANGED wire
    BY DEF ToThread, IInv, Fields, NoRequest
  <1>2. /\ ~Reporting(r) /\ r \notin lost /\ ~Analysing(r) /\ \A t \in Topics : ~Has(r, t)
        /\ job \in PoolJobs
    BY InHandHasNothing, JobsDiffer DEF IInv, ToThread
  <1>3. JobsOnce' /\ \A other : InPool(other)' <=> InPool(other) \/ other = job
    BY <1>1, <1>2, Queued DEF IInv, Analysing
  <1>4. Accounted(r)'
    <2>1. ~Reporting(r)'
      BY <1>1, <1>2, <1>3, JobsDiffer DEF Reporting
    <2>2. r \notin lost' /\ \A t \in Topics : ~Has(r, t)' /\ <<r, t>> \notin queue'
      BY <1>1, <1>2 DEF Has, wire
    <2> QED BY <1>1, <2>1, <2>2 DEF Accounted
  <1>5. ASSUME NEW q \in Requests \ {r} PROVE Accounted(q)'
    <2>1. \A work : Job(q, work) # job
      BY JobsDiffer
    <2>2. (Reporting(q)' <=> Reporting(q)) /\ (Analysing(q)' <=> Analysing(q))
      BY <1>1, <1>3, <2>1 DEF Reporting, Analysing
    <2> QED BY <1>1, <2>2, Aside DEF IInv, wire
  <1> QED BY <1>1, <1>3, <1>4, <1>5 DEF IInv, wire

LEMMA StartKeeps == ASSUME IInv, Start PROVE IInv'
  <1>1. /\ JobsOnce' /\ InPool(Head(pool)) /\ Head(pool) \in PoolJobs
        /\ \A other : InPool(other)' <=> InPool(other) /\ other # Head(pool)
    BY Taken DEF IInv, Start
  <1>2. ASSUME NEW q \in Requests PROVE Accounted(q)'
    <2>1. (Reporting(q)' <=> Reporting(q)) /\ (Analysing(q)' <=> Analysing(q))
      BY <1>1 DEF Start, Reporting, Analysing
    <2> QED BY <2>1, Aside DEF Start, IInv, wire
  <1> QED BY <1>1, <1>2 DEF Start, IInv, wire

LEMMA AnalyseKeeps == ASSUME IInv, NEW r \in Requests, Analyse(r) PROVE IInv'
  <1>1. requests[r].phase = "analysed"
    BY DEF Analyse, IInv, Accounted, Analysing
  <1> QED BY <1>1, Responds DEF Analyse

LEMMA RespondingKeeps ==
    ASSUME IInv, NEW r \in Requests, Transfer(r) \/ Login(r) \/ Fail(r) \/ NotFound(r)
    PROVE  IInv'
  <1>1. /\ requests[r].phase = "handling" /\ running' = running /\ UNCHANGED wire
        /\ \E status, answer : Respond(r, status, answer)
    BY DEF Transfer, Login, Fail, NotFound
  <1>2. ~Analysing(r)
    BY <1>1, InHandHasNothing DEF IInv
  <1> QED BY <1>1, <1>2, Responds

LEMMA SendKeeps == ASSUME IInv, NEW r \in Requests, Send(r) PROVE IInv'
  <1>1. PICK t \in Topics : queue' = queue \cup {<<r, t>>}
    BY DEF Send, Topics
  <1>2. /\ Job(r, "telemetry") \in running
        /\ running' = (running \ {Job(r, "telemetry")}) \cup {Job(r, "flush")}
        /\ UNCHANGED <<requests, pool, topics, lost>>
    BY DEF Send
  <1>3. JobsOnce' /\ \A other : InPool(other)' <=> InPool(other)
    <2>1. ~InPool(Job(r, "flush"))
      <3>1. Job(r, "flush") \notin PoolJobs
        BY DEF Job, PoolJobs
      <3> QED BY <3>1 DEF InPool, IInv, JobsOnce
    <2> QED BY <1>2, <2>1, NothingQueued DEF IInv, JobsOnce
  <1>4. Accounted(r)'
    <2>1. /\ Reporting(r) /\ requests'[r].phase = "answered" /\ ~Analysing(r)
          /\ \A u \in Topics : ~Has(r, u)
      BY <1>2 DEF IInv, Accounted, Reporting
    <2>2. ~InPool(Job(r, "telemetry"))
      BY <1>2 DEF IInv, JobsOnce
    <2>3. ~Reporting(r)' /\ ~Analysing(r)'
      BY <1>2, <1>3, <2>1, <2>2, JobsDiffer DEF Reporting, Analysing
    <2>4. \A u \in Topics : Has(r, u)' <=> u = t
      BY <1>1, <1>2, <2>1 DEF Has
    <2> QED BY <1>2, <2>1, <2>3, <2>4 DEF Accounted
  <1>5. ASSUME NEW q \in Requests \ {r} PROVE Accounted(q)'
    <2>1. \A work, other : Job(q, work) # Job(r, other)
      BY JobsDiffer
    <2>2. (Reporting(q)' <=> Reporting(q)) /\ (Analysing(q)' <=> Analysing(q))
      BY <1>2, <1>3, <2>1 DEF Reporting, Analysing
    <2> QED BY <1>1, <1>2, <2>1, <2>2, Aside DEF IInv
  <1>6. queue' \subseteq Requests \X Topics
    BY <1>1 DEF IInv
  <1> QED BY <1>2, <1>3, <1>4, <1>5, <1>6 DEF IInv

LEMMA FlushedKeeps == ASSUME IInv, NEW r \in Requests, Flushed(r) PROVE IInv'
  <1>1. /\ running' = running \ {Job(r, "flush")} /\ queue = {}
        /\ UNCHANGED <<requests, pool, wire>>
    BY DEF Flushed, Drained
  <1>2. JobsOnce' /\ \A other : InPool(other)' <=> InPool(other)
    BY <1>1, NothingQueued DEF IInv, JobsOnce
  <1>3. ASSUME NEW q \in Requests PROVE Accounted(q)'
    <2>1. Job(q, "telemetry") # Job(r, "flush") /\ Job(q, "analysis") # Job(r, "flush")
      BY JobsDiffer
    <2>2. (Reporting(q)' <=> Reporting(q)) /\ (Analysing(q)' <=> Analysing(q))
      BY <1>1, <1>2, <2>1 DEF Reporting, Analysing
    <2>3. \A t \in Topics : Has(q, t)' <=> Has(q, t)
      BY <1>1 DEF Has, wire
    <2> QED BY <1>1, <2>2, <2>3 DEF IInv, Accounted, wire
  <1> QED BY <1>1, <1>2, <1>3 DEF IInv, wire

(* The broker takes a message, or the producer gives it up. *)
LEMMA SettleKeeps == ASSUME IInv, NEW r \in Requests, NEW t \in Topics, Settle(r, t) PROVE IInv'
  <1>1. /\ <<r, t>> \in queue /\ queue' = queue \ {<<r, t>>}
        /\ UNCHANGED <<requests, pool, running>>
        /\ \/ topics' = [topics EXCEPT ![t] = @ \cup {r}] /\ lost' = lost
           \/ topics' = topics /\ lost' = lost \cup {r}
    BY DEF Settle, Deliver, Expire
  <1>2. JobsOnce' /\ \A other : InPool(other)' <=> InPool(other)
    BY <1>1, NothingQueued DEF IInv, JobsOnce
  <1>3. \A q \in Requests : (Reporting(q)' <=> Reporting(q)) /\ (Analysing(q)' <=> Analysing(q))
    BY <1>1, <1>2 DEF Reporting, Analysing
  <1>4. /\ DOMAIN topics' = Topics
        /\ \A q \in Requests \ {r} : \A u \in Topics : q \in topics'[u] <=> q \in topics[u]
        /\ \A u \in Topics \ {t} : topics'[u] = topics[u]
        /\ r \in topics'[t] \/ r \in lost'
    BY <1>1 DEF IInv
  <1>5. ASSUME NEW q \in Requests \ {r} PROVE Accounted(q)'
    BY <1>1, <1>3, <1>4, Aside DEF IInv
  <1>6. Accounted(r)'
    <2>1. Has(r, t) /\ \A u \in Topics : Has(r, u)' => Has(r, u)
      BY <1>1, <1>4 DEF Has
    <2>2. Accounted(r)
      BY DEF IInv
    <2>3. /\ ~Reporting(r) /\ requests[r].phase = "answered" /\ ~Analysing(r)
      BY <2>1, <2>2 DEF Accounted
    <2>4. Has(r, t)' \/ r \in lost'
      BY <1>4 DEF Has
    <2> QED BY <1>1, <1>3, <2>1, <2>2, <2>3, <2>4 DEF Accounted
  <1> QED BY <1>1, <1>2, <1>4, <1>5, <1>6 DEF IInv

LEMMA RestartKeeps == ASSUME IInv, Restart PROVE IInv'
  <1> PICK jobs : jobs = running \cup {pool[i] : i \in DOMAIN pool}
    OBVIOUS
  <1>1. /\ requests' = [r \in Requests |->
                          IF requests[r].phase \in {"handling", "analysed"}
                          THEN [requests[r] EXCEPT !.phase = "failed", !.graph = {}]
                          ELSE requests[r]]
        /\ lost' = lost \cup {r \in Requests : Job(r, "telemetry") \in jobs
                                               \/ \E t \in Topics : <<r, t>> \in queue}
        /\ pool' = <<>> /\ running' = {} /\ queue' = {} /\ topics' = topics
    BY DEF Restart
  <1>2. JobsOnce' /\ \A other : ~InPool(other)'
    <2>1. pool' \in Seq(PoolJobs) /\ DOMAIN pool' = {}
      <3>1. <<>> \in Seq(PoolJobs) /\ DOMAIN <<>> = {}
        OBVIOUS
      <3>2. pool' = <<>>
        BY <1>1
      <3> QED BY <3>1, <3>2, Zenon
    <2> QED BY <1>1, <2>1 DEF JobsOnce, InPool
  <1>3. ASSUME NEW r \in Requests
        PROVE  /\ DOMAIN requests'[r] = Fields
               /\ requests'[r].phase = "answered" <=> requests[r].phase = "answered"
    BY <1>1 DEF IInv, Fields, NoRequest
  <1>4. ASSUME NEW r \in Requests PROVE Accounted(r)'
    <2>1. ~Reporting(r)' /\ ~Analysing(r)'
      BY <1>1, <1>2 DEF Reporting, Analysing
    <2>2. \A t \in Topics : Has(r, t)' <=> r \in topics[t]
      BY <1>1 DEF Has
    <2>3. Job(r, "telemetry") \in jobs <=> Reporting(r)
      BY DEF Reporting, InPool
    <2>4. r \in lost' <=> r \in lost \/ Reporting(r) \/ \E t \in Topics : <<r, t>> \in queue
      BY <1>1, <2>3
    <2>5. Accounted(r)
      BY DEF IInv
    <2> QED BY <1>1, <1>3, <2>1, <2>2, <2>4, <2>5 DEF Accounted, Has
  <1> QED BY <1>1, <1>2, <1>3, <1>4 DEF IInv

LEMMA UnchangedKeeps ==
    ASSUME IInv, UNCHANGED <<requests, pool, running, wire>>
    PROVE  IInv'
  <1>1. JobsOnce' /\ \A other : InPool(other)' <=> InPool(other)
    BY NothingQueued DEF IInv, JobsOnce
  <1>2. ASSUME NEW q \in Requests PROVE Accounted(q)'
    <2>1. (Reporting(q)' <=> Reporting(q)) /\ (Analysing(q)' <=> Analysing(q))
      BY <1>1 DEF Reporting, Analysing
    <2> QED BY <2>1, Aside DEF IInv, wire
  <1> QED BY <1>1, <1>2 DEF IInv, wire

LEMMA InitOK == Init => IInv
  <1> SUFFICES ASSUME Init PROVE IInv
    OBVIOUS
  <1>1. /\ requests = [r \in Requests |-> NoRequest] /\ pool = <<>> /\ running = {}
        /\ queue = {} /\ topics = [t \in Topics |-> {}] /\ lost = {}
    BY DEF Init
  <1>2. JobsOnce /\ \A job : ~InPool(job)
    BY <1>1 DEF JobsOnce, InPool
  <1>3. ASSUME NEW r \in Requests PROVE Accounted(r)
    <2>1. requests[r].phase = "free"
      BY <1>1 DEF NoRequest
    <2> QED BY <1>1, <1>2, <2>1 DEF Accounted, Reporting, Analysing, Has
  <1> QED BY <1>1, <1>2, <1>3 DEF IInv, Fields

LEMMA StepOK == IInv /\ [Next]_vars => IInv'
  <1> SUFFICES ASSUME IInv, [Next]_vars PROVE IInv'
    OBVIOUS
  <1>1. ASSUME NEW r \in Requests, Receive(r) PROVE IInv'
    BY <1>1, ReceiveKeeps
  <1>2. ASSUME NEW r \in Requests, Transfer(r) \/ Login(r) \/ Fail(r) \/ NotFound(r)
        PROVE  IInv'
    BY <1>2, RespondingKeeps
  <1>3. ASSUME NEW r \in Requests, Read(r) PROVE IInv'
    BY <1>3, ReadKeeps
  <1>4. ASSUME NEW r \in Requests, ToThread(r) PROVE IInv'
    BY <1>4, ToThreadKeeps
  <1>5. ASSUME NEW r \in Requests, Analyse(r) PROVE IInv'
    BY <1>5, AnalyseKeeps
  <1>6. ASSUME NEW r \in Requests, Send(r) PROVE IInv'
    BY <1>6, SendKeeps
  <1>7. ASSUME NEW r \in Requests, Flushed(r) PROVE IInv'
    BY <1>7, FlushedKeeps
  <1>8. ASSUME NEW r \in Requests, NEW t \in Topics, Deliver(r, t) \/ Expire(r, t)
        PROVE  IInv'
    BY <1>8, SettleKeeps DEF Settle
  <1>9. CASE Start
    BY <1>9, StartKeeps
  <1>10. CASE Restart
    BY <1>10, RestartKeeps
  <1>11. CASE Tick
    BY <1>11, UnchangedKeeps DEF Tick
  <1>12. CASE UNCHANGED vars
    BY <1>12, UnchangedKeeps DEF vars
  <1> QED BY <1>1, <1>2, <1>3, <1>4, <1>5, <1>6, <1>7, <1>8, <1>9, <1>10, <1>11, <1>12 DEF Next

-----------------------------------------------------------------------------
LEMMA AtMostOne ==
    ASSUME NEW S, \A t, u \in S : t = u
    PROVE  Cardinality(S) <= 1
  <1>1. CASE S = {}
    <2>1. Cardinality(S) = 0
      BY <1>1, FS_EmptySet, Zenon
    <2> QED BY <2>1
  <1>2. CASE S # {}
    <2>1. PICK t : S = {t}
      BY <1>2
    <2>2. Cardinality({t}) = 1
      BY FS_Singleton, Zenon
    <2> QED BY <2>1, <2>2
  <1> QED BY <1>1, <1>2

(* EventAccounted: whatever the pool, the broker and the process do, a     *)
(* request leaves one event and only once it is answered, and a thread in  *)
(* flush() stands for every message of the producer.                       *)
THEOREM EventsAccounted == Spec => []EventAccounted
  <1>1. IInv => EventAccounted
    <2> SUFFICES ASSUME IInv PROVE EventAccounted
      OBVIOUS
    <2>1. ASSUME NEW r \in Requests
          PROVE  /\ Cardinality(Carried(r)) <= 1
                 /\ Underway(r) => Carried(r) = {}
                 /\ (Underway(r) \/ Carried(r) # {} \/ r \in lost)
                      <=> requests[r].phase = "answered"
      <3>1. Accounted(r)
        BY DEF IInv
      <3>2. Underway(r) <=> Reporting(r)
        BY DEF Underway, Reporting, InPool
      <3>3. \A t : t \in Carried(r) <=> t \in Topics /\ Has(r, t)
        BY DEF Carried, Has
      <3>4. \A t, u \in Carried(r) : t = u
        BY <3>1, <3>3 DEF Accounted
      <3>5. Cardinality(Carried(r)) <= 1
        BY <3>4, AtMostOne
      <3> QED BY <3>1, <3>2, <3>3, <3>5 DEF Accounted
    <2>2. ASSUME NEW m \in queue PROVE Job(m[1], "flush") \in running
      <3>1. PICK r \in Requests, t \in Topics : m = <<r, t>>
        BY DEF IInv
      <3>2. Accounted(r)
        BY DEF IInv
      <3> QED BY <3>1, <3>2 DEF Accounted
    <2> QED BY <2>1, <2>2 DEF EventAccounted
  <1>2. Spec => []IInv
    BY InitOK, StepOK, PTL DEF Spec
  <1> QED BY <1>1, <1>2, PTL

-----------------------------------------------------------------------------
(* The neighbourhood an analysis finds: what walks reach.                  *)

Joins(G, n, m) == \E e \in G : {e.from, e.to} = {n, m}

Walk(G, w, depth, center) ==
    /\ w \in [0..depth -> Nodes(G)] /\ w[0] = center
    /\ \A i \in 1..depth : w[i] = w[i - 1] \/ Joins(G, w[i - 1], w[i])

Reached(G, center, depth, n) == \E w : Walk(G, w, depth, center) /\ w[depth] = n

Grows(near, G, center, depth) ==
    /\ near[0] = {center}
    /\ \A d \in 1..depth : near[d] = near[d - 1] \cup Neighbours(G, near[d - 1])

LEMMA NeighboursJoin ==
    ASSUME NEW G, NEW nodes, NEW m
    PROVE  m \in Neighbours(G, nodes) <=> \E n \in nodes : Joins(G, n, m)
  <1>1. ASSUME m \in Neighbours(G, nodes) PROVE \E n \in nodes : Joins(G, n, m)
    <2>1. PICK e \in G : \/ e.from \in nodes /\ m = e.to
                         \/ e.to \in nodes /\ m = e.from
      BY <1>1 DEF Neighbours
    <2> QED BY <2>1 DEF Joins
  <1>2. ASSUME NEW n \in nodes, Joins(G, n, m) PROVE m \in Neighbours(G, nodes)
    <2>1. PICK e \in G : {e.from, e.to} = {n, m}
      BY <1>2 DEF Joins
    <2>2. (e.from = n /\ e.to = m) \/ (e.from = m /\ e.to = n)
      BY <2>1
    <2> QED BY <2>2 DEF Neighbours
  <1> QED BY <1>1, <1>2

LEMMA NodesJoin ==
    ASSUME NEW G, NEW n, NEW m, Joins(G, n, m)
    PROVE  n \in Nodes(G) /\ m \in Nodes(G)
  BY DEF Joins, Nodes

(* The recursion of Within has a solution.                                 *)
LEMMA GrowthExists ==
    ASSUME NEW G, NEW center, NEW depth \in Nat
    PROVE  \E near : near = [d \in 0..depth |-> near[d]] /\ Grows(near, G, center, depth)
  <1> DEFINE Solved(m) == \E near : near = [d \in 0..m |-> near[d]] /\ Grows(near, G, center, m)
  <1> PICK T : T = {m \in 0..depth : ~Solved(m)}
    OBVIOUS
  <1>1. Solved(0)
    <2> PICK f : f = [k \in 0..0 |-> {center}]
      OBVIOUS
    <2>1. f = [k \in 0..0 |-> f[k]] /\ f[0] = {center}
      OBVIOUS
    <2> QED BY <2>1 DEF Grows
  <1>2. ASSUME NEW m \in 1..depth, Solved(m - 1) PROVE Solved(m)
    <2> PICK p : p = m - 1
      OBVIOUS
    <2>1. PICK g : g = [d \in 0..p |-> g[d]] /\ Grows(g, G, center, p)
      BY <1>2
    <2>0. PICK f : f = [k \in 0..m |-> IF k = m THEN g[p] \cup Neighbours(G, g[p]) ELSE g[k]]
      OBVIOUS
    <2>2. p \in Nat /\ p + 1 = m
      BY <1>2
    <2>3. f = [k \in 0..m |-> f[k]]
      BY <2>0
    <2>4. f[m] = g[p] \cup Neighbours(G, g[p])
      BY <1>2, <2>0, <2>2
    <2>5. \A k \in 0..p : f[k] = g[k]
      BY <1>2, <2>0, <2>2
    <2>6. /\ g[0] = {center}
          /\ \A d \in 1..p : g[d] = g[d - 1] \cup Neighbours(G, g[d - 1])
      BY <2>1 DEF Grows
    <2>7. ASSUME NEW k \in 1..m PROVE f[k] = f[k - 1] \cup Neighbours(G, f[k - 1])
      <3>1. CASE k = m
        <4>1. k - 1 = p /\ p \in 0..p
          BY <2>2, <3>1
        <4> QED BY <2>4, <2>5, <3>1, <4>1
      <3>2. CASE k # m
        <4>1. k \in 1..p /\ k - 1 \in 0..p /\ k \in 0..p
          BY <1>2, <2>2, <2>7, <3>2
        <4>2. f[k] = g[k] /\ f[k - 1] = g[k - 1]
          BY <2>5, <4>1
        <4>3. g[k] = g[k - 1] \cup Neighbours(G, g[k - 1])
          BY <2>6, <4>1
        <4> QED BY <4>2, <4>3
      <3> QED BY <3>1, <3>2
    <2>8. f[0] = {center}
      <3>1. 0 \in 0..p
        BY <2>2
      <3> QED BY <2>5, <2>6, <3>1
    <2>9. Grows(f, G, center, m)
      BY <2>7, <2>8 DEF Grows
    <2> QED BY <2>3, <2>9
  <1> HIDE DEF Solved
  <1>3. ASSUME T # {} PROVE FALSE
    <2>1. T \in SUBSET Nat
      OBVIOUS
    <2>2. PICK k \in T : \A y \in T : k <= y
      BY <1>3, <2>1, LeastNatural
    <2>3. k \in 1..depth /\ k - 1 \in 0..depth /\ k - 1 \notin T
      BY <1>1, <2>2
    <2> QED BY <1>2, <2>2, <2>3
  <1>4. Solved(depth)
    BY <1>3
  <1> QED BY <1>4 DEF Solved

LEMMA WithinGrows ==
    ASSUME NEW G, NEW center, NEW depth \in Nat
    PROVE  \E near : Grows(near, G, center, depth) /\ Within(G, center, depth) = near[depth]
  <1> DEFINE Is(near) == near = [d \in 0..depth |-> IF d = 0 THEN {center}
                                           ELSE near[d - 1] \cup Neighbours(G, near[d - 1])]
  <1>1. PICK f : f = [d \in 0..depth |-> f[d]] /\ Grows(f, G, center, depth)
    BY GrowthExists
  <1>2. Is(f)
    <2>1. ASSUME NEW d \in 0..depth
          PROVE  f[d] = IF d = 0 THEN {center} ELSE f[d - 1] \cup Neighbours(G, f[d - 1])
      BY <1>1 DEF Grows
    <2> QED BY <1>1, <2>1
  <1> PICK near : near = CHOOSE g : Is(g)
    OBVIOUS
  <1>3. Is(near)
    BY <1>2
  <1>4. Within(G, center, depth) = near[depth]
    BY Zenon DEF Within
  <1>5. Grows(near, G, center, depth)
    BY SMTT(30), <1>3 DEF Grows
  <1> QED BY <1>4, <1>5

(* A walk in a part of the graph stays within. *)
LEMMA ReachedWithin ==
    ASSUME NEW G, NEW part, part \subseteq G, NEW center, NEW depth \in Nat, NEW n,
           Reached(part, center, depth, n)
    PROVE  n \in Within(G, center, depth)
  <1>1. PICK near : Grows(near, G, center, depth) /\ Within(G, center, depth) = near[depth]
    BY WithinGrows
  <1>2. PICK w : Walk(part, w, depth, center) /\ w[depth] = n
    BY DEF Reached
  <1> PICK T : T = {d \in 0..depth : w[d] \notin near[d]}
    OBVIOUS
  <1>3. ASSUME T # {} PROVE FALSE
    <2>1. T \in SUBSET Nat
      OBVIOUS
    <2>2. PICK k \in T : \A y \in T : k <= y
      BY <1>3, <2>1, LeastNatural
    <2>3. k \in 1..depth /\ k - 1 \in 0..depth /\ k - 1 \notin T
      BY <1>1, <1>2, <2>2 DEF Grows, Walk
    <2>4. w[k - 1] \in near[k - 1] /\ near[k] = near[k - 1] \cup Neighbours(G, near[k - 1])
      BY <1>1, <2>3 DEF Grows
    <2>5. w[k] = w[k - 1] \/ Joins(part, w[k - 1], w[k])
      BY <1>2, <2>3 DEF Walk
    <2>6. Joins(part, w[k - 1], w[k]) => Joins(G, w[k - 1], w[k])
      BY DEF Joins
    <2>7. w[k] \in near[k]
      BY <2>4, <2>5, <2>6, NeighboursJoin
    <2> QED BY <2>2, <2>7
  <1>4. depth \notin T
    BY <1>3
  <1> QED BY <1>1, <1>2, <1>4

LEMMA WalkExtends ==
    ASSUME NEW G, NEW center, NEW p \in Nat, NEW m, Reached(G, center, p, m),
           NEW n, n = m \/ Joins(G, m, n), NEW k, k = p + 1
    PROVE  Reached(G, center, k, n)
  <1>1. PICK w : Walk(G, w, p, center) /\ w[p] = m
    BY DEF Reached
  <1> PICK v : v = [i \in 0..k |-> IF i = k THEN n ELSE w[i]]
    OBVIOUS
  <1>2. w \in [0..p -> Nodes(G)] /\ m \in Nodes(G) /\ w[0] = center
    BY <1>1 DEF Walk
  <1>3. n \in Nodes(G)
    BY <1>2, NodesJoin
  <1>4. v \in [0..k -> Nodes(G)] /\ v[k] = n /\ \A i \in 0..p : v[i] = w[i]
    BY <1>2, <1>3
  <1>5. ASSUME NEW i \in 1..k PROVE v[i] = v[i - 1] \/ Joins(G, v[i - 1], v[i])
    <2>1. CASE i = k
      <3>1. i - 1 = p /\ p \in 0..p
        BY <2>1
      <3>2. v[i] = n /\ v[i - 1] = m
        BY <1>1, <1>4, <2>1, <3>1
      <3> QED BY <3>2
    <2>2. CASE i # k
      <3>1. i \in 1..p /\ i \in 0..p /\ i - 1 \in 0..p
        BY <2>2
      <3>2. v[i] = w[i] /\ v[i - 1] = w[i - 1]
        BY <1>4, <3>1
      <3> QED BY <1>1, <3>1, <3>2 DEF Walk
    <2> QED BY <2>1, <2>2
  <1>6. v[0] = center
    BY <1>2, <1>4
  <1> QED BY <1>4, <1>5, <1>6 DEF Reached, Walk

(* What is within is at the end of a walk, in any graph that has no less.  *)
LEMMA WithinReached ==
    ASSUME NEW G, NEW whole, G \subseteq whole, NEW center \in Nodes(G), NEW depth \in Nat,
           NEW n \in Within(G, center, depth)
    PROVE  Reached(whole, center, depth, n)
  <1>1. PICK near : Grows(near, G, center, depth) /\ Within(G, center, depth) = near[depth]
    BY WithinGrows
  <1> PICK T : T = {d \in 0..depth : \E m \in near[d] : ~Reached(whole, center, d, m)}
    OBVIOUS
  <1>2. 0 \notin T
    <2> PICK w : w = [i \in 0..0 |-> center]
      OBVIOUS
    <2>1. center \in Nodes(whole)
      BY DEF Nodes
    <2>2. w \in [0..0 -> Nodes(whole)] /\ w[0] = center /\ 1..0 = {}
      BY <2>1
    <2>3. Reached(whole, center, 0, center)
      BY <2>2 DEF Reached, Walk
    <2> QED BY <1>1, <2>3 DEF Grows
  <1>3. ASSUME T # {} PROVE FALSE
    <2>1. T \in SUBSET Nat
      OBVIOUS
    <2>2. PICK k \in T : \A y \in T : k <= y
      BY <1>3, <2>1, LeastNatural
    <2> PICK p : p = k - 1
      OBVIOUS
    <2>3. k \in 1..depth /\ p \in Nat /\ k = p + 1 /\ p \in 0..depth /\ p \notin T
      BY <1>2, <2>2
    <2>4. near[k] = near[p] \cup Neighbours(G, near[p])
      BY <1>1, <2>3 DEF Grows
    <2>5. PICK m \in near[k] : ~Reached(whole, center, k, m)
      BY <2>2
    <2>6. \E l \in near[p] : m = l \/ Joins(G, l, m)
      BY <2>4, NeighboursJoin
    <2>7. PICK l \in near[p] : m = l \/ Joins(whole, l, m)
      BY <2>6 DEF Joins
    <2>8. Reached(whole, center, p, l)
      BY <2>3
    <2> QED BY <2>3, <2>5, <2>7, <2>8, WalkExtends
  <1>4. depth \notin T
    BY <1>3
  <1> QED BY <1>1, <1>4

LEMMA NearReached ==
    ASSUME NEW G, NEW center, NEW n
    PROVE  Near(G, center, n) <=> Reached(G, center, Depth, n)
  BY DEF Near, Reached, Walk, Joins

-----------------------------------------------------------------------------
(* What a request has read lies between what was committed before and      *)
(* after.                                                                  *)

(* What the reads still to come would find now. *)
Ahead(reads, cutoff) == UNION {Selected(i, cutoff) : i \in reads + 1..4}

Reading(q) ==
    /\ q.status = 0 /\ q.reads \in 0..4
    /\ IF ReadsGraph(q.call)
       THEN /\ q.before \subseteq q.graph \cup Ahead(q.reads, q.cutoff)
            /\ q.graph \subseteq Committed(q.cutoff)
            /\ q.reads = 4 => q.graph \subseteq q.after
       ELSE q.reads = 0
    /\ q.phase = "analysed" => q.reads = 4 /\ ~Missing(q)

AnalysisOf(q, G) ==
    /\ q.before \subseteq G /\ G \subseteq q.after
    /\ q.call.op = "entity" => q.call.center \in Nodes(G)
    /\ q.answer = Result(q.call, G)

Replied(q) ==
    ReadsGraph(q.call) =>
        /\ q.status = 404 => q.call.op = "entity" /\ q.call.center \notin Nodes(q.before)
        /\ q.status = 200 => \E G : AnalysisOf(q, G)

Bracketed(q) ==
    IF q.phase \in {"handling", "analysed"} THEN Reading(q) ELSE Replied(q)

NInv == IInv /\ \A r \in Requests : Bracketed(requests[r])

(* Rows are never deleted, nor changed. *)
RowsKept ==
    /\ accounts \subseteq accounts' /\ transactions \subseteq transactions'
    /\ devices \subseteq devices' /\ logins \subseteq logins'

LEMMA RowsGrow == [Next]_vars => RowsKept
  <1>1. rows' = rows => RowsKept
    BY DEF rows, RowsKept
  <1>2. ASSUME NEW r \in Requests, Transfer(r) PROVE RowsKept
    BY <1>2 DEF Transfer, RowsKept
  <1>3. ASSUME NEW r \in Requests, Login(r) PROVE RowsKept
    BY <1>3 DEF Login, RowsKept
  <1>4. ASSUME NEW r \in Requests, Receive(r) \/ Fail(r) \/ Read(r) \/ NotFound(r) \/ ToThread(r)
                                   \/ Analyse(r) \/ Send(r) \/ Flushed(r)
        PROVE  rows' = rows
    BY <1>4 DEF Receive, Fail, Read, NotFound, ToThread, Analyse, Send, Flushed, rows
  <1>5. ASSUME NEW r \in Requests, NEW t \in Topics, Deliver(r, t) \/ Expire(r, t)
        PROVE  rows' = rows
    BY <1>5 DEF Deliver, Expire, rows
  <1>6. ASSUME Start \/ Restart \/ Tick \/ UNCHANGED vars PROVE rows' = rows
    BY <1>6 DEF Start, Restart, Tick, vars, rows
  <1> QED BY <1>1, <1>2, <1>3, <1>4, <1>5, <1>6 DEF Next

LEMMA SelectedGrows ==
    ASSUME RowsKept, NEW cutoff
    PROVE  /\ \A i \in 1..4 : Selected(i, cutoff) \subseteq Selected(i, cutoff)'
           /\ Committed(cutoff) \subseteq Committed(cutoff)'
           /\ \A n \in 0..4 : Ahead(n, cutoff) \subseteq Ahead(n, cutoff)'
  <1>1. Owns(accounts) \subseteq Owns(accounts')
    BY DEF RowsKept, Owns
  <1>2. TransferredTo(transactions, cutoff) \subseteq TransferredTo(transactions', cutoff)
    BY DEF RowsKept, TransferredTo
  <1>3. UsedDevice(devices) \subseteq UsedDevice(devices')
    BY DEF RowsKept, UsedDevice
  <1>4. LoggedInFrom(logins, cutoff) \subseteq LoggedInFrom(logins', cutoff)
    BY DEF RowsKept, LoggedInFrom
  <1>5. ASSUME NEW i \in 1..4 PROVE Selected(i, cutoff) \subseteq Selected(i, cutoff)'
    <2>1. i = 1 \/ i = 2 \/ i = 3 \/ i = 4
      OBVIOUS
    <2> QED BY <1>1, <1>2, <1>3, <1>4, <2>1 DEF Selected
  <1>6. Committed(cutoff) \subseteq Committed(cutoff)'
    BY <1>5 DEF Committed
  <1>7. ASSUME NEW n \in 0..4 PROVE Ahead(n, cutoff) \subseteq Ahead(n, cutoff)'
    <2>1. n + 1..4 \subseteq 1..4
      OBVIOUS
    <2> QED BY <1>5, <2>1 DEF Ahead
  <1> QED BY <1>5, <1>6, <1>7

LEMMA StillBracketed ==
    ASSUME RowsKept, NEW q, Bracketed(q)
    PROVE  Bracketed(q)'
  <1>1. /\ Committed(q.cutoff) \subseteq Committed(q.cutoff)'
        /\ \A n \in 0..4 : Ahead(n, q.cutoff) \subseteq Ahead(n, q.cutoff)'
    BY SelectedGrows
  <1>2. Reading(q) => Reading(q)'
    BY <1>1 DEF Reading
  <1> QED BY <1>2 DEF Bracketed, Replied, AnalysisOf

LEMMA ReadingStays ==
    ASSUME rows' = rows, NEW q, Reading(q)
    PROVE  Reading(q)'
  <1>1. \A i, cutoff : Selected(i, cutoff)' = Selected(i, cutoff)
    BY DEF rows, Selected
  <1>2. \A n, cutoff : /\ Ahead(n, cutoff)' = Ahead(n, cutoff)
                       /\ Committed(cutoff)' = Committed(cutoff)
    BY <1>1 DEF Ahead, Committed
  <1> QED BY <1>2 DEF Reading

(* The answer, of whatever handler. *)
LEMMA Replies ==
    ASSUME IInv, NEW r \in Requests, NEW status, NEW answer, Respond(r, status, answer)
    PROVE  /\ DOMAIN requests' = Requests
           /\ \A s \in Requests \ {r} : requests'[s] = requests[s]
           /\ requests'[r].call = requests[r].call /\ requests'[r].phase = "answered"
           /\ requests'[r].status = status /\ requests'[r].answer = answer
           /\ requests'[r].before = requests[r].before /\ requests'[r].after = requests[r].after
  BY DEF Respond, IInv, Fields, NoRequest

LEMMA Others ==
    ASSUME NInv, RowsKept, NEW r \in Requests, \A s \in Requests \ {r} : requests'[s] = requests[s],
           Bracketed(requests[r])'
    PROVE  \A s \in Requests : Bracketed(requests[s])'
  <1>1. ASSUME NEW s \in Requests \ {r} PROVE Bracketed(requests[s])'
    <2> PICK q : q = requests[s]
      OBVIOUS
    <2>1. Bracketed(q)'
      BY StillBracketed DEF NInv
    <2> QED BY <1>1, <2>1 DEF Bracketed
  <1> QED BY <1>1

LEMMA ReceiveBrackets ==
    ASSUME NInv, RowsKept, NEW r \in Requests, Receive(r)
    PROVE  \A s \in Requests : Bracketed(requests[s])'
  <1>1. PICK call : requests' = [requests EXCEPT ![r] =
             [NoRequest EXCEPT !.call = call, !.phase = "handling", !.cutoff = now - Lookback,
                               !.before = IF ReadsGraph(call) THEN Committed(now - Lookback)
                                          ELSE {}]]
    BY DEF Receive
  <1> PICK q, cutoff : q = requests'[r] /\ cutoff = now - Lookback
    OBVIOUS
  <1>2. /\ q.call = call /\ q.phase = "handling" /\ q.cutoff = cutoff /\ q.reads = 0
        /\ q.status = 0 /\ q.graph = {}
        /\ ReadsGraph(call) => q.before = Committed(cutoff)
        /\ \A s \in Requests \ {r} : requests'[s] = requests[s]
    BY <1>1 DEF NInv, IInv, NoRequest
  <1>3. Ahead(0, cutoff) = Committed(cutoff)
    <2>1. 0 + 1..4 = 1..4
      OBVIOUS
    <2> QED BY <2>1 DEF Ahead, Committed
  <1>4. Reading(q)
    <2>1. ReadsGraph(q.call) => /\ q.before \subseteq q.graph \cup Ahead(q.reads, q.cutoff)
                               /\ q.graph \subseteq Committed(q.cutoff)
      BY <1>2, <1>3
    <2>2. q.status = 0 /\ q.reads \in 0..4 /\ q.reads # 4 /\ q.phase # "analysed"
      BY <1>2
    <2> QED BY <1>2, <2>1, <2>2, Zenon DEF Reading
  <1>5. rows' = rows
    BY DEF Receive
  <1>6. Reading(q)'
    BY <1>4, <1>5, ReadingStays
  <1>7. Bracketed(requests[r])'
    BY <1>2, <1>6 DEF Bracketed, Reading
  <1> QED BY <1>2, <1>7, Others

LEMMA ReadBrackets ==
    ASSUME NInv, RowsKept, NEW r \in Requests, Read(r)
    PROVE  \A s \in Requests : Bracketed(requests[s])'
  <1> PICK old, q, n, c :
        old = requests[r] /\ q = requests'[r] /\ n = requests[r].reads /\ c = requests[r].cutoff
    OBVIOUS
  <1>1. /\ q.call = old.call /\ q.phase = "handling" /\ q.cutoff = c /\ q.reads = n + 1
        /\ q.status = old.status /\ q.graph = old.graph \cup Selected(n + 1, c)
        /\ q.after = (IF n = 3 THEN Committed(c) ELSE {}) /\ q.before = old.before
        /\ \A s \in Requests \ {r} : requests'[s] = requests[s]
        /\ rows' = rows /\ old.phase = "handling" /\ ReadsGraph(old.call) /\ n < 4
    BY DEF Read, NInv, IInv, Fields, NoRequest
  <1>2. /\ old.status = 0 /\ n \in 0..3
        /\ old.before \subseteq old.graph \cup Ahead(n, c) /\ old.graph \subseteq Committed(c)
    BY <1>1 DEF NInv, Bracketed, Reading
  <1>3. Ahead(n, c) \subseteq Selected(n + 1, c) \cup Ahead(n + 1, c)
    <2>1. \A i \in n + 1..4 : i = n + 1 \/ i \in n + 1 + 1..4
      BY <1>2
    <2> QED BY <2>1 DEF Ahead
  <1>4. q.graph \subseteq Committed(c)
    <2>1. n + 1 \in 1..4
      BY <1>2
    <2> QED BY <1>1, <1>2, <2>1 DEF Committed
  <1>5. q.reads \in 0..4 /\ (q.reads = 4 => n = 3)
    BY <1>1, <1>2
  <1>6. Reading(q)
    <2>1. q.before \subseteq q.graph \cup Ahead(q.reads, c)
      BY <1>1, <1>2, <1>3
    <2>2. q.reads = 4 => q.graph \subseteq q.after
      BY <1>1, <1>4, <1>5
    <2>3. q.status = 0 /\ ReadsGraph(q.call) /\ q.cutoff = c /\ q.phase # "analysed"
      BY <1>1, <1>2
    <2>4. /\ q.before \subseteq q.graph \cup Ahead(q.reads, q.cutoff)
          /\ q.graph \subseteq Committed(q.cutoff)
      BY <1>4, <2>1, <2>3, Zenon
    <2> QED BY <1>5, <2>2, <2>3, <2>4, Zenon DEF Reading
  <1>7. Reading(q)'
    BY <1>1, <1>6, ReadingStays
  <1>8. Bracketed(requests[r])'
    BY <1>1, <1>7 DEF Bracketed, Reading
  <1> QED BY <1>1, <1>8, Others

LEMMA ToThreadBrackets ==
    ASSUME NInv, RowsKept, NEW r \in Requests, ToThread(r)
    PROVE  \A s \in Requests : Bracketed(requests[s])'
  <1> PICK old, q : old = requests[r] /\ q = requests'[r]
    OBVIOUS
  <1>1. /\ q = [old EXCEPT !.phase = "analysed"] /\ DOMAIN old = Fields
        /\ \A s \in Requests \ {r} : requests'[s] = requests[s]
        /\ old.phase = "handling" /\ old.reads = 4 /\ ~Missing(old)
    BY DEF ToThread, NInv, IInv
  <1>2. /\ q.call = old.call /\ q.phase = "analysed" /\ q.cutoff = old.cutoff
        /\ q.reads = old.reads /\ q.status = old.status /\ q.graph = old.graph
        /\ q.after = old.after /\ q.before = old.before
    BY <1>1 DEF Fields, NoRequest
  <1>3. Reading(old)'
    <2>1. Bracketed(old)'
      BY StillBracketed DEF NInv
    <2> QED BY <1>1, <2>1 DEF Bracketed
  <1>4. Reading(q)'
    <2>1. ~Missing(q)
      BY <1>1, <1>2 DEF Missing
    <2>2. ~ReadsGraph(q.call) => FALSE
      BY <1>1, <1>2, <1>3 DEF Reading
    <2>3. /\ ReadsGraph(old.call)
          /\ old.status = 0 /\ old.before \subseteq old.graph \cup Ahead(old.reads, old.cutoff)'
          /\ old.graph \subseteq Committed(old.cutoff)' /\ old.graph \subseteq old.after
      BY <1>1, <1>2, <1>3, <2>2 DEF Reading
    <2>4. /\ q.before \subseteq q.graph \cup Ahead(q.reads, q.cutoff)'
          /\ q.graph \subseteq Committed(q.cutoff)' /\ q.graph \subseteq q.after
      BY <1>2, <2>3, Zenon
    <2>5. q.reads = 4 /\ q.status = 0 /\ ReadsGraph(q.call) /\ 4 \in 0..4
      BY <1>1, <1>2, <2>3
    <2> QED BY <2>1, <2>4, <2>5, Zenon DEF Reading
  <1>5. Bracketed(requests[r])'
    BY <1>2, <1>4 DEF Bracketed, Reading
  <1> QED BY <1>1, <1>5, Others

(* A request that wrote, or raised, or asked for what is not there.        *)
LEMMA OtherReplies ==
    ASSUME NInv, RowsKept, NEW r \in Requests, Transfer(r) \/ Login(r) \/ Fail(r) \/ NotFound(r)
    PROVE  \A s \in Requests : Bracketed(requests[s])'
  <1> PICK old, q : old = requests[r] /\ q = requests'[r]
    OBVIOUS
  <1>1. PICK status, answer : Respond(r, status, answer) /\ old.phase = "handling"
          /\ \/ ~ReadsGraph(old.call)
             \/ status = 500
             \/ status = 404 /\ old.reads = 4 /\ Missing(old)
    BY DEF Transfer, Login, Fail, NotFound, ReadsGraph
  <1>2. /\ \A s \in Requests \ {r} : requests'[s] = requests[s]
        /\ q.call = old.call /\ q.phase = "answered" /\ q.status = status /\ q.before = old.before
    BY <1>1, Replies DEF NInv
  <1>3. Reading(old)
    BY <1>1 DEF NInv, Bracketed
  <1>4. Replied(q)
    <2>1. CASE status = 404 /\ old.reads = 4 /\ Missing(old)
      <3>1. Ahead(4, old.cutoff) = {}
        <4>1. 4 + 1..4 = {}
          OBVIOUS
        <4> QED BY <4>1 DEF Ahead
      <3>2. ReadsGraph(old.call) => old.before \subseteq old.graph
        BY <1>3, <2>1, <3>1 DEF Reading
      <3>3. ReadsGraph(old.call) => old.call.center \notin Nodes(old.before)
        BY <2>1, <3>2 DEF Missing, Nodes
      <3> QED BY <1>2, <2>1, <3>3 DEF Replied, Missing
    <2> QED BY <1>1, <1>2, <2>1 DEF Replied
  <1>5. Bracketed(requests[r])'
    BY <1>2, <1>4 DEF Bracketed, Replied, AnalysisOf
  <1> QED BY <1>2, <1>5, Others

LEMMA AnalyseBrackets ==
    ASSUME NInv, RowsKept, NEW r \in Requests, Analyse(r)
    PROVE  \A s \in Requests : Bracketed(requests[s])'
  <1> PICK old, q, G : old = requests[r] /\ q = requests'[r] /\ G = requests[r].graph
    OBVIOUS
  <1>1. Respond(r, 200, Result(old.call, G)) /\ old.phase = "analysed"
    BY DEF Analyse, NInv, IInv, Accounted, Analysing
  <1>2. /\ \A s \in Requests \ {r} : requests'[s] = requests[s]
        /\ q.call = old.call /\ q.phase = "answered" /\ q.status = 200
        /\ q.answer = Result(old.call, G) /\ q.before = old.before /\ q.after = old.after
    BY <1>1, Replies DEF NInv
  <1>3. Reading(old) /\ old.reads = 4 /\ ~Missing(old)
    BY <1>1 DEF NInv, Bracketed, Reading
  <1>4. ReadsGraph(old.call) => old.before \subseteq G /\ G \subseteq old.after
    <2>1. Ahead(4, old.cutoff) = {}
      <3>1. 4 + 1..4 = {}
        OBVIOUS
      <3> QED BY <3>1 DEF Ahead
    <2> QED BY <1>3, <2>1 DEF Reading
  <1>5. ReadsGraph(old.call) => AnalysisOf(q, G)
    BY <1>2, <1>3, <1>4 DEF AnalysisOf, Missing
  <1>6. Replied(q)
    BY <1>2, <1>5 DEF Replied
  <1>7. Bracketed(requests[r])'
    BY <1>2, <1>6 DEF Bracketed, Replied, AnalysisOf
  <1> QED BY <1>2, <1>7, Others

LEMMA RestartBrackets ==
    ASSUME NInv, RowsKept, Restart
    PROVE  \A s \in Requests : Bracketed(requests[s])'
  <1>1. ASSUME NEW s \in Requests PROVE Bracketed(requests[s])'
    <2> PICK old, q : old = requests[s] /\ q = requests'[s]
      OBVIOUS
    <2>1. CASE old.phase \in {"handling", "analysed"}
      <3>1. q.phase = "failed" /\ q.status = old.status /\ old.status = 0
        BY <2>1 DEF Restart, NInv, IInv, Fields, NoRequest, Bracketed, Reading
      <3> QED BY <3>1 DEF Bracketed, Replied
    <2>2. CASE old.phase \notin {"handling", "analysed"}
      <3>1. q = old
        BY <2>2 DEF Restart
      <3>2. Bracketed(old)'
        BY StillBracketed DEF NInv
      <3> QED BY <3>1, <3>2 DEF Bracketed
    <2> QED BY <2>1, <2>2
  <1> QED BY <1>1

LEMMA StepBrackets == NInv /\ [Next]_vars => NInv'
  <1> SUFFICES ASSUME NInv, [Next]_vars
               PROVE  \A s \in Requests : Bracketed(requests[s])'
    BY StepOK DEF NInv
  <1>0. RowsKept
    BY RowsGrow
  <1>1. ASSUME NEW r \in Requests, Receive(r) PROVE \A s \in Requests : Bracketed(requests[s])'
    BY <1>0, <1>1, ReceiveBrackets
  <1>2. ASSUME NEW r \in Requests, Transfer(r) \/ Login(r) \/ Fail(r) \/ NotFound(r)
        PROVE  \A s \in Requests : Bracketed(requests[s])'
    BY <1>0, <1>2, OtherReplies
  <1>3. ASSUME NEW r \in Requests, Read(r) PROVE \A s \in Requests : Bracketed(requests[s])'
    BY <1>0, <1>3, ReadBrackets
  <1>4. ASSUME NEW r \in Requests, ToThread(r) PROVE \A s \in Requests : Bracketed(requests[s])'
    BY <1>0, <1>4, ToThreadBrackets
  <1>5. ASSUME NEW r \in Requests, Analyse(r) PROVE \A s \in Requests : Bracketed(requests[s])'
    BY <1>0, <1>5, AnalyseBrackets
  <1>6. CASE Restart
    BY <1>0, <1>6, RestartBrackets
  <1>7. ASSUME requests' = requests PROVE \A s \in Requests : Bracketed(requests[s])'
    <2>1. ASSUME NEW s \in Requests PROVE Bracketed(requests[s])'
      <3> PICK q : q = requests[s]
        OBVIOUS
      <3>1. Bracketed(q)'
        BY <1>0, StillBracketed DEF NInv
      <3> QED BY <1>7, <3>1 DEF Bracketed
    <2> QED BY <2>1
  <1>8. ASSUME NEW r \in Requests, Send(r) \/ Flushed(r) PROVE requests' = requests
    BY <1>8 DEF Send, Flushed
  <1>9. ASSUME NEW r \in Requests, NEW t \in Topics, Deliver(r, t) \/ Expire(r, t)
        PROVE  requests' = requests
    BY <1>9 DEF Deliver, Expire
  <1>10. ASSUME Start \/ Tick \/ UNCHANGED vars PROVE requests' = requests
    BY <1>10 DEF Start, Tick, vars
  <1> QED BY <1>1, <1>2, <1>3, <1>4, <1>5, <1>6, <1>7, <1>8, <1>9, <1>10 DEF Next

LEMMA InitBrackets == Init => NInv
  <1> SUFFICES ASSUME Init PROVE NInv
    OBVIOUS
  <1>1. ASSUME NEW r \in Requests PROVE Bracketed(requests[r])
    <2>1. requests[r].phase = "free" /\ requests[r].status = 0
      BY DEF Init, NoRequest
    <2> QED BY <2>1 DEF Bracketed, Replied
  <1> QED BY <1>1, InitOK DEF NInv

LEMMA AlwaysBracketed == Spec => []NInv
  BY InitBrackets, StepBrackets, PTL DEF Spec

(* NeighbourhoodBetween: for any graph, any depth and any requests that    *)
(* commit between the four reads, an entity's neighbourhood is what walks  *)
(* reach in a graph that has every row committed before the request and    *)
(* none that was not committed when it had read.                           *)
THEOREM NeighbourhoodsBetween == Spec => []NeighbourhoodBetween
  <1>1. NInv => NeighbourhoodBetween
    <2> SUFFICES ASSUME NInv, NEW r \in Requests, requests[r].call.op = "entity"
                 PROVE  LET q == requests[r] IN
          /\ q.status = 404 => q.call.center \notin Nodes(q.before)
          /\ q.status = 200 =>
               /\ \A n \in Nodes(q.before) : Near(q.before, q.call.center, n) => n \in q.answer.nodes
               /\ \A n \in q.answer.nodes : Near(q.after, q.call.center, n)
               /\ q.answer.edges \subseteq q.after
               /\ {e \in q.before : {e.from, e.to} \subseteq q.answer.nodes} \subseteq q.answer.edges
      BY DEF NeighbourhoodBetween
    <2> PICK q, c : q = requests[r] /\ c = requests[r].call.center
      OBVIOUS
    <2>1. Depth \in Nat /\ ReadsGraph(q.call)
      BY QueryAssumption DEF ReadsGraph
    <2>2. q.status \in {200, 404} => Replied(q)
      BY DEF NInv, Bracketed, Reading
    <2>3. q.status = 404 => c \notin Nodes(q.before)
      BY <2>1, <2>2 DEF Replied
    <2>4. ASSUME q.status = 200
          PROVE  /\ \A n \in Nodes(q.before) : Near(q.before, c, n) => n \in q.answer.nodes
                 /\ \A n \in q.answer.nodes : Near(q.after, c, n)
                 /\ q.answer.edges \subseteq q.after
                 /\ {e \in q.before : {e.from, e.to} \subseteq q.answer.nodes}
                      \subseteq q.answer.edges
      <3>1. PICK G : AnalysisOf(q, G)
        BY <2>1, <2>2, <2>4 DEF Replied
      <3>2. /\ q.before \subseteq G /\ G \subseteq q.after /\ c \in Nodes(G)
            /\ q.answer = Subgraph(G, c, Depth)
        BY <3>1 DEF AnalysisOf, Result
      <3>3. /\ q.answer.nodes = Within(G, c, Depth)
            /\ q.answer.edges = {e \in G : {e.from, e.to} \subseteq q.answer.nodes}
        BY <3>2 DEF Subgraph
      <3>4. \A n : Near(q.before, c, n) => n \in q.answer.nodes
        BY <2>1, <3>2, <3>3, ReachedWithin, NearReached
      <3>5. \A n \in q.answer.nodes : Near(q.after, c, n)
        BY <2>1, <3>2, <3>3, WithinReached, NearReached
      <3> QED BY <3>2, <3>3, <3>4, <3>5
    <2> QED BY <2>3, <2>4
  <1> QED BY <1>1, AlwaysBracketed, PTL
-----------------------------------------------------------------------------
(* In finite subsets of a set, a smallest one.                             *)
LEMMA SmallestSubset ==
    ASSUME NEW S, IsFiniteSet(S), NEW F \in SUBSET SUBSET S, F # {}
    PROVE  \E T \in F : \A x \in T : T \ {x} \notin F
  <1> PICK N : N = {Cardinality(T) : T \in F}
    OBVIOUS
  <1>1. \A T \in F : IsFiniteSet(T) /\ Cardinality(T) \in Nat
    BY FS_Subset, FS_CardinalityType
  <1>2. N \in SUBSET Nat /\ N # {}
    BY <1>1
  <1>3. PICK n \in N : \A m \in N : n <= m
    BY <1>2, LeastNatural
  <1>4. PICK T \in F : n = Cardinality(T)
    BY <1>3
  <1>5. ASSUME NEW x \in T, T \ {x} \in F PROVE FALSE
    <2>1. Cardinality(T \ {x}) = n - 1 /\ Cardinality(T \ {x}) \in N
      BY <1>1, <1>4, <1>5, FS_RemoveElement
    <2> QED BY <1>1, <1>3, <1>4, <2>1
  <1> QED BY <1>5

(* Sums over finite sets, in whatever order they are taken. *)

(* The recursion of MapThenSumSet, and what follows from it.               *)
Adds(f, v, S) ==
    f = [T \in SUBSET S |-> IF T = {} THEN 0
                            ELSE LET x == CHOOSE x \in T : TRUE IN v[x] + f[T \ {x}]]

Summing(f, v, S) ==
    /\ f \in [SUBSET S -> Int] /\ f[{}] = 0
    /\ \A T \in SUBSET S : \A x \in T : f[T] = v[x] + f[T \ {x}]

LEMMA AmountsAdd ==
    ASSUME NEW S, NEW v, v = [x \in S |-> x.row.amount]
    PROVE  MapThenSumSet(LAMBDA x : x.row.amount, S) = (CHOOSE f : Adds(f, v, S))[S]
  <1>1. \A f : f = [T \in SUBSET S |-> IF T = {} THEN 0
                                       ELSE LET x == CHOOSE x \in T : TRUE
                                            IN  x.row.amount + f[T \ {x}]]
               <=> Adds(f, v, S)
    BY DEF Adds
  <1> QED BY <1>1 DEF MapThenSumSet, MapThenFoldSet

Upto(S, n) == {T \in SUBSET S : Cardinality(T) <= n}
Chosen(T)  == CHOOSE x \in T : TRUE

AddsUpto(f, v, S, n) ==
    /\ f \in [Upto(S, n) -> Int]
    /\ \A T \in Upto(S, n) : f[T] = IF T = {} THEN 0 ELSE v[Chosen(T)] + f[T \ {Chosen(T)}]

LEMMA AddsNext ==
    ASSUME NEW S, IsFiniteSet(S), NEW v \in [S -> Int], NEW p \in Nat, NEW g, AddsUpto(g, v, S, p)
    PROVE  \E f : AddsUpto(f, v, S, p + 1)
  <1> PICK n : n = p + 1
    OBVIOUS
  <1> PICK f : f = [T \in Upto(S, n) |-> IF T \in Upto(S, p) THEN g[T]
                                       ELSE v[Chosen(T)] + g[T \ {Chosen(T)}]]
    OBVIOUS
  <1>1. \A T \in SUBSET S : IsFiniteSet(T) /\ Cardinality(T) \in Nat
    BY FS_Subset, FS_CardinalityType
  <1>2. Upto(S, p) \subseteq Upto(S, n)
    BY <1>1 DEF Upto
  <1>3. ASSUME NEW T \in Upto(S, n), T # {}
        PROVE  Chosen(T) \in S /\ T \ {Chosen(T)} \in Upto(S, p)
    <2>1. Chosen(T) \in T /\ T \in SUBSET S
      BY <1>3 DEF Chosen, Upto
    <2>2. Cardinality(T \ {Chosen(T)}) = Cardinality(T) - 1 /\ Cardinality(T) <= n
      BY <1>1, <2>1, FS_RemoveElement DEF Upto
    <2> QED BY <1>1, <2>1, <2>2 DEF Upto
  <1>4. {} \in Upto(S, p)
    BY FS_EmptySet DEF Upto
  <1>5. ASSUME NEW T \in Upto(S, n)
        PROVE  f[T] = (IF T = {} THEN 0 ELSE v[Chosen(T)] + f[T \ {Chosen(T)}]) /\ f[T] \in Int
    <2>1. CASE T = {}
      <3>1. T \in Upto(S, p) /\ f[T] = g[T]
        BY <1>2, <1>4, <2>1
      <3>2. g[T] = 0
        BY <2>1, <3>1 DEF AddsUpto
      <3> QED BY <2>1, <3>1, <3>2
    <2>2. CASE T # {}
      <3> PICK x, U : x = Chosen(T) /\ U = T \ {Chosen(T)}
        OBVIOUS
      <3>1. x \in S /\ U \in Upto(S, p) /\ f[U] = g[U] /\ g[U] \in Int
        BY <1>2, <1>3, <2>2 DEF AddsUpto
      <3>2. CASE T \in Upto(S, p)
        <4>1. f[T] = g[T] /\ g[T] = v[x] + g[U]
          BY <2>2, <3>2 DEF AddsUpto
        <4> QED BY <2>2, <3>1, <4>1
      <3>3. CASE T \notin Upto(S, p)
        <4>1. f[T] = v[x] + g[U]
          BY <3>3
        <4> QED BY <2>2, <3>1, <4>1
      <3> QED BY <3>2, <3>3
    <2> QED BY <2>1, <2>2
  <1>6. f \in [Upto(S, n) -> Int]
    BY <1>5
  <1>7. AddsUpto(f, v, S, n)
    BY <1>5, <1>6 DEF AddsUpto
  <1> QED BY <1>7

LEMMA AddsExists ==
    ASSUME NEW S, IsFiniteSet(S), NEW v \in [S -> Int]
    PROVE  \E f \in [SUBSET S -> Int] : Adds(f, v, S)
  <1> DEFINE Solved(n) == \E f : AddsUpto(f, v, S, n)
  <1> PICK N : N = {n \in Nat : ~Solved(n)}
    OBVIOUS
  <1>1. Solved(0)
    <2>1. \A T \in SUBSET S : IsFiniteSet(T) /\ Cardinality(T) \in Nat
      BY FS_Subset, FS_CardinalityType
    <2>2. Upto(S, 0) = {{}}
      <3>1. \A T \in SUBSET S : Cardinality(T) <= 0 <=> T = {}
        BY <2>1, FS_EmptySet
      <3> QED BY <3>1 DEF Upto
    <2> PICK f : f = [T \in {{}} |-> 0]
      OBVIOUS
    <2>3. f \in [Upto(S, 0) -> Int] /\ f[{}] = 0
      BY <2>2
    <2>4. AddsUpto(f, v, S, 0)
      BY <2>2, <2>3 DEF AddsUpto
    <2> QED BY <2>4
  <1>2. ASSUME NEW p \in Nat, Solved(p) PROVE Solved(p + 1)
    BY <1>2, AddsNext
  <1> HIDE DEF Solved
  <1>3. ASSUME N # {} PROVE FALSE
    <2>1. N \in SUBSET Nat
      OBVIOUS
    <2>2. PICK k \in N : \A y \in N : k <= y
      BY <1>3, <2>1, LeastNatural
    <2>3. k # 0
      BY <1>1, <2>2
    <2>4. k - 1 \in Nat /\ ~(k <= k - 1) /\ k - 1 + 1 = k
      BY <2>2, <2>3
    <2>5. Solved(k - 1)
      BY <2>2, <2>4
    <2>6. Solved(k)
      BY <1>2, <2>4, <2>5
    <2> QED BY <2>2, <2>6
  <1>4. Cardinality(S) \in Nat
    BY FS_CardinalityType
  <1>5. PICK f : AddsUpto(f, v, S, Cardinality(S))
    BY <1>3, <1>4 DEF Solved
  <1>6. Upto(S, Cardinality(S)) = SUBSET S
    BY FS_Subset DEF Upto
  <1>7. f \in [SUBSET S -> Int]
        /\ \A T \in SUBSET S : f[T] = IF T = {} THEN 0 ELSE v[Chosen(T)] + f[T \ {Chosen(T)}]
    BY <1>5, <1>6 DEF AddsUpto
  <1>8. Adds(f, v, S)
    BY <1>7 DEF Adds, Chosen
  <1> QED BY <1>7, <1>8

(* It is the sum in any order.                                             *)
LEMMA AddsAnyOrder ==
    ASSUME NEW S, IsFiniteSet(S), NEW v \in [S -> Int], NEW f \in [SUBSET S -> Int], Adds(f, v, S)
    PROVE  Summing(f, v, S)
  <1>1. /\ f[{}] = 0
        /\ \A T \in SUBSET S : T # {} => f[T] = v[Chosen(T)] + f[T \ {Chosen(T)}]
    <2>1. \A T \in SUBSET S : f[T] = IF T = {} THEN 0 ELSE v[Chosen(T)] + f[T \ {Chosen(T)}]
      BY DEF Adds, Chosen
    <2> QED BY <2>1
  <1> PICK F : F = {T \in SUBSET S : \E x \in T : f[T] # v[x] + f[T \ {x}]}
    OBVIOUS
  <1>2. ASSUME F # {} PROVE FALSE
    <2>1. PICK T \in F : \A x \in T : T \ {x} \notin F
      BY <1>2, SmallestSubset
    <2>2. PICK x \in T : f[T] # v[x] + f[T \ {x}]
      BY <2>1
    <2> PICK c, U : c = Chosen(T) /\ U = T \ {c, x}
      OBVIOUS
    <2>3. T \in SUBSET S /\ T # {} /\ c \in T
      BY <2>1, <2>2 DEF Chosen
    <2>4. f[T] = v[c] + f[T \ {c}] /\ x # c
      BY <1>1, <2>2, <2>3
    <2>5. (T \ {c}) \ {x} = U /\ (T \ {x}) \ {c} = U /\ T \ {c} \in SUBSET S /\ T \ {x} \in SUBSET S
      BY <2>3
    <2>6. f[T \ {c}] = v[x] + f[U]
      BY ZenonT(60), <2>1, <2>2, <2>3, <2>4, <2>5
    <2>7. f[T \ {x}] = v[c] + f[U]
      BY <2>1, <2>2, <2>3, <2>4, <2>5
    <2>8. v[c] \in Int /\ v[x] \in Int /\ f[U] \in Int
      BY <2>2, <2>3, <2>5
    <2> QED BY <2>2, <2>4, <2>6, <2>7, <2>8
  <1> QED BY <1>1, <1>2 DEF Summing

LEMMA AddsUnique ==
    ASSUME NEW S, IsFiniteSet(S), NEW v, NEW f, Adds(f, v, S), NEW g, Adds(g, v, S)
    PROVE  f = g
  <1>1. /\ \A T \in SUBSET S : T # {} => f[T] = v[Chosen(T)] + f[T \ {Chosen(T)}]
        /\ \A T \in SUBSET S : T # {} => g[T] = v[Chosen(T)] + g[T \ {Chosen(T)}]
        /\ f[{}] = g[{}] /\ f = [T \in SUBSET S |-> f[T]] /\ g = [T \in SUBSET S |-> g[T]]
    <2>1. /\ \A T \in SUBSET S : f[T] = IF T = {} THEN 0 ELSE v[Chosen(T)] + f[T \ {Chosen(T)}]
          /\ f = [T \in SUBSET S |-> f[T]]
      BY DEF Adds, Chosen
    <2>2. /\ \A T \in SUBSET S : g[T] = IF T = {} THEN 0 ELSE v[Chosen(T)] + g[T \ {Chosen(T)}]
          /\ g = [T \in SUBSET S |-> g[T]]
      BY DEF Adds, Chosen
    <2> QED BY <2>1, <2>2
  <1> PICK F : F = {T \in SUBSET S : f[T] # g[T]}
    OBVIOUS
  <1>2. ASSUME F # {} PROVE FALSE
    <2>1. PICK T \in F : \A x \in T : T \ {x} \notin F
      BY <1>2, SmallestSubset
    <2>2. T # {} /\ T \in SUBSET S
      BY <1>1, <2>1
    <2> PICK c : c = Chosen(T)
      OBVIOUS
    <2>3. c \in T /\ T \ {c} \in SUBSET S
      BY <2>2 DEF Chosen
    <2>4. f[T \ {c}] = g[T \ {c}]
      BY <2>1, <2>3
    <2>5. f[T] = g[T]
      BY <1>1, <2>2, <2>4
    <2> QED BY <2>1, <2>5
  <1>3. \A T \in SUBSET S : f[T] = g[T]
    BY <1>2
  <1> QED BY <1>1, <1>3

LEMMA ChosenAdds ==
    ASSUME NEW S, IsFiniteSet(S), NEW v \in [S -> Int]
    PROVE  \E f : Summing(f, v, S) /\ (CHOOSE g : Adds(g, v, S)) = f
  <1>1. PICK f \in [SUBSET S -> Int] : Adds(f, v, S)
    BY AddsExists
  <1> PICK h : h = CHOOSE g : Adds(g, v, S)
    OBVIOUS
  <1>2. Adds(h, v, S)
    BY <1>1
  <1>3. h = f
    BY <1>1, <1>2, AddsUnique
  <1> QED BY <1>1, <1>3, AddsAnyOrder

(* The amounts of a set of edges, summed.                                  *)
LEMMA AmountsSum ==
    ASSUME NEW S, IsFiniteSet(S), NEW v \in [S -> Int], v = [x \in S |-> x.row.amount]
    PROVE  \E f : Summing(f, v, S) /\ MapThenSumSet(LAMBDA x : x.row.amount, S) = f[S]
  BY ChosenAdds, AmountsAdd

(* A sum depends on the terms it adds only. *)
LEMMA SumsAgree ==
    ASSUME NEW S, NEW v \in [S -> Int], NEW f, Summing(f, v, S),
           NEW R, NEW u \in [R -> Int], NEW g, Summing(g, u, R),
           NEW T, IsFiniteSet(T), T \subseteq S, T \subseteq R, \A x \in T : v[x] = u[x]
    PROVE  f[T] = g[T]
  <1> PICK F : F = {U \in SUBSET T : f[U] # g[U]}
    OBVIOUS
  <1>1. ASSUME F # {} PROVE FALSE
    <2>1. PICK U \in F : \A x \in U : U \ {x} \notin F
      BY <1>1, SmallestSubset
    <2>2. PICK x : x \in U
      BY <2>1 DEF Summing
    <2>3. f[U \ {x}] = g[U \ {x}] /\ U \in SUBSET T
      BY <2>1, <2>2
    <2>4. f[U] = v[x] + f[U \ {x}] /\ g[U] = u[x] + g[U \ {x}]
      BY <2>2, <2>3 DEF Summing
    <2> QED BY <2>1, <2>2, <2>3, <2>4
  <1> QED BY <1>1

PartsAdd(f, S) == \A T, U \in SUBSET S : T \cap U = {} => f[T \cup U] = f[T] + f[U]

LEMMA SumsOfParts ==
    ASSUME NEW S, IsFiniteSet(S), NEW v \in [S -> Int], NEW f, Summing(f, v, S)
    PROVE  PartsAdd(f, S)
  <1> SUFFICES ASSUME NEW T \in SUBSET S, NEW U \in SUBSET S, T \cap U = {}
               PROVE  f[T \cup U] = f[T] + f[U]
    BY DEF PartsAdd
  <1> PICK F : F = {W \in SUBSET U : f[T \cup W] # f[T] + f[W]}
    OBVIOUS
  <1>1. f \in [SUBSET S -> Int] /\ f[{}] = 0
    BY DEF Summing
  <1>2. ASSUME F # {} PROVE FALSE
    <2>1. IsFiniteSet(U)
      BY FS_Subset
    <2>a. F \in SUBSET SUBSET U
      OBVIOUS
    <2>2. PICK W \in F : \A x \in W : W \ {x} \notin F
      <3>1. \A X : X \in SUBSET SUBSET U /\ X # {} => \E W \in X : \A x \in W : W \ {x} \notin X
        BY <2>1, SmallestSubset
      <3> QED BY <1>2, <2>a, <3>1
    <2>3. PICK x : x \in W
      <3>1. ASSUME W = {} PROVE FALSE
        <4>1. T \cup W = T
          BY <3>1
        <4>2. f[T] \in Int
          BY <1>1
        <4> QED BY <1>1, <2>2, <3>1, <4>1, <4>2
      <3> QED BY <3>1
    <2> PICK V : V = W \ {x}
      OBVIOUS
    <2>4. f[T \cup V] = f[T] + f[V] /\ W \in SUBSET U
      BY <2>2, <2>3
    <2>5. (T \cup W) \ {x} = T \cup V /\ T \cup W \in SUBSET S /\ x \in T \cup W
          /\ W \in SUBSET S /\ V \in SUBSET S /\ x \in S
      BY <2>3, <2>4
    <2>6. f[T \cup W] = v[x] + f[T \cup V]
      <3>1. \A A \in SUBSET S : x \in A => f[A] = v[x] + f[A \ {x}]
        BY DEF Summing
      <3> QED BY <2>5, <3>1
    <2>7. f[W] = v[x] + f[V]
      BY <2>3, <2>5 DEF Summing
    <2>8. f[T] \in Int /\ f[V] \in Int /\ v[x] \in Int
      BY <1>1, <2>5
    <2> QED BY <2>2, <2>4, <2>6, <2>7, <2>8
  <1> QED BY <1>2

(* The sum of the sums of disjoint groups.                                 *)
Groups(E, w, P, f, S) ==
    /\ E \in [P -> SUBSET S] /\ \A p, q \in P : p # q => E[p] \cap E[q] = {}
    /\ w \in [P -> Int] /\ \A p \in P : w[p] = f[E[p]]

Gathered(E, P) == UNION {E[p] : p \in P}

LEMMA SumsRegroup ==
    ASSUME NEW S, IsFiniteSet(S), NEW v \in [S -> Int], NEW f, Summing(f, v, S),
           NEW P, IsFiniteSet(P), NEW E, NEW w, Groups(E, w, P, f, S), NEW g, Summing(g, w, P)
    PROVE  g[P] = f[Gathered(E, P)]
  <1>0. /\ E \in [P -> SUBSET S] /\ \A p, q \in P : p # q => E[p] \cap E[q] = {}
        /\ w \in [P -> Int] /\ \A p \in P : w[p] = f[E[p]]
    BY DEF Groups
  <1> PICK All : All = [Q \in SUBSET P |-> UNION {E[p] : p \in Q}]
    OBVIOUS
  <1> PICK F : F = {Q \in SUBSET P : g[Q] # f[All[Q]]}
    OBVIOUS
  <1>1. ASSUME F # {} PROVE FALSE
    <2>1. PICK Q \in F : \A p \in Q : Q \ {p} \notin F
      BY <1>1, SmallestSubset
    <2>2. PICK p : p \in Q
      <3>1. All[{}] = {}
        OBVIOUS
      <3> QED BY <2>1, <3>1 DEF Summing
    <2> PICK O : O = Q \ {p}
      OBVIOUS
    <2>3. Q \in SUBSET P /\ O \in SUBSET P /\ g[O] = f[All[O]]
      BY <2>1, <2>2
    <2>4. All[Q] = E[p] \cup All[O] /\ E[p] \in SUBSET S /\ All[O] \in SUBSET S
      BY <1>0, <2>2, <2>3
    <2>5. E[p] \cap All[O] = {}
      BY <1>0, <2>2, <2>3
    <2>6. f[All[Q]] = f[E[p]] + f[All[O]]
      <3>1. PartsAdd(f, S)
        BY SumsOfParts
      <3> PICK A, B : A = E[p] /\ B = All[O]
        OBVIOUS
      <3>2. f[A \cup B] = f[A] + f[B]
        BY <2>4, <2>5, <3>1 DEF PartsAdd
      <3> QED BY <2>4, <3>2
    <2>7. g[Q] = w[p] + g[O]
      BY <2>2, <2>3 DEF Summing
    <2>8. w[p] = f[E[p]]
      BY <1>0, <2>2, <2>3
    <2> QED BY <2>1, <2>3, <2>6, <2>7, <2>8
  <1> QED BY <1>1 DEF Gathered

-----------------------------------------------------------------------------
(* The volume of a ring is what the transfers that were read have moved    *)
(* along it.                                                               *)

AddsAmounts(f, S) ==
    \A T \in SUBSET S : MapThenSumSet(LAMBDA x : x.row.amount, T) = f[T]

LEMMA AmountsOfPart ==
    ASSUME NEW S, IsFiniteSet(S), NEW v \in [S -> Int], v = [x \in S |-> x.row.amount],
           NEW f, Summing(f, v, S)
    PROVE  AddsAmounts(f, S)
  <1> SUFFICES ASSUME NEW T \in SUBSET S
               PROVE  MapThenSumSet(LAMBDA x : x.row.amount, T) = f[T]
    BY DEF AddsAmounts
  <1> PICK u : u = [x \in T |-> x.row.amount]
    OBVIOUS
  <1>1. IsFiniteSet(T)
    BY FS_Subset
  <1>2. u \in [T -> Int] /\ \A x \in T : v[x] = u[x]
    <2>1. \A x \in T : v[x] = x.row.amount /\ v[x] \in Int
      OBVIOUS
    <2> QED BY <2>1
  <1>3. PICK g : Summing(g, u, T) /\ MapThenSumSet(LAMBDA x : x.row.amount, T) = g[T]
    BY <1>1, <1>2, AmountsSum
  <1>4. f[T] = g[T]
    BY <1>1, <1>2, <1>3, SumsAgree
  <1> QED BY <1>3, <1>4

LEMMA MovedAdds ==
    ASSUME NEW G, NEW P, NEW w, w = [p \in P |-> Sent(G, p)]
    PROVE  Moved(G, P) = (CHOOSE g : Adds(g, w, P))[P]
  <1>1. \A g : g = [T \in SUBSET P |-> IF T = {} THEN 0
                                       ELSE LET x == CHOOSE x \in T : TRUE
                                            IN  Sent(G, x) + g[T \ {x}]]
               <=> Adds(g, w, P)
    BY DEF Adds
  <1> QED BY <1>1 DEF Moved, MapThenSumSet, MapThenFoldSet

Along(G, P) == {e \in Transfers(G) : <<e.from, e.to>> \in P}

Weighed(G) == IsFiniteSet(G) /\ \A e \in Transfers(G) : e.row.amount \in Int

LEMMA MovedIsSum ==
    ASSUME NEW S, IsFiniteSet(S), NEW v \in [S -> Int], v = [x \in S |-> x.row.amount],
           NEW f, Summing(f, v, S), NEW G, Transfers(G) \subseteq S, NEW P, IsFiniteSet(P)
    PROVE  Moved(G, P) = f[Along(G, P)]
  <1> PICK w, E : w = [p \in P |-> Sent(G, p)] /\ E = [p \in P |-> Along(G, {p})]
    OBVIOUS
  <1>1. ASSUME NEW p \in P PROVE E[p] \in SUBSET S /\ w[p] = f[E[p]] /\ w[p] \in Int
    <2>1. Along(G, {p}) = {e \in Transfers(G) : <<e.from, e.to>> = p}
      BY DEF Along
    <2> PICK T : T = Along(G, {p})
      OBVIOUS
    <2>2. T \subseteq S
      BY DEF Along
    <2>3. AddsAmounts(f, S)
      BY AmountsOfPart
    <2>4. Sent(G, p) = f[T]
      BY <2>1, <2>2, <2>3 DEF Sent, AddsAmounts
    <2>5. f[T] \in Int
      BY <2>2 DEF Summing
    <2> QED BY <2>2, <2>4, <2>5
  <1>2. E \in [P -> SUBSET S] /\ w \in [P -> Int] /\ \A p \in P : w[p] = f[E[p]]
    BY <1>1
  <1>3. \A p, q \in P : p # q => E[p] \cap E[q] = {}
    BY DEF Along
  <1>4. PICK g : Summing(g, w, P) /\ (CHOOSE h : Adds(h, w, P)) = g
    BY <1>2, ChosenAdds
  <1>5. Moved(G, P) = g[P]
    BY <1>4, MovedAdds
  <1>6. g[P] = f[Gathered(E, P)]
    <2>1. Groups(E, w, P, f, S)
      BY <1>2, <1>3 DEF Groups
    <2> QED BY <1>4, <2>1, SumsRegroup
  <1>7. Gathered(E, P) = Along(G, P)
    BY DEF Gathered, Along
  <1> QED BY <1>5, <1>6, <1>7

LEMMA VolumeIsMoved ==
    ASSUME NEW G, Weighed(G), NEW P, IsFiniteSet(P)
    PROVE  Volume(G, P) = Moved(Transfers(G), P)
  <1> PICK S, v : S = Transfers(G) /\ v = [x \in S |-> x.row.amount]
    OBVIOUS
  <1>1. IsFiniteSet(S) /\ v \in [S -> Int]
    <2>1. S \subseteq G
      BY DEF Transfers
    <2> QED BY <2>1, FS_Subset DEF Weighed
  <1>2. PICK f : Summing(f, v, S)
    BY <1>1, ChosenAdds
  <1>3. Transfers(S) = S
    BY DEF Transfers
  <1>4. Moved(S, P) = f[Along(S, P)]
    BY <1>1, <1>2, <1>3, MovedIsSum
  <1>5. Along(S, P) = {e \in S : <<e.from, e.to>> \in P} /\ Along(S, P) \subseteq S
    BY <1>3 DEF Along
  <1>6. Volume(G, P) = f[Along(S, P)]
    <2>1. AddsAmounts(f, S)
      BY <1>1, <1>2, AmountsOfPart
    <2> QED BY <1>5, <2>1 DEF Volume, AddsAmounts
  <1> QED BY <1>4, <1>6

-----------
(* The clusters an analysis finds.                                         *)
LEMMA ClustersFound ==
    ASSUME NEW G, NEW c \in SharedClusters(G, MinShared)
    PROVE  c.customers = At(G, c.shared) /\ Cardinality(c.customers) >= MinShared
  <1> DEFINE Customs(n) == {e.from : e \in {x \in G : x.to = n /\ x.from \in Customers}}
  <1>1. \A n : Customs(n) = At(G, n)
    BY DEF At
  <1>2. PICK n \in {m \in Nodes(G) \cap (Devices \cup Addresses) :
                        Cardinality(Customs(m)) >= MinShared} :
            c = [shared |-> n, customers |-> Customs(n),
                 severity |-> Severity(Cardinality(Customs(n)) >= CriticalCustomers)]
    BY DEF SharedClusters
  <1> HIDE DEF Customs
  <1>3. c.shared = n /\ c.customers = Customs(n) /\ Cardinality(Customs(n)) >= MinShared
    BY <1>2
  <1> QED BY <1>1, <1>3

LEMMA ClusterAt ==
    ASSUME NEW G, IsFiniteSet(G), NEW n \in Devices \cup Addresses,
           Cardinality(At(G, n)) >= MinShared
    PROVE  \E c \in SharedClusters(G, MinShared) : c.shared = n
  <1> DEFINE Customs(m) == {e.from : e \in {x \in G : x.to = m /\ x.from \in Customers}}
  <1>1. \A m : Customs(m) = At(G, m)
    BY DEF At
  <1>2. n \in Nodes(G)
    <2>1. At(G, n) # {}
      BY QueryAssumption, FS_EmptySet
    <2> QED BY <2>1 DEF At, Nodes
  <1> PICK c : c = [shared |-> n, customers |-> Customs(n),
                    severity |-> Severity(Cardinality(Customs(n)) >= CriticalCustomers)]
    OBVIOUS
  <1>3. Cardinality(Customs(n)) >= MinShared
    BY <1>1
  <1>4. c \in SharedClusters(G, MinShared)
    BY <1>2, <1>3 DEF SharedClusters
  <1> QED BY <1>4

LEMMA FiniteAt ==
    ASSUME NEW G, IsFiniteSet(G), NEW n
    PROVE  IsFiniteSet(At(G, n))
  <1> PICK R : R = {e.from : e \in G}
    OBVIOUS
  <1>1. IsFiniteSet(R)
    <2> PICK f : f = [e \in G |-> e.from]
      OBVIOUS
    <2>1. f \in Surjection(G, R)
      BY DEF Surjection
    <2> QED BY <2>1, FS_Surjection
  <1>2. At(G, n) \subseteq R
    BY DEF At
  <1> QED BY <1>1, <1>2, FS_Subset

LEMMA ClustersLieBetween ==
    ASSUME NEW before, NEW G, NEW after, before \subseteq G, G \subseteq after, IsFiniteSet(after)
    PROVE  ClustersBetween(before, after, SharedClusters(G, MinShared))
  <1>1. IsFiniteSet(G)
    BY FS_Subset
  <1>2. \A n : At(before, n) \subseteq At(G, n) /\ At(G, n) \subseteq At(after, n)
    BY DEF At
  <1>3. ASSUME NEW n \in Devices \cup Addresses, Cardinality(At(before, n)) >= MinShared
        PROVE  \E c \in SharedClusters(G, MinShared) : c.shared = n
    <2> PICK A, B : A = At(before, n) /\ B = At(G, n)
      OBVIOUS
    <2>1. A \subseteq B /\ IsFiniteSet(B)
      BY <1>1, <1>2, FiniteAt
    <2>2. IsFiniteSet(A) /\ Cardinality(A) \in Nat /\ Cardinality(B) \in Nat
          /\ Cardinality(A) <= Cardinality(B)
      BY <2>1, FS_Subset, FS_CardinalityType
    <2>3. Cardinality(B) >= MinShared
      BY <1>3, <2>2, QueryAssumption
    <2> QED BY <1>1, <2>3, ClusterAt
  <1>4. ASSUME NEW c \in SharedClusters(G, MinShared)
        PROVE  /\ Cardinality(c.customers) >= MinShared
               /\ At(before, c.shared) \subseteq c.customers
               /\ c.customers \subseteq At(after, c.shared)
    BY <1>2, ClustersFound
  <1> QED BY <1>3, <1>4 DEF ClustersBetween

-----------------------------------------------------------------------------
(* The rings an analysis finds: exactly the cycles among its pairs.        *)

After(i, h) == IF i = h THEN 1 ELSE i + 1

LEMMA Wraps ==
    ASSUME NEW h \in Nat \ {0}, NEW i \in 1..h
    PROVE  (i % h) + 1 = After(i, h) /\ After(i, h) \in 1..h
  <1>1. CASE i = h
    <2>1. i % i = 0
      OBVIOUS
    <2> QED BY <1>1, <2>1 DEF After
  <1>2. CASE i # h
    <2>1. i % h = i
      BY <1>2
    <2> QED BY <1>2, <2>1 DEF After
  <1> QED BY <1>1, <1>2

(* The recursion of Cycles, and what it makes of a sequence. *)
Paths(paths, P, h) ==
    /\ paths[1] = {<<p[1]>> : p \in P}
    /\ \A n \in 2..h : paths[n] =
         UNION {{Append(s, p[2]) : p \in {x \in P : x[1] = s[n - 1]}} : s \in paths[n - 1]}

Lap(s, h) == {<<s[i], s[(i % h) + 1]>> : i \in 1..h}

Simple(s, P, h) ==
    /\ Cardinality({s[i] : i \in 1..h}) = h
    /\ \A i \in 1..h : <<s[i], s[(i % h) + 1]>> \in P

Following(near, P, n) ==
    UNION {{Append(s, p[2]) : p \in {x \in P : x[1] = s[n - 1]}} : s \in near}

LEMMA PathsExist ==
    ASSUME NEW P, NEW h \in Nat \ {0}
    PROVE  \E paths : paths = [n \in 1..h |-> paths[n]] /\ Paths(paths, P, h)
  <1> DEFINE Solved(m) == \E f : f = [n \in 1..m |-> f[n]] /\ Paths(f, P, m)
  <1> PICK T : T = {m \in 1..h : ~Solved(m)}
    OBVIOUS
  <1>1. Solved(1)
    <2> PICK f : f = [n \in 1..1 |-> {<<p[1]>> : p \in P}]
      OBVIOUS
    <2>1. f = [n \in 1..1 |-> f[n]] /\ f[1] = {<<p[1]>> : p \in P} /\ 2..1 = {}
      OBVIOUS
    <2>2. Paths(f, P, 1)
      BY <2>1 DEF Paths
    <2> QED BY <2>1, <2>2
  <1>2. ASSUME NEW m \in 2..h, Solved(m - 1) PROVE Solved(m)
    <2> PICK p : p = m - 1
      OBVIOUS
    <2>1. PICK g : g = [n \in 1..p |-> g[n]] /\ Paths(g, P, p)
      BY <1>2
    <2> PICK f : f = [n \in 1..m |-> IF n = m THEN Following(g[p], P, m) ELSE g[n]]
      OBVIOUS
    <2>2. p \in Nat \ {0} /\ p + 1 = m
      BY <1>2
    <2>3. /\ f = [n \in 1..m |-> f[n]] /\ f[m] = Following(g[p], P, m)
          /\ \A n \in 1..p : f[n] = g[n]
      BY <1>2, <2>2
    <2>4. \A n \in 2..p : g[n] = Following(g[n - 1], P, n)
      BY <2>1 DEF Paths, Following
    <2>5. ASSUME NEW n \in 2..m PROVE f[n] = Following(f[n - 1], P, n)
      <3>1. CASE n = m
        <4>1. n - 1 = p /\ p \in 1..p
          BY <2>2, <3>1
        <4> QED BY <2>3, <3>1, <4>1
      <3>2. CASE n # m
        <4>1. n \in 2..p /\ n - 1 \in 1..p /\ n \in 1..p
          BY <2>2, <2>5, <3>2
        <4> QED BY <2>3, <2>4, <4>1
      <3> QED BY <3>1, <3>2
    <2>6. f[1] = {<<q[1]>> : q \in P}
      <3>1. 1 \in 1..p
        BY <2>2
      <3>2. g[1] = {<<q[1]>> : q \in P}
        BY <2>1 DEF Paths
      <3>3. f[1] = g[1]
        BY <2>3, <3>1
      <3> QED BY <3>2, <3>3, Zenon
    <2>7. Paths(f, P, m)
      BY <2>5, <2>6 DEF Paths, Following
    <2> QED BY <2>3, <2>7
  <1> HIDE DEF Solved
  <1>3. ASSUME T # {} PROVE FALSE
    <2>1. T \in SUBSET Nat
      OBVIOUS
    <2>2. PICK k \in T : \A y \in T : k <= y
      BY <1>3, <2>1, LeastNatural
    <2>3. k \in 2..h /\ k - 1 \in 1..h /\ k - 1 \notin T
      BY <1>1, <2>2
    <2> QED BY <1>2, <2>2, <2>3
  <1>4. Solved(h)
    BY <1>3
  <1> QED BY <1>4 DEF Solved

Laps(paths, P, h) == {Lap(s, h) : s \in {x \in paths[h] : Simple(x, P, h)}}

LEMMA CyclesAre ==
    ASSUME NEW P, NEW h \in Nat \ {0}
    PROVE  \E paths : Paths(paths, P, h) /\ Cycles(P, h) = Laps(paths, P, h)
  <1> DEFINE Is(paths) ==
        paths = [n \in 1..h |->
            IF n = 1 THEN {<<p[1]>> : p \in P}
            ELSE UNION {{Append(s, p[2]) : p \in {x \in P : x[1] = s[n - 1]}} : s \in paths[n - 1]}]
  <1>1. PICK f : f = [n \in 1..h |-> f[n]] /\ Paths(f, P, h)
    BY PathsExist
  <1>2. Is(f)
    <2>1. ASSUME NEW n \in 1..h
          PROVE  f[n] = IF n = 1 THEN {<<p[1]>> : p \in P}
                        ELSE UNION {{Append(s, p[2]) : p \in {x \in P : x[1] = s[n - 1]}} : s \in f[n - 1]}
      <3>1. n # 1 => n \in 2..h
        OBVIOUS
      <3> QED BY <1>1, <3>1 DEF Paths
    <2> QED BY <1>1, <2>1
  <1> PICK paths : paths = CHOOSE g : Is(g)
    OBVIOUS
  <1>3. Is(paths)
    BY <1>2
  <1>4. Cycles(P, h) = {{<<s[i], s[(i % h) + 1]>> : i \in 1..h} :
            s \in {s \in paths[h] : /\ Cardinality({s[i] : i \in 1..h}) = h
                                    /\ \A i \in 1..h : <<s[i], s[(i % h) + 1]>> \in P}}
    BY Zenon DEF Cycles
  <1>5. Cycles(P, h) = Laps(paths, P, h)
    BY <1>4, Zenon DEF Laps, Lap, Simple
  <1>6. Paths(paths, P, h)
    <2>1. ASSUME NEW n \in 2..h PROVE paths[n] = Following(paths[n - 1], P, n)
      <3>1. n \in 1..h /\ n # 1
        OBVIOUS
      <3>2. paths[n] = IF n = 1 THEN {<<p[1]>> : p \in P} ELSE Following(paths[n - 1], P, n)
        BY <1>3, <3>1, Zenon DEF Following
      <3> QED BY <3>1, <3>2
    <2>2. paths[1] = {<<p[1]>> : p \in P}
      <3>1. 1 \in 1..h
        OBVIOUS
      <3> QED BY <1>3, <3>1, Zenon
    <2> QED BY <2>1, <2>2 DEF Paths, Following
  <1> QED BY <1>5, <1>6

(* A lap that visits no node twice is a ring.                              *)
LEMMA LapIsRing ==
    ASSUME NEW P, NEW h \in 3..MaxHops, NEW s, Simple(s, P, h)
    PROVE  Lap(s, h) \subseteq P /\ IsRing(Lap(s, h))
  <1> PICK f, R, C, e :
        /\ f = [i \in 1..h |-> s[i]] /\ R = {s[i] : i \in 1..h} /\ C = Lap(s, h)
        /\ e = [i \in 1..h |-> <<f[i], f[After(i, h)]>>]
    OBVIOUS
  <1>0. h \in Nat \ {0} /\ 1 \in 1..h /\ h \in 1..h
    BY QueryAssumption
  <1>1. \A i \in 1..h : (i % h) + 1 = After(i, h) /\ After(i, h) \in 1..h
    BY <1>0, Wraps
  <1>2. C = {e[i] : i \in 1..h} /\ C \subseteq P
    <2>1. \A i \in 1..h : <<s[i], s[(i % h) + 1]>> = e[i]
      BY <1>1
    <2> PICK d : d = [i \in 1..h |-> <<s[i], s[(i % h) + 1]>>]
      OBVIOUS
    <2>2. C = {d[i] : i \in 1..h}
      BY DEF Lap
    <2>3. C = {e[i] : i \in 1..h}
      <3>1. \A i \in 1..h : d[i] = e[i]
        BY <2>1
      <3>2. d = e
        BY <3>1
      <3> QED BY <2>2, <3>2, ZenonT(60)
    <2>4. \A i \in 1..h : e[i] \in P
      BY <2>1 DEF Simple
    <2> QED BY <2>3, <2>4
  <1>3. \A i, j \in 1..h : f[i] = f[j] => i = j
    <2>1. IsFiniteSet(1..h) /\ Cardinality(1..h) = h
      BY <1>0, FS_Interval
    <2>2. f \in Surjection(1..h, R)
      BY DEF Surjection
    <2>3. Cardinality(R) = h
      BY DEF Simple
    <2>4. f \in Injection(1..h, R)
      BY <2>1, <2>2, <2>3, FS_Surjection
    <2> QED BY <2>4 DEF Injection, IsInjective
  <1>4. \A i \in 1..h : e[i] = <<f[i], f[After(i, h)]>> /\ e[i][1] = f[i] /\ e[i][2] = f[After(i, h)]
    BY <1>1
  <1>5. \A j \in 1..h : \E i \in 1..h : After(i, h) = j
    <2>1. ASSUME NEW j \in 1..h PROVE \E i \in 1..h : After(i, h) = j
      <3>1. CASE j = 1
        BY <1>0, <3>1 DEF After
      <3>2. CASE j # 1
        <4>1. j - 1 \in 1..h /\ j - 1 # h /\ j - 1 + 1 = j
          BY <1>0, <3>2
        <4> QED BY <4>1 DEF After
      <3> QED BY <3>1, <3>2
    <2> QED BY <2>1
  <1>6. Froms(C) = R /\ Tos(C) = R
    <2>1. Froms(C) = {f[i] : i \in 1..h}
      <3>1. \A x : x \in Froms(C) <=> \E i \in 1..h : x = e[i][1]
        BY ZenonT(60), <1>2 DEF Froms
      <3> QED BY <1>4, <3>1
    <2>2. Tos(C) = {f[After(i, h)] : i \in 1..h}
      <3>1. \A x : x \in Tos(C) <=> \E i \in 1..h : x = e[i][2]
        BY ZenonT(60), <1>2 DEF Tos
      <3> QED BY <1>4, <3>1
    <2>3. {f[After(i, h)] : i \in 1..h} = {f[i] : i \in 1..h}
      BY <1>1, <1>5
    <2> QED BY <2>1, <2>2, <2>3
  <1>7. Cardinality(C) = h /\ Cardinality(R) = h
    <2>1. IsFiniteSet(1..h) /\ Cardinality(1..h) = h
      BY <1>0, FS_Interval
    <2>2. e \in Surjection(1..h, C)
      BY <1>2 DEF Surjection
    <2>3. e \in Injection(1..h, C)
      <3>1. e \in [1..h -> C]
        BY <1>2
      <3>2. \A i, j \in 1..h : e[i] = e[j] => i = j
        <4>1. \A i, j \in 1..h : e[i] = e[j] => f[i] = f[j]
          BY <1>4
        <4> QED BY <1>3, <4>1
      <3> QED BY <3>1, <3>2 DEF Injection, IsInjective
    <2>4. Cardinality(C) = h
      BY <2>1, <2>2, <2>3, FS_Surjection
    <2> QED BY <2>4 DEF Simple
  <1>8. ASSUME NEW part \in SUBSET C, part # {}, Returns(part) PROVE part = C
    <2> PICK I : I = {i \in 1..h : e[i] \in part}
      OBVIOUS
    <2>1. \A i \in I : After(i, h) \in I
      <3>1. ASSUME NEW i \in I PROVE After(i, h) \in I
        <4>1. f[After(i, h)] \in Tos(part)
          <5>1. e[i] \in part /\ e[i][2] = f[After(i, h)]
            BY <1>4
          <5> QED BY <5>1 DEF Tos
        <4>2. PICK p \in part : f[After(i, h)] = p[1]
          BY <1>8, <4>1 DEF Returns, Froms
        <4>3. PICK j \in 1..h : p = e[j]
          BY <1>2
        <4>4. f[After(i, h)] = f[j]
          BY <1>4, <4>2, <4>3
        <4>5. After(i, h) = j
          BY <1>1, <1>3, <4>4
        <4> QED BY <4>2, <4>3, <4>5
      <3> QED BY <3>1
    <2>2. \A k \in I : k..h \subseteq I
      <3>1. ASSUME NEW k \in I PROVE k..h \subseteq I
        <4> PICK T : T = {j \in k..h : j \notin I}
          OBVIOUS
        <4>1. ASSUME T # {} PROVE FALSE
          <5>1. T \in SUBSET Nat
            BY <1>0
          <5>2. PICK j \in T : \A y \in T : j <= y
            BY <4>1, <5>1, LeastNatural
          <5>3. j # k
            BY <5>2
          <5>4. j - 1 \in k..h /\ j - 1 # h /\ j - 1 + 1 = j /\ ~(j <= j - 1)
            BY <1>0, <5>2, <5>3
          <5>5. j - 1 \in I
            BY <5>2, <5>4
          <5> QED BY <2>1, <5>2, <5>4, <5>5 DEF After
        <4> QED BY <4>1
      <3> QED BY <3>1
    <2>3. PICK k : k \in I
      BY ZenonT(60), <1>2, <1>8
    <2>4. h \in I
      <3>1. h \in k..h
        BY <1>0, <2>3
      <3> QED BY <2>2, <2>3, <3>1
    <2>5. 1 \in I
      BY <2>1, <2>4 DEF After
    <2>6. \A i \in 1..h : e[i] \in part
      BY <2>2, <2>5
    <2> QED BY <1>2, <2>6
  <1>9. IsCycle(C)
    <2>1. Returns(C)
      BY <1>6 DEF Returns
    <2>2. \A part \in (SUBSET C) \ {{}, C} : ~Returns(part)
      BY <1>8
    <2> QED BY <1>6, <1>7, <2>1, <2>2 DEF IsCycle
  <1> QED BY <1>2, <1>7, <1>9 DEF IsRing

(* From a node on, the hops of a ring. *)
Trail(s, k, next, F) ==
    /\ s \in [1..k -> F] /\ \A i, j \in 1..k : s[i] = s[j] => i = j
    /\ \A i \in 1..k : i # k => s[i + 1] = next[s[i]]

Closed(s, k, next, F) == Trail(s, k, next, F) /\ \E j \in 1..k : next[s[k]] = s[j]

Hop(R, next) == next \in [Froms(R) -> Froms(R)] /\ R = {<<x, next[x]>> : x \in Froms(R)}

LEMMA RingHops ==
    ASSUME NEW R, IsFiniteSet(R), \A p \in R : p = <<p[1], p[2]>>, IsRing(R)
    PROVE  \E next : Hop(R, next)
  <1> PICK F, f : F = Froms(R) /\ f = [p \in R |-> p[1]]
    OBVIOUS
  <1>1. Returns(R) /\ Cardinality(F) = Cardinality(R)
    BY DEF IsRing, IsCycle
  <1>2. \A p, q \in R : p[1] = q[1] => p = q
    <2>1. f \in Surjection(R, F)
      BY DEF Surjection, Froms
    <2>2. f \in Injection(R, F)
      BY <1>1, <2>1, FS_Surjection
    <2> QED BY <2>2 DEF Injection, IsInjective
  <1> PICK next : next = [x \in F |-> (CHOOSE p \in R : p[1] = x)[2]]
    OBVIOUS
  <1>3. ASSUME NEW p \in R PROVE p[1] \in F /\ next[p[1]] = p[2]
    <2>1. p[1] \in F
      BY DEF Froms
    <2> PICK x, q : x = p[1] /\ q = CHOOSE p1 \in R : p1[1] = x
      OBVIOUS
    <2>2. q \in R /\ q[1] = x
      <3>1. \E p1 \in R : p1[1] = x
        OBVIOUS
      <3> QED BY <3>1
    <2>3. q = p
      BY <1>2, <2>2
    <2> QED BY <2>1, <2>3
  <1>4. \A x \in F : \E p \in R : p[1] = x
    BY DEF Froms
  <1>5. \A x \in F : next[x] \in F
    <2>1. ASSUME NEW x \in F PROVE next[x] \in F
      <3>1. PICK p \in R : p[1] = x
        BY <1>4
      <3>2. next[x] = p[2] /\ p[2] \in Tos(R)
        BY <1>3, <3>1 DEF Tos
      <3> QED BY <1>1, <3>2 DEF Returns
    <2> QED BY <2>1
  <1>6. R = {<<x, next[x]>> : x \in F}
    <2>1. \A p \in R : p \in {<<x, next[x]>> : x \in F}
      BY <1>3
    <2>2. ASSUME NEW x \in F PROVE <<x, next[x]>> \in R
      <3>1. PICK p \in R : p[1] = x
        BY <1>4
      <3>2. p = <<x, next[x]>>
        BY <1>3, <3>1
      <3> QED BY <3>2
    <2> QED BY <2>1, <2>2
  <1>7. next \in [F -> F]
    BY <1>5
  <1>8. Hop(R, next)
    BY <1>6, <1>7 DEF Hop
  <1> QED BY <1>8

(* The longest trail from a node of the ring goes all around it. *)
LEMMA LongestTrail ==
    ASSUME NEW F, IsFiniteSet(F), F # {}, NEW next \in [F -> F]
    PROVE  \E k \in 1..Cardinality(F) : \E s : Closed(s, k, next, F)
  <1> PICK n : n = Cardinality(F)
    OBVIOUS
  <1>0. n \in Nat
    BY FS_CardinalityType
  <1> DEFINE Long(k) == \E s : Trail(s, k, next, F)
  <1>1. Long(1)
    <2>1. PICK x : x \in F
      OBVIOUS
    <2> PICK s : s = [i \in 1..1 |-> x]
      OBVIOUS
    <2>2. Trail(s, 1, next, F)
      BY <2>1 DEF Trail
    <2> QED BY <2>2
  <1>2. ASSUME NEW k \in Nat, Long(k) PROVE k <= n
    <2>1. PICK s : Trail(s, k, next, F)
      BY <1>2
    <2>2. s \in Injection(1..k, F)
      BY <2>1 DEF Trail, Injection, IsInjective
    <2>3. Cardinality(1..k) = k /\ IsFiniteSet(1..k)
      BY FS_Interval
    <2>4. Cardinality(1..k) <= n
      BY <2>2, <2>3, FS_Injection
    <2> QED BY <2>3, <2>4
  <1>3. ASSUME NEW k \in Nat \ {0}, NEW s, Trail(s, k, next, F), next[s[k]] \notin {s[i] : i \in 1..k}
        PROVE  Long(k + 1)
    <2> PICK m, y : m = k + 1 /\ y = next[s[k]]
      OBVIOUS
    <2> PICK t : t = [i \in 1..m |-> IF i = m THEN y ELSE s[i]]
      OBVIOUS
    <2>1. /\ s \in [1..k -> F] /\ \A i, j \in 1..k : s[i] = s[j] => i = j
          /\ \A i \in 1..k : i # k => s[i + 1] = next[s[i]]
      BY <1>3 DEF Trail
    <2>2. y \in F /\ t[m] = y /\ \A i \in 1..k : t[i] = s[i] /\ t[i] # y
      BY <1>3, <2>1
    <2>3. \A i \in 1..m : i = m \/ i \in 1..k
      OBVIOUS
    <2>4. t \in [1..m -> F]
      BY <2>1, <2>2, <2>3
    <2>5. \A i, j \in 1..m : t[i] = t[j] => i = j
      BY <2>1, <2>2, <2>3
    <2>6. ASSUME NEW i \in 1..m, i # m PROVE t[i + 1] = next[t[i]]
      <3>1. i \in 1..k /\ (i # k => i + 1 \in 1..k) /\ (i = k => i + 1 = m)
        BY <2>6
      <3> QED BY <2>1, <2>2, <3>1
    <2>7. Trail(t, m, next, F)
      BY <2>4, <2>5, <2>6 DEF Trail
    <2> QED BY <2>7
  <1> HIDE DEF Long
  <1> PICK T : T = {k \in Nat \ {0} : ~Long(k)}
    OBVIOUS
  <1>4. n + 1 \in T
    BY <1>0, <1>2
  <1>5. PICK k \in T : \A y \in T : k <= y
    <2>1. T \in SUBSET Nat /\ T # {}
      BY <1>4
    <2> QED BY <2>1, LeastNatural
  <1> PICK l : l = k - 1
    OBVIOUS
  <1>6. l \in Nat \ {0} /\ l + 1 = k /\ l \notin T
    <2>1. k # 1
      BY <1>1, <1>5
    <2> QED BY <1>5, <2>1
  <1>7. Long(l)
    BY <1>6
  <1>8. l \in 1..n
    BY <1>0, <1>2, <1>6, <1>7
  <1>9. PICK s : Trail(s, l, next, F)
    BY <1>7 DEF Long
  <1>10. next[s[l]] \in {s[i] : i \in 1..l}
    BY <1>3, <1>5, <1>6, <1>9
  <1>11. Closed(s, l, next, F)
    BY <1>9, <1>10 DEF Closed
  <1> QED BY <1>8, <1>11

LEMMA RingIsLap ==
    ASSUME NEW R, IsFiniteSet(R), \A p \in R : p = <<p[1], p[2]>>, IsRing(R),
           NEW h, h = Cardinality(R)
    PROVE  \E s \in [1..h -> Froms(R)] : Simple(s, R, h) /\ Lap(s, h) = R
  <1> PICK F : F = Froms(R)
    OBVIOUS
  <1>1. PICK next : next \in [F -> F] /\ R = {<<x, next[x]>> : x \in F}
    BY RingHops DEF Hop
  <1>2. h \in 3..MaxHops /\ Cardinality(F) = h /\ h \in Nat \ {0}
        /\ \A part \in SUBSET R : part # {} /\ Returns(part) => part = R
    BY QueryAssumption DEF IsRing, IsCycle
  <1>3. IsFiniteSet(F) /\ F # {}
    <2> PICK f : f = [p \in R |-> p[1]]
      OBVIOUS
    <2>1. f \in Surjection(R, F)
      BY DEF Surjection, Froms
    <2>2. IsFiniteSet(F)
      BY <2>1, FS_Surjection
    <2> QED BY <1>2, <2>2, FS_EmptySet
  <1>3a. \E k \in 1..h : \E s : Closed(s, k, next, F)
    BY <1>1, <1>2, <1>3, LongestTrail
  <1>3b. PICK k \in 1..h : \E s : Closed(s, k, next, F)
    BY <1>3a
  <1>4. PICK s : Closed(s, k, next, F)
    BY <1>3b
  <1>5. PICK j \in 1..k : next[s[k]] = s[j]
    BY <1>4 DEF Closed
  <1>6. /\ s \in [1..k -> F] /\ \A i, l \in 1..k : s[i] = s[l] => i = l
        /\ \A i \in 1..k : i # k => s[i + 1] = next[s[i]]
    BY SMTT(30), <1>4 DEF Closed, Trail
  <1>7. \A x \in F : <<x, next[x]>> \in R
    BY <1>1
  <1> PICK X, part : X = {s[i] : i \in j..k} /\ part = {<<s[i], next[s[i]]>> : i \in j..k}
    OBVIOUS
  <1>8. \A i \in j..k : i \in 1..k /\ s[i] \in F
    BY <1>6
  <1>9. Froms(part) = X
    <2>1. \A x \in Froms(part) : x \in X
      BY DEF Froms
    <2>2. ASSUME NEW i \in j..k PROVE s[i] \in Froms(part)
      <3>1. <<s[i], next[s[i]]>> \in part
        OBVIOUS
      <3> QED BY <3>1 DEF Froms
    <2> QED BY <2>1, <2>2
  <1>10. Tos(part) = X
    <2>1. ASSUME NEW i \in j..k PROVE next[s[i]] \in X
      <3>1. CASE i = k
        <4>1. j \in j..k
          OBVIOUS
        <4> QED BY <1>5, <3>1, <4>1
      <3>2. CASE i # k
        <4>1. i + 1 \in j..k /\ s[i + 1] = next[s[i]]
          BY <1>6, <1>8, <3>2
        <4> QED BY <4>1
      <3> QED BY <3>1, <3>2
    <2>2. ASSUME NEW i \in j..k PROVE \E l \in j..k : next[s[l]] = s[i]
      <3>1. CASE i = j
        <4>1. k \in j..k
          OBVIOUS
        <4> QED BY <1>5, <3>1, <4>1
      <3>2. CASE i # j
        <4>1. i - 1 \in j..k /\ i - 1 # k /\ i - 1 + 1 = i /\ i - 1 \in 1..k
          BY <1>8, <3>2
        <4>2. s[i] = next[s[i - 1]]
          BY <1>6, <4>1
        <4> QED BY <4>1, <4>2
      <3> QED BY <3>1, <3>2
    <2>3. \A x : x \in Tos(part) <=> \E i \in j..k : x = next[s[i]]
      <3>1. \A x \in Tos(part) : \E i \in j..k : x = next[s[i]]
        BY DEF Tos
      <3>2. ASSUME NEW i \in j..k PROVE next[s[i]] \in Tos(part)
        <4>1. <<s[i], next[s[i]]>> \in part
          OBVIOUS
        <4> QED BY <4>1 DEF Tos
      <3> QED BY <3>1, <3>2
    <2> QED BY <2>1, <2>2, <2>3
  <1>11. part = R
    <2>1. part \in SUBSET R
      BY <1>7, <1>8
    <2>2. part # {}
      <3>1. k \in j..k
        OBVIOUS
      <3> QED BY <3>1
    <2> QED BY <1>2, <1>9, <1>10, <2>1, <2>2 DEF Returns
  <1>12. j = 1 /\ k = h
    <2>1. X = F
      BY <1>9, <1>11
    <2> PICK f : f = [i \in j..k |-> s[i]]
      OBVIOUS
    <2>2. f \in Surjection(j..k, X)
      BY DEF Surjection
    <2>3. IsFiniteSet(j..k) /\ Cardinality(j..k) = k - j + 1
      BY FS_Interval
    <2>4. Cardinality(X) <= Cardinality(j..k)
      BY <2>2, <2>3, FS_Surjection
    <2>5. h <= k - j + 1
      <3>1. j <= k
        OBVIOUS
      <3> QED BY <1>2, <2>1, <2>3, <2>4, <3>1
    <2> QED BY <1>2, <2>5
  <1>13. \A i \in 1..h : s[(i % h) + 1] = next[s[i]]
    <2>1. ASSUME NEW i \in 1..h PROVE s[(i % h) + 1] = next[s[i]]
      <3>1. (i % h) + 1 = After(i, h)
        BY <1>2, Wraps
      <3>2. s[After(i, h)] = next[s[i]]
        BY <1>5, <1>6, <1>12 DEF After
      <3> QED BY <3>1, <3>2
    <2> QED BY <2>1
  <1>14. Lap(s, h) = R
    <2> PICK d, e : /\ d = [i \in 1..h |-> <<s[i], s[(i % h) + 1]>>]
                    /\ e = [i \in 1..h |-> <<s[i], next[s[i]]>>]
      OBVIOUS
    <2>a. d = e
      <3>1. \A i \in 1..h : d[i] = e[i]
        BY <1>13
      <3> QED BY <3>1
    <2>b. Lap(s, h) = {d[i] : i \in 1..h}
      BY DEF Lap
    <2>c. part = {e[i] : i \in 1..h}
      BY <1>12
    <2>1. Lap(s, h) = part
      BY <2>a, <2>b, <2>c
    <2> QED BY <1>11, <2>1
  <1>15. Simple(s, R, h)
    <2>1. X = {s[i] : i \in 1..h} /\ X = F
      BY <1>9, <1>11, <1>12
    <2>2. \A i \in 1..h : <<s[i], s[(i % h) + 1]>> \in R
      BY <1>14 DEF Lap
    <2> QED BY <1>2, <2>1, <2>2 DEF Simple
  <1>16. s \in [1..h -> F]
    BY <1>6, <1>12
  <1> QED BY <1>14, <1>15, <1>16

LEMMA Follows ==
    ASSUME NEW near, NEW P, NEW n, NEW t \in near, NEW q \in P, q[1] = t[n - 1]
    PROVE  Append(t, q[2]) \in Following(near, P, n)
  <1> PICK U : U = {Append(t, p[2]) : p \in {x \in P : x[1] = t[n - 1]}}
    OBVIOUS
  <1>1. Append(t, q[2]) \in U
    OBVIOUS
  <1>2. U \in {{Append(s, p[2]) : p \in {x \in P : x[1] = s[n - 1]}} : s \in near}
    BY Zenon
  <1> QED BY <1>1, <1>2, Zenon DEF Following

(* A sequence along the pairs is one of the paths. *)
LEMMA OnPath ==
    ASSUME NEW P, NEW h \in Nat \ {0}, NEW paths, Paths(paths, P, h), NEW F, NEW s \in [1..h -> F],
           \A i \in 1..h : i # h => <<s[i], s[i + 1]>> \in P, \E p \in P : p[1] = s[1]
    PROVE  s \in paths[h]
  <1> PICK first : first = [m \in 1..h |-> [i \in 1..m |-> s[i]]]
    OBVIOUS
  <1> PICK T : T = {m \in 1..h : first[m] \notin paths[m]}
    OBVIOUS
  <1>1. first[1] \in paths[1]
    <2>1. PICK p \in P : p[1] = s[1]
      OBVIOUS
    <2>2. first[1] = [i \in 1..1 |-> s[i]]
      OBVIOUS
    <2>3. <<p[1]>> = [i \in 1..1 |-> s[i]]
      BY <2>1
    <2> QED BY <2>2, <2>3 DEF Paths
  <1>2. ASSUME NEW m \in 2..h, first[m - 1] \in paths[m - 1] PROVE first[m] \in paths[m]
    <2> PICK p, t : p = m - 1 /\ t = first[m - 1]
      OBVIOUS
    <2>1. p \in 1..h /\ p # h /\ p + 1 = m
      BY <1>2
    <2>2. t = [i \in 1..p |-> s[i]]
      BY <2>1
    <2>3. t \in Seq(F) /\ Len(t) = p /\ t[p] = s[p]
      BY <2>1, <2>2
    <2>4. Append(t, s[m]) = first[m]
      <3>1. s[m] \in F
        OBVIOUS
      <3>2. /\ Append(t, s[m]) \in Seq(F) /\ Len(Append(t, s[m])) = m
            /\ \A i \in 1..p : Append(t, s[m])[i] = t[i]
            /\ Append(t, s[m])[m] = s[m]
        BY <2>1, <2>3, <3>1
      <3>3. \A i \in 1..m : Append(t, s[m])[i] = s[i]
        BY <2>1, <2>2, <3>2
      <3>4. first[m] = [i \in 1..m |-> s[i]]
        BY <2>1
      <3>5. Append(t, s[m]) = [i \in 1..m |-> Append(t, s[m])[i]]
        BY <3>2
      <3> QED BY <3>3, <3>4, <3>5
    <2>5. <<s[p], s[m]>> \in P
      BY <2>1
    <2>6. Append(t, s[m]) \in Following(paths[p], P, m)
      <3> PICK q : q = <<s[p], s[m]>>
        OBVIOUS
      <3>1. q \in P /\ q[1] = t[m - 1] /\ q[2] = s[m]
        BY <2>3, <2>5
      <3>2. t \in paths[p]
        BY <1>2
      <3>3. Append(t, q[2]) \in Following(paths[p], P, m)
        BY <3>1, <3>2, Follows
      <3> QED BY <3>1, <3>3
    <2>7. paths[m] = Following(paths[p], P, m)
      BY DEF Paths, Following
    <2> QED BY <2>4, <2>6, <2>7
  <1>3. ASSUME T # {} PROVE FALSE
    <2>1. T \in SUBSET Nat
      OBVIOUS
    <2>2. PICK k \in T : \A y \in T : k <= y
      BY <1>3, <2>1, LeastNatural
    <2>a. k # 1 /\ k \in 1..h
      BY <1>1, <2>2
    <2>b. k \in 2..h /\ k - 1 \in 1..h /\ ~(k <= k - 1)
      BY <2>a
    <2>3. k \in 2..h /\ k - 1 \in 1..h /\ k - 1 \notin T
      BY <2>2, <2>b
    <2>4. first[k - 1] \in paths[k - 1]
      BY <2>3
    <2> QED BY <1>2, <2>2, <2>3, <2>4
  <1>4. first[h] \in paths[h]
    <2>1. h \in 1..h
      OBVIOUS
    <2> QED BY <1>3, <2>1
  <1>5. first[h] = s
    OBVIOUS
  <1> QED BY <1>4, <1>5

LEMMA RingInCycles ==
    ASSUME NEW G, NEW R, IsFiniteSet(R), R \subseteq Pairs(G), IsRing(R)
    PROVE  \E h \in 3..MaxHops : R \in Cycles(Pairs(G), h)
  <1> PICK P, h : P = Pairs(G) /\ h = Cardinality(R)
    OBVIOUS
  <1>1. \A p \in P : p = <<p[1], p[2]>>
    BY DEF Pairs
  <1>2. h \in 3..MaxHops /\ h \in Nat \ {0}
    BY QueryAssumption DEF IsRing
  <1>3. PICK s \in [1..h -> Froms(R)] : Simple(s, R, h) /\ Lap(s, h) = R
    BY <1>1, RingIsLap
  <1>4. PICK paths : Paths(paths, P, h) /\ Cycles(P, h) = Laps(paths, P, h)
    BY <1>2, CyclesAre
  <1>5. Simple(s, P, h)
    BY <1>3 DEF Simple
  <1>6. \A i \in 1..h : i # h => <<s[i], s[i + 1]>> \in P
    <2>1. ASSUME NEW i \in 1..h, i # h PROVE <<s[i], s[i + 1]>> \in P
      <3>1. (i % h) + 1 = i + 1
        BY <1>2, <2>1, Wraps DEF After
      <3>2. <<s[i], s[(i % h) + 1]>> \in P
        BY <1>5 DEF Simple
      <3> QED BY <3>1, <3>2
    <2> QED BY <2>1
  <1>7. \E p \in P : p[1] = s[1]
    <2>1. s[1] \in Froms(R)
      BY <1>2, <1>3
    <2> QED BY <2>1 DEF Froms
  <1>8. s \in paths[h]
    BY <1>2, <1>4, <1>6, <1>7, OnPath
  <1>9. Lap(s, h) \in Cycles(P, h)
    BY <1>4, <1>5, <1>8 DEF Laps
  <1> QED BY <1>2, <1>3, <1>9

LEMMA CycleIsRing ==
    ASSUME NEW P, NEW h \in 3..MaxHops, NEW R \in Cycles(P, h)
    PROVE  R \subseteq P /\ IsRing(R) /\ IsFiniteSet(R)
  <1>1. h \in Nat \ {0}
    BY QueryAssumption
  <1>2. PICK paths : Paths(paths, P, h) /\ Cycles(P, h) = Laps(paths, P, h)
    BY <1>1, CyclesAre
  <1>3. PICK s : Simple(s, P, h) /\ R = Lap(s, h)
    BY <1>2 DEF Laps
  <1>4. IsFiniteSet(R)
    <2> PICK d : d = [i \in 1..h |-> <<s[i], s[(i % h) + 1]>>]
      OBVIOUS
    <2>1. d \in Surjection(1..h, R)
      BY <1>3 DEF Surjection, Lap
    <2>2. IsFiniteSet(1..h)
      BY <1>1, FS_Interval
    <2> QED BY <2>1, <2>2, FS_Surjection
  <1> QED BY <1>3, <1>4, LapIsRing

LEMMA RingsFound ==
    ASSUME NEW G, Weighed(G)
    PROVE  RingsOf(Transfers(G), CircularRings(G, MaxHops))
  <1> PICK rings : rings = CircularRings(G, MaxHops)
    OBVIOUS
  <1>1. /\ \A ring \in rings :
             /\ ring.volume = Volume(G, ring.members)
             /\ ring.severity = Severity(Volume(G, ring.members) > CriticalVolume)
             /\ ring = [members |-> ring.members, volume |-> ring.volume, severity |-> ring.severity]
             /\ \E h \in 3..MaxHops : ring.members \in Cycles(Pairs(G), h)
        /\ \A h \in 3..MaxHops : \A R \in Cycles(Pairs(G), h) :
              \E ring \in rings : ring.members = R
    <2> PICK All : All = UNION {Cycles(Pairs(G), h) : h \in 3..MaxHops}
      OBVIOUS
    <2>1. rings = {[members |-> R, volume |-> Volume(G, R),
                    severity |-> Severity(Volume(G, R) > CriticalVolume)] : R \in All}
      BY Zenon DEF CircularRings
    <2>2. ASSUME NEW ring \in rings
          PROVE  /\ ring.volume = Volume(G, ring.members)
                 /\ ring.severity = Severity(Volume(G, ring.members) > CriticalVolume)
                 /\ ring = [members |-> ring.members, volume |-> ring.volume, severity |-> ring.severity]
                 /\ \E h \in 3..MaxHops : ring.members \in Cycles(Pairs(G), h)
      <3> PICK v, c : /\ v = [R \in All |-> Volume(G, R)]
                      /\ c = [R \in All |-> Severity(Volume(G, R) > CriticalVolume)]
        OBVIOUS
      <3>1. PICK R \in All : ring = [members |-> R, volume |-> v[R], severity |-> c[R]]
        BY <2>1
      <3> QED BY <3>1
    <2>3. ASSUME NEW h \in 3..MaxHops, NEW R \in Cycles(Pairs(G), h)
          PROVE  \E ring \in rings : ring.members = R
      <3>1. R \in All
        OBVIOUS
      <3> PICK ring : ring = [members |-> R, volume |-> Volume(G, R),
                              severity |-> Severity(Volume(G, R) > CriticalVolume)]
        OBVIOUS
      <3>2. ring \in rings /\ ring.members = R
        BY <2>1, <3>1
      <3> QED BY <3>2
    <2> QED BY <2>2, <2>3
  <1>2. Pairs(Transfers(G)) = Pairs(G)
    BY DEF Pairs, Transfers
  <1>3. IsFiniteSet(G)
    BY DEF Weighed
  <1>4. ASSUME NEW R \in SUBSET Pairs(G), IsRing(R)
        PROVE  \E ring \in rings : ring.members = R
    <2>1. IsFiniteSet(Pairs(G))
      <3> PICK f, Tr : Tr = Transfers(G) /\ f = [e \in Tr |-> <<e.from, e.to>>]
        OBVIOUS
      <3>1. IsFiniteSet(Tr)
        BY <1>3, FS_Subset DEF Transfers
      <3>2. f \in Surjection(Tr, Pairs(G))
        BY DEF Surjection, Pairs
      <3> QED BY <3>1, <3>2, FS_Surjection
    <2>2. IsFiniteSet(R)
      BY <2>1, FS_Subset
    <2> QED BY <1>1, <1>4, <2>2, RingInCycles
  <1>5. ASSUME NEW ring \in rings
        PROVE  /\ ring.members \subseteq Pairs(G) /\ IsRing(ring.members)
               /\ ring.volume = Moved(Transfers(G), ring.members)
    <2> PICK R : R = ring.members
      OBVIOUS
    <2>1. R \subseteq Pairs(G) /\ IsRing(R) /\ IsFiniteSet(R)
      BY <1>1, CycleIsRing
    <2>2. Volume(G, R) = Moved(Transfers(G), R)
      BY <2>1, VolumeIsMoved
    <2> QED BY <1>1, <2>1, <2>2
  <1>6. \A r1, r2 \in rings : r1.members = r2.members => r1 = r2
    BY <1>1
  <1> QED BY <1>2, <1>4, <1>5, <1>6 DEF RingsOf

LEMMA RingsLieBetween ==
    ASSUME NEW before, NEW G, NEW after, before \subseteq G, G \subseteq after, Weighed(after)
    PROVE  RingsBetween(before, after, CircularRings(G, MaxHops))
  <1> PICK since : since = Transfers(G) \ Transfers(before)
    OBVIOUS
  <1>1. since \in SUBSET (Transfers(after) \ Transfers(before))
        /\ Transfers(before) \cup since = Transfers(G)
    BY DEF Transfers
  <1>2. Weighed(G)
    BY FS_Subset DEF Weighed, Transfers
  <1> QED BY <1>1, <1>2, RingsFound DEF RingsBetween

-----------------------------------------------------------------------------
(* What a detection reports.  The rows are finitely many and the amounts   *)
(* numbers: without either a sum would say nothing.                        *)
Asked(q) ==
    /\ q.call.op = "transfer" => q.call.amount \in Int
    /\ Weighed(q.after)

RowsOK ==
    /\ IsFiniteSet(accounts) /\ IsFiniteSet(transactions)
    /\ IsFiniteSet(devices) /\ IsFiniteSet(logins)
    /\ \A t \in transactions : t.amount \in Int

DInv == NInv /\ RowsOK /\ \A r \in Requests : Asked(requests[r])

LEMMA FiniteImage ==
    ASSUME NEW S, IsFiniteSet(S), NEW f, NEW T, T = {f[x] : x \in S}
    PROVE  IsFiniteSet(T)
  <1> PICK g : g = [x \in S |-> f[x]]
    OBVIOUS
  <1>1. g \in Surjection(S, T)
    BY DEF Surjection
  <1> QED BY <1>1, FS_Surjection

LEMMA NothingWeighed == Weighed({})
  BY FS_EmptySet DEF Weighed, Transfers

LEMMA CommittedWeighed ==
    ASSUME RowsOK, NEW cutoff
    PROVE  Weighed(Committed(cutoff))
  <1> PICK A, B, C, D : /\ A = Selected(1, cutoff) /\ B = Selected(2, cutoff)
                        /\ C = Selected(3, cutoff) /\ D = Selected(4, cutoff)
    OBVIOUS
  <1>1. IsFiniteSet(A)
    <2> PICK f : f = [a \in accounts |-> Edge("OWNS", a.customer, NodeOf(a.account), a)]
      OBVIOUS
    <2>1. A = {f[a] : a \in accounts}
      BY DEF Selected, Owns
    <2> QED BY <2>1, FiniteImage DEF RowsOK
  <1>2. IsFiniteSet(B)
    <2> PICK S : S = {x \in transactions : x.at >= cutoff}
      OBVIOUS
    <2> PICK f : f = [t \in S |-> Edge("TRANSFERRED_TO", NodeOf(t.from), NodeOf(t.to), t)]
      OBVIOUS
    <2>1. B = {f[t] : t \in S}
      BY DEF Selected, TransferredTo
    <2>2. IsFiniteSet(S)
      BY FS_Subset DEF RowsOK
    <2> QED BY <2>1, <2>2, FiniteImage
  <1>3. IsFiniteSet(C)
    <2> PICK f : f = [d \in devices |-> Edge("USED_DEVICE", d.customer, NodeOf(d.device), d)]
      OBVIOUS
    <2>1. C = {f[d] : d \in devices}
      BY DEF Selected, UsedDevice
    <2> QED BY <2>1, FiniteImage DEF RowsOK
  <1>4. IsFiniteSet(D)
    <2> PICK S : S = {x \in logins : x.at >= cutoff}
      OBVIOUS
    <2> PICK f : f = [l \in S |-> Edge("LOGGED_IN_FROM", l.customer, l.address, l)]
      OBVIOUS
    <2>1. D = {f[l] : l \in S}
      BY DEF Selected, LoggedInFrom
    <2>2. IsFiniteSet(S)
      BY FS_Subset DEF RowsOK
    <2> QED BY <2>1, <2>2, FiniteImage
  <1>5. Committed(cutoff) = (A \cup B) \cup (C \cup D)
    <2>1. 1..4 = {1, 2, 3, 4}
      OBVIOUS
    <2> QED BY <2>1 DEF Committed
  <1>6. IsFiniteSet(Committed(cutoff))
    <2> PICK X, Y : X = A \cup B /\ Y = C \cup D
      OBVIOUS
    <2>1. IsFiniteSet(X) /\ IsFiniteSet(Y)
      BY <1>1, <1>2, <1>3, <1>4, FS_Union
    <2>2. IsFiniteSet(X \cup Y)
      BY <2>1, FS_Union
    <2> QED BY <1>5, <2>2
  <1>7. ASSUME NEW e \in Committed(cutoff), e.relationship = "TRANSFERRED_TO"
        PROVE  e.row.amount \in Int
    <2>1. e \notin A /\ e \notin C /\ e \notin D
      BY <1>7 DEF Selected, Owns, UsedDevice, LoggedInFrom, Edge
    <2>2. e \in B
      BY <1>5, <2>1
    <2>3. PICK t \in transactions : e = Edge("TRANSFERRED_TO", NodeOf(t.from), NodeOf(t.to), t)
      BY <2>2 DEF Selected, TransferredTo
    <2> QED BY <2>3 DEF Edge, RowsOK
  <1> QED BY <1>6, <1>7 DEF Weighed, Transfers

LEMMA RowsStayOK == DInv /\ [Next]_vars => RowsOK'
  <1> SUFFICES ASSUME DInv, [Next]_vars PROVE RowsOK'
    OBVIOUS
  <1>1. rows' = rows => RowsOK'
    BY DEF rows, DInv, RowsOK
  <1>2. ASSUME NEW r \in Requests, Transfer(r) PROVE RowsOK'
    <2> PICK call : call = requests[r].call
      OBVIOUS
    <2>1. IsFiniteSet(Opened(call.from, call.customer)) /\ IsFiniteSet(Opened(call.to, Mule))
      BY FS_EmptySet, FS_Singleton DEF Opened
    <2>2. IsFiniteSet(accounts')
      <3>1. IsFiniteSet(accounts \cup Opened(call.from, call.customer))
        BY <2>1, FS_Union DEF DInv, RowsOK
      <3> QED BY <1>2, <2>1, <3>1, FS_Union DEF Transfer
    <2> PICK t : t = [id |-> Cardinality(transactions), from |-> call.from, to |-> call.to,
                      amount |-> call.amount, at |-> now]
      OBVIOUS
    <2>3. transactions' = transactions \cup {t} /\ t.amount \in Int
      BY <1>2 DEF Transfer, DInv, Asked
    <2>4. IsFiniteSet(transactions') /\ \A u \in transactions' : u.amount \in Int
      BY <2>3, FS_AddElement DEF DInv, RowsOK
    <2>5. devices' = devices /\ logins' = logins
      BY <1>2 DEF Transfer
    <2> QED BY <2>2, <2>4, <2>5 DEF DInv, RowsOK
  <1>3. ASSUME NEW r \in Requests, Login(r) PROVE RowsOK'
    <2> PICK call : call = requests[r].call
      OBVIOUS
    <2>1. IsFiniteSet(Seen(call.device, call.customer))
      BY FS_EmptySet, FS_Singleton DEF Seen
    <2>a. devices' = devices \cup Seen(call.device, call.customer) /\ IsFiniteSet(devices)
      BY <1>3 DEF Login, DInv, RowsOK
    <2>2. IsFiniteSet(devices')
      BY <2>1, <2>a, FS_Union
    <2> PICK l : l = [id |-> Cardinality(logins), customer |-> call.customer,
                      address |-> call.address, at |-> now]
      OBVIOUS
    <2>3. logins' = logins \cup {l}
      BY <1>3 DEF Login
    <2>4. IsFiniteSet(logins')
      BY <2>3, FS_AddElement DEF DInv, RowsOK
    <2>5. accounts' = accounts /\ transactions' = transactions
      BY <1>3 DEF Login
    <2> QED BY <2>2, <2>4, <2>5 DEF DInv, RowsOK
  <1>4. ASSUME NEW r \in Requests, Receive(r) \/ Fail(r) \/ Read(r) \/ NotFound(r) \/ ToThread(r)
                                   \/ Analyse(r) \/ Send(r) \/ Flushed(r)
        PROVE  rows' = rows
    BY <1>4 DEF Receive, Fail, Read, NotFound, ToThread, Analyse, Send, Flushed, rows
  <1>5. ASSUME NEW r \in Requests, NEW t \in Topics, Deliver(r, t) \/ Expire(r, t)
        PROVE  rows' = rows
    BY <1>5 DEF Deliver, Expire, rows
  <1>6. ASSUME Start \/ Restart \/ Tick \/ UNCHANGED vars PROVE rows' = rows
    BY <1>6 DEF Start, Restart, Tick, vars, rows
  <1> QED BY <1>1, <1>2, <1>3, <1>4, <1>5, <1>6 DEF Next

(* A request keeps what it asked for, and its view once it has read.       *)
LEMMA AskedStays ==
    ASSUME DInv, NEW r \in Requests, requests'[r].call = requests[r].call,
           requests'[r].after = requests[r].after
    PROVE  Asked(requests'[r])
  BY DEF DInv, Asked

LEMMA StillAsked == DInv /\ [Next]_vars => \A r \in Requests : Asked(requests'[r])
  <1> SUFFICES ASSUME DInv, [Next]_vars, NEW s \in Requests PROVE Asked(requests'[s])
    OBVIOUS
  <1>0. /\ DOMAIN requests = Requests /\ IInv /\ RowsOK
        /\ \A r \in Requests : DOMAIN requests[r] = Fields
    BY DEF DInv, NInv, IInv
  <1>1. ASSUME NEW r \in Requests, Receive(r) PROVE Asked(requests'[s])
    <2>1. PICK call \in Calls[r] : requests' = [requests EXCEPT ![r] =
             [NoRequest EXCEPT !.call = call, !.phase = "handling", !.cutoff = now - Lookback,
                               !.before = IF ReadsGraph(call) THEN Committed(now - Lookback)
                                          ELSE {}]]
      BY <1>1 DEF Receive
    <2>2. CASE s = r
      <3>1. requests'[s].call = call /\ requests'[s].after = {}
        BY <1>0, <2>1, <2>2 DEF NoRequest
      <3>2. call.op = "transfer" => call.amount \in Int
        BY AmountsAssumption DEF Requests
      <3> QED BY <3>1, <3>2, NothingWeighed DEF Asked
    <2>3. CASE s # r
      <3>1. requests'[s] = requests[s]
        BY <1>0, <2>1, <2>3
      <3> QED BY <3>1, AskedStays
    <2> QED BY <2>2, <2>3
  <1>2. ASSUME NEW r \in Requests, NEW status, NEW answer, Respond(r, status, answer)
        PROVE  Asked(requests'[s])
    <2>1. requests'[s].call = requests[s].call /\ requests'[s].after = requests[s].after
      BY <1>0, <1>2, Replies
    <2> QED BY <2>1, AskedStays
  <1>3. ASSUME NEW r \in Requests, Transfer(r) \/ Login(r) \/ Fail(r) \/ NotFound(r) \/ Analyse(r)
        PROVE  \E status, answer : Respond(r, status, answer)
    BY <1>3 DEF Transfer, Login, Fail, NotFound, Analyse
  <1>4. ASSUME NEW r \in Requests, Read(r) PROVE Asked(requests'[s])
    <2> PICK c : c = requests[r].cutoff
      OBVIOUS
    <2>1. /\ requests'[s].call = requests[s].call
          /\ requests'[s].after \in {requests[s].after, Committed(c), {}}
      BY <1>0, <1>4 DEF Read, Fields, NoRequest
    <2>2. Weighed(Committed(c)) /\ Weighed({}) /\ Asked(requests[s])
      BY <1>0, CommittedWeighed, NothingWeighed DEF DInv
    <2> QED BY <2>1, <2>2 DEF Asked
  <1>5. ASSUME NEW r \in Requests, ToThread(r) PROVE Asked(requests'[s])
    <2>1. requests'[s].call = requests[s].call /\ requests'[s].after = requests[s].after
      BY <1>0, <1>5 DEF ToThread, Fields, NoRequest
    <2> QED BY <2>1, AskedStays
  <1>6. CASE Restart
    <2>1. requests'[s].call = requests[s].call /\ requests'[s].after = requests[s].after
      BY <1>0, <1>6 DEF Restart, Fields, NoRequest
    <2> QED BY <2>1, AskedStays
  <1>7. requests' = requests => Asked(requests'[s])
    BY AskedStays
  <1>8. ASSUME NEW r \in Requests, Send(r) \/ Flushed(r) PROVE requests' = requests
    BY <1>8 DEF Send, Flushed
  <1>9. ASSUME NEW r \in Requests, NEW t \in Topics, Deliver(r, t) \/ Expire(r, t)
        PROVE  requests' = requests
    BY <1>9 DEF Deliver, Expire
  <1>10. ASSUME Start \/ Tick \/ UNCHANGED vars PROVE requests' = requests
    BY <1>10 DEF Start, Tick, vars
  <1> QED BY <1>1, <1>2, <1>3, <1>4, <1>5, <1>6, <1>7, <1>8, <1>9, <1>10 DEF Next

LEMMA InitAsked == Init => DInv
  <1> SUFFICES ASSUME Init PROVE DInv
    OBVIOUS
  <1>1. \A r \in Requests : Asked(requests[r])
    BY NothingWeighed DEF Init, NoRequest, Asked
  <1>2. /\ IsFiniteSet(transactions) /\ IsFiniteSet(devices) /\ IsFiniteSet(logins)
        /\ \A t \in transactions : t.amount \in Int
    BY HistoriesAssumption, AmountsAssumption DEF Init
  <1>3. IsFiniteSet(accounts)
    <2> PICK f, g, A, B : /\ f = [t \in transactions |-> t.from] /\ A = {f[t] : t \in transactions}
                          /\ g = [t \in transactions |-> t.to] /\ B = {g[t] : t \in transactions}
      OBVIOUS
    <2>1. IsFiniteSet(A) /\ IsFiniteSet(B)
      BY <1>2, FiniteImage
    <2>2. IsFiniteSet(A \cup B)
      BY <2>1, FS_Union
    <2>3. A \cup B = UNION {{t.from, t.to} : t \in transactions}
      OBVIOUS
    <2> PICK C : C = A \cup B
      OBVIOUS
    <2> PICK h : h = [a \in C |-> [customer |-> Mule, account |-> a]]
      OBVIOUS
    <2>4. accounts = {[customer |-> Mule, account |-> a] : a \in C}
      BY <2>3 DEF Init
    <2>5. accounts = {h[a] : a \in C}
      BY <2>4
    <2>6. IsFiniteSet(C)
      BY <2>2
    <2>7. h \in Surjection(C, accounts)
      BY <2>5 DEF Surjection
    <2> QED BY <2>6, <2>7, FS_Surjection
  <1> QED BY <1>1, <1>2, <1>3, InitBrackets DEF DInv, RowsOK

LEMMA StepAsked == DInv /\ [Next]_vars => DInv'
  BY RowsStayOK, StillAsked, StepBrackets DEF DInv

(* DetectionBetween: for finite histories, any requests that commit between *)
(* the four reads, amounts of any sign and any parameters, the rings of a  *)
(* detection are exactly the cycles of the transfers it has read, each     *)
(* once and with its volume, and those are all that were there before it   *)
(* and some that came since; its clusters lie in between as well.          *)
THEOREM DetectionsBetween == Spec => []DetectionBetween
  <1>1. DInv => DetectionBetween
    <2> SUFFICES ASSUME DInv, NEW r \in Requests, requests[r].call.op = "detect",
                        requests[r].status = 200
                 PROVE  /\ RingsBetween(requests[r].before, requests[r].after, requests[r].answer.rings)
                        /\ ClustersBetween(requests[r].before, requests[r].after,
                                           requests[r].answer.clusters)
      BY DEF DetectionBetween
    <2> PICK q : q = requests[r]
      OBVIOUS
    <2>1. Replied(q)
      BY DEF DInv, NInv, Bracketed, Reading
    <2>2. PICK G : AnalysisOf(q, G)
      BY <2>1 DEF Replied, ReadsGraph
    <2>3. /\ q.before \subseteq G /\ G \subseteq q.after
          /\ q.answer.rings = CircularRings(G, MaxHops)
          /\ q.answer.clusters = SharedClusters(G, MinShared)
      BY <2>2 DEF AnalysisOf, Result
    <2>4. Weighed(q.after) /\ IsFiniteSet(q.after)
      BY DEF DInv, Asked, Weighed
    <2> QED BY <2>3, <2>4, RingsLieBetween, ClustersLieBetween
  <1>2. Spec => []DInv
    BY InitAsked, StepAsked, PTL DEF Spec
  <1> QED BY <1>1, <1>2, PTL
=============================================================================
