-------------------------- MODULE SecondaryEngine --------------------------
(***************************************************************************)
(* The secondary risk engine: a process with one consumer thread per topic *)
(* that scores the same raw events as the Flink engine, in memory only.    *)
(*                                                                         *)
(* A thread reads the wall clock when it takes a message, resolves the     *)
(* identity without the lock, and scores under the lock, which it keeps    *)
(* while it waits for the broker to take an alert.  The processing time    *)
(* the thread read is the event's time: a thread that waited for the lock  *)
(* scores with a time older than what others have scored meanwhile.        *)
(***************************************************************************)
EXTENDS Integers, Sequences, FiniteSets

CONSTANTS None, Customers, Accounts, Addresses,
          Messages,         \* what the topics may carry
          Weight,           \* RISK_WEIGHTS, in the unit of the scores
          AlertThreshold, CriticalThreshold, DecaySec, CooldownSec,
          TravelWindow, FailedLoginWindow, FailedLoginThreshold,
          VelocityWindow, VelocityThreshold, ApiRateWindow, ApiRateThreshold,
          MaxRetained,      \* MAX_RETAINED_TIMESTAMPS (50 in the code)
          MaxIndicators,    \* maxlen of the indicator deque (8 in the code)
          MaxTime, MaxMessages, MaxCrashes, MaxFailures   \* bounds

VARIABLES wall,       \* time.time()
          accounts,   \* account_to_customer; None is no entry
          profiles,   \* risk_state, a dictionary: its keys are the identities seen
          threads,    \* the consumer threads, by topic
          alerts,     \* what the two output topics hold
          scored,     \* history: the events scored in this life, in order
          owed,       \* history: identity |-> indicators no alert has carried yet
          received, crashes, failures   \* counters of the bounds

vars == <<wall, accounts, profiles, threads, alerts, scored, owed,
          received, crashes, failures>>

Topics == {"api_requests", "banking.login_events", "banking.transactions", "banking.accounts"}

IndicatorNames == {"NEW_DEVICE", "NEW_COUNTRY", "IMPOSSIBLE_TRAVEL", "MULTIPLE_FAILED_LOGINS",
                   "LARGE_TRANSFER_AMOUNT", "VELOCITY_VIOLATION", "SUSPICIOUS_API_PATTERN"}

ASSUME WeightAssumption == Weight \in [IndicatorNames -> Nat]
ASSUME PeriodsAssumption == DecaySec \in Nat \ {0} /\ CooldownSec \in Nat \ {0}
ASSUME BoundsAssumption == MaxRetained \in Nat /\ MaxIndicators \in Nat
ASSUME VelocityAssumption == VelocityWindow \in Nat /\ VelocityThreshold \in 1..MaxRetained
ASSUME MessagesAssumption ==
    \A m \in Messages :
        /\ m.topic \in Topics
        /\ m.subject # None => m.subject \in CASE m.topic = "banking.login_events" -> Customers
                                              [] m.topic = "api_requests" -> Addresses
                                              [] OTHER -> Accounts
        /\ m.topic = "banking.accounts" => m.customer \in Customers \cup {None}

Identities == Customers \cup ({"acct"} \X Accounts) \cup ({"ip"} \X Addresses)

-----------------------------------------------------------------------------
NewProfile == [score |-> 0, lastDecay |-> wall, indicators |-> <<>>, lastDevice |-> None,
               lastCountry |-> None, lastLogin |-> 0, lastAlert |-> 0,
               failedLogins |-> <<>>, transactions |-> <<>>, apiRequests |-> <<>>]

LastN(s, n) == SubSeq(s, IF Len(s) > n THEN Len(s) - n + 1 ELSE 1, Len(s))

(* _prune: from the left, up to the first that is not too old. *)
Pruned(times, cutoff) ==
    LET first == CHOOSE k \in 1..Len(times) + 1 :
                    /\ \A j \in 1..k - 1 : times[j] < cutoff
                    /\ k <= Len(times) => times[k] >= cutoff
    IN  SubSeq(times, first, Len(times))

(* Mutant: a window that excludes its start. *)
RecordedStrict(times, now, window) ==
    Pruned(LastN(Append(times, now), MaxRetained), now - window + 1)

(* deque.append and _prune. *)
Recorded(times, now, window) == Pruned(LastN(Append(times, now), MaxRetained), now - window)

(* _apply_decay: the anchor moves to the time of the event that decays. *)
PowersOfTwo == <<1, 2, 4, 8, 16, 32, 64, 128, 256, 512, 1024>>

Halvings(p, now) ==
    LET intervals == (now - p.lastDecay) \div DecaySec
    IN  IF intervals > 10 THEN 10 ELSE intervals

Decayed(p, now) ==
    IF Halvings(p, now) > 0
    THEN [p EXCEPT !.score = @ \div PowersOfTwo[Halvings(p, now) + 1], !.lastDecay = now]
    ELSE p

(* _resolve_identity on what each handler passes it. *)
IdentityOf(m) ==
    CASE m.subject = None -> None
      [] m.topic = "banking.login_events" -> m.subject
      [] m.topic = "banking.transactions" ->
            IF accounts[m.subject] # None THEN accounts[m.subject] ELSE <<"acct", m.subject>>
      [] m.topic = "api_requests" -> <<"ip", m.subject>>

(* A row deleted has no after-image, a login or transfer without a subject *)
(* no identity, and only the sensitive endpoints are counted.              *)
Ignored(m) == m.deleted \/ m.subject = None \/ (m.topic = "api_requests" /\ ~m.sensitive)

Changed(old, new) == old # None /\ new # None /\ old # new

If(condition, indicator) == IF condition THEN <<indicator>> ELSE <<>>

(* The handlers, from the decayed profile p: the indicators they add, in   *)
(* order, and the lists and fields they leave.                             *)
Observed(p, m, now) ==
    CASE m.topic = "banking.login_events" ->
            [p EXCEPT !.lastDevice = IF m.device # None THEN m.device ELSE @,
                      !.lastCountry = IF m.country # None THEN m.country ELSE @,
                      !.lastLogin = now,
                      !.failedLogins = IF m.success THEN @
                                       ELSE Recorded(@, now, FailedLoginWindow)]
      [] m.topic = "banking.transactions" ->
            [p EXCEPT !.transactions = Recorded(@, now, VelocityWindow)]
      [] m.topic = "api_requests" ->
            [p EXCEPT !.apiRequests = Recorded(@, now, ApiRateWindow)]

Indicators(p, m, now) ==
    LET q == Observed(p, m, now)
        newCountry == Changed(p.lastCountry, m.country)
    IN  CASE m.topic = "banking.login_events" ->
               If(Changed(p.lastDevice, m.device), "NEW_DEVICE")
               \o If(newCountry, "NEW_COUNTRY")
               \o If(newCountry /\ p.lastLogin > 0 /\ now - p.lastLogin < TravelWindow,
                     "IMPOSSIBLE_TRAVEL")
               \o If(~m.success /\ Len(q.failedLogins) >= FailedLoginThreshold,
                     "MULTIPLE_FAILED_LOGINS")
          [] m.topic = "banking.transactions" ->
               If(m.large, "LARGE_TRANSFER_AMOUNT")
               \o If(Len(q.transactions) >= VelocityThreshold, "VELOCITY_VIOLATION")
          [] m.topic = "api_requests" ->
               If(Len(q.apiRequests) >= ApiRateThreshold, "SUSPICIOUS_API_PATTERN")

Total(indicators) ==
    LET sum[k \in 0..Len(indicators)] ==
          IF k = 0 THEN 0 ELSE sum[k - 1] + Weight[indicators[k]]
    IN  sum[Len(indicators)]

Scored(p, m, now) ==
    LET added == Indicators(p, m, now)
    IN  [Observed(p, m, now) EXCEPT !.score = @ + Total(added),
                                    !.indicators = LastN(@ \o added, MaxIndicators)]

(* Mutant: an alert is held back only while its predecessor's clock        *)
(* window lasts.                                                           *)
AlertingByWindow(p, now) ==
    p.score >= AlertThreshold /\ now \div CooldownSec # p.lastAlert \div CooldownSec
Alerting(p, now) == p.score >= AlertThreshold /\ now - p.lastAlert >= CooldownSec

Alert(identity, p, now) ==
    [identity |-> identity, window |-> now \div CooldownSec, time |-> now, life |-> crashes,
     severity |-> IF p.score >= CriticalThreshold THEN "CRITICAL" ELSE "FRAUD",
     score |-> p.score, indicators |-> p.indicators]

(* Mutant: the score outlives its alert. *)
SilencedKeepingScore(p, now) == [p EXCEPT !.lastAlert = now, !.indicators = <<>>]
Silenced(p, now) == [p EXCEPT !.lastAlert = now, !.score = 0, !.indicators = <<>>]

-----------------------------------------------------------------------------
Polling == [pc |-> "poll"]

Init ==
    /\ wall = CooldownSec
    /\ accounts = [a \in Accounts |-> None]
    /\ profiles = [i \in {} |-> NewProfile]
    /\ threads = [t \in Topics |-> Polling]
    /\ alerts = <<>> /\ scored = <<>>
    /\ owed = [i \in Identities |-> <<>>]
    /\ received = 0 /\ crashes = 0 /\ failures = 0

(* A message reaches the thread of its topic, which reads the clock. *)
Receive(m) ==
    /\ received < MaxMessages
    /\ threads[m.topic].pc = "poll"
    /\ received' = received + 1
    /\ threads' = [threads EXCEPT ![m.topic] = [pc |-> "resolve", message |-> m, now |-> wall]]
    /\ UNCHANGED <<wall, accounts, profiles, alerts, scored, owed, crashes, failures>>

(* handle_account_cdc runs without the lock.  It is handed the after-image *)
(* of the row, which a delete does not have.                               *)
MapAccount ==
    LET t == threads["banking.accounts"]
    IN  /\ t.pc = "resolve"
        /\ accounts' = IF ~Ignored(t.message) /\ t.message.customer # None
                       THEN [accounts EXCEPT ![t.message.subject] = t.message.customer]
                       ELSE accounts
        /\ threads' = [threads EXCEPT !["banking.accounts"] = Polling]
        /\ UNCHANGED <<wall, profiles, alerts, scored, owed, received, crashes, failures>>

(* The early returns, and the identity, both before the lock is taken. *)
Resolve(topic) ==
    LET t == threads[topic]
    IN  /\ topic # "banking.accounts"
        /\ t.pc = "resolve"
        /\ threads' = [threads EXCEPT ![topic] =
                IF Ignored(t.message) THEN Polling
                ELSE [pc |-> "enter", message |-> t.message, now |-> t.now,
                      identity |-> IdentityOf(t.message)]]
        /\ UNCHANGED <<wall, accounts, profiles, alerts, scored, owed,
                       received, crashes, failures>>

(* Mutant: the handlers score without the lock. *)
NoLock == TRUE
LockFree == \A t \in Topics : threads[t].pc # "flush"

(* Under the lock: decay, indicators, and the decision to alert, with      *)
(* which the thread goes on to the broker without giving the lock back.    *)
Score(topic) ==
    /\ threads[topic].pc = "enter"
    /\ LockFree
    /\ LET t == threads[topic]
           i == t.identity
           before == Decayed(IF i \in DOMAIN profiles THEN profiles[i] ELSE NewProfile, t.now)
           added  == Indicators(before, t.message, t.now)
           p      == Scored(before, t.message, t.now)
       IN  /\ profiles' = [j \in DOMAIN profiles \cup {i} |->
                             IF j = i THEN p ELSE profiles[j]]
           /\ owed' = [owed EXCEPT ![i] = @ \o added]
           /\ scored' = Append(scored, [topic |-> topic, identity |-> i, time |-> t.now,
                                        indicators |-> {added[k] : k \in 1..Len(added)}])
           /\ threads' = [threads EXCEPT ![topic] =
                  IF Alerting(p, t.now)
                  THEN [pc |-> "flush", identity |-> i, now |-> t.now,
                        alert |-> Alert(i, p, t.now), carried |-> Len(owed'[i])]
                  ELSE Polling]
    /\ UNCHANGED <<wall, accounts, alerts, received, crashes, failures>>

(* What follows flush(), whether the broker took the alert or the producer *)
(* gave it up: the alert counts as sent, and the lock is released.         *)
Release(topic) ==
    LET t == threads[topic]
    IN  /\ profiles' = [profiles EXCEPT ![t.identity] = Silenced(@, t.now)]
        /\ owed' = [owed EXCEPT ![t.identity] = SubSeq(@, t.carried + 1, Len(@))]
        /\ threads' = [threads EXCEPT ![topic] = Polling]

Flush(topic) ==
    /\ threads[topic].pc = "flush"
    /\ alerts' = Append(alerts, threads[topic].alert)
    /\ Release(topic)
    /\ UNCHANGED <<wall, accounts, scored, received, crashes, failures>>

(* The message times out in the producer's queue: flush() returns all the  *)
(* same.                                                                   *)
FlushLost(topic) ==
    /\ threads[topic].pc = "flush"
    /\ failures < MaxFailures
    /\ failures' = failures + 1
    /\ Release(topic)
    /\ UNCHANGED <<wall, accounts, alerts, scored, received, crashes>>

(* produce() raises: consume_topic swallows the exception, and the profile *)
(* keeps its score and its indicators.                                     *)
ProduceRaises(topic) ==
    /\ threads[topic].pc = "flush"
    /\ failures < MaxFailures
    /\ failures' = failures + 1
    /\ threads' = [threads EXCEPT ![topic] = Polling]
    /\ UNCHANGED <<wall, accounts, profiles, alerts, scored, owed, received, crashes>>

(* The process dies, perhaps with an alert on its way, and all of its      *)
(* memory with it.                                                         *)
Restart ==
    /\ crashes < MaxCrashes
    /\ crashes' = crashes + 1
    /\ alerts' \in {alerts} \cup {Append(alerts, threads[t].alert) :
                                   t \in {u \in Topics : threads[u].pc = "flush"}}
    /\ accounts' = [a \in Accounts |-> None]
    /\ profiles' = [i \in {} |-> NewProfile]
    /\ threads' = [t \in Topics |-> Polling]
    /\ scored' = <<>>
    /\ owed' = [i \in Identities |-> <<>>]
    /\ UNCHANGED <<wall, received, failures>>

Tick ==
    /\ wall < MaxTime
    /\ wall' = wall + 1
    /\ UNCHANGED <<accounts, profiles, threads, alerts, scored, owed,
                   received, crashes, failures>>

Work(topic) ==
    \/ topic = "banking.accounts" /\ MapAccount
    \/ Resolve(topic)
    \/ Score(topic)
    \/ Flush(topic)

Next ==
    \/ \E m \in Messages : Receive(m)
    \/ \E topic \in Topics : Work(topic) \/ FlushLost(topic) \/ ProduceRaises(topic)
    \/ Restart
    \/ Tick

Spec == Init /\ [][Next]_vars

-----------------------------------------------------------------------------
ProfileType ==
    [score : Nat, lastDecay : 0..wall, indicators : Seq(IndicatorNames),
     lastDevice : {m.device : m \in Messages} \cup {None},
     lastCountry : {m.country : m \in Messages} \cup {None},
     lastLogin : 0..wall, lastAlert : 0..wall,
     failedLogins : Seq(0..wall), transactions : Seq(0..wall), apiRequests : Seq(0..wall)]

AlertType == [identity : Identities, window : Nat, time : 0..wall, life : 0..crashes,
              severity : {"FRAUD", "CRITICAL"}, score : Nat, indicators : Seq(IndicatorNames)]

ThreadType ==
    {Polling}
    \cup [pc : {"resolve"}, message : Messages, now : 0..wall]
    \cup [pc : {"enter"}, message : Messages, now : 0..wall, identity : Identities]
    \cup [pc : {"flush"}, identity : Identities, now : 0..wall, alert : AlertType,
          carried : Nat]

(* The threads' locals and the process's memory have the types the code    *)
(* gives them; no deque outgrows its maxlen; at most one thread holds the  *)
(* lock, and the profile it is about to reset exists.                      *)
TypeOK ==
    /\ wall \in Nat
    /\ accounts \in [Accounts -> Customers \cup {None}]
    /\ DOMAIN profiles \subseteq Identities
    /\ \A i \in DOMAIN profiles :
         /\ profiles[i] \in ProfileType
         /\ Len(profiles[i].indicators) <= MaxIndicators
         /\ \A s \in {profiles[i].failedLogins, profiles[i].transactions,
                       profiles[i].apiRequests} : Len(s) <= MaxRetained
    /\ threads \in [Topics -> ThreadType]
    /\ \A t, u \in Topics : threads[t].pc = "flush" =>
         /\ threads[t].identity \in DOMAIN profiles
         /\ threads[u].pc = "flush" => t = u
    /\ alerts \in Seq(AlertType)
    /\ owed \in [Identities -> Seq(IndicatorNames)]
    /\ received \in Nat /\ crashes \in Nat /\ failures \in Nat

(* _maybe_alert's cooldown, by the times the threads read before they      *)
(* waited for the lock: within one life of the process, two alerts of an   *)
(* identity are CooldownSec apart, and so carry different alert ids.       *)
CooldownSpacing ==
    \A j, k \in 1..Len(alerts) :
        j < k /\ alerts[j].identity = alerts[k].identity /\ alerts[j].life = alerts[k].life
            => /\ alerts[k].time >= alerts[j].time + CooldownSec
               /\ alerts[k].window # alerts[j].window

(* The lock keeps an alert and the reset that follows it together: an      *)
(* indicator leaves a profile only with the alert that carries it (or      *)
(* pushed out by newer ones), whatever the other threads add to the        *)
(* profile while the producer flushes.                                     *)
NoIndicatorLost ==
    \A i \in DOMAIN profiles : profiles[i].indicators = LastN(owed[i], MaxIndicators)

(* What stands against an identity. *)
Standing(i) ==
    IF i \in DOMAIN profiles
    THEN [score |-> profiles[i].score, indicators |-> profiles[i].indicators,
          lastAlert |-> profiles[i].lastAlert]
    ELSE [score |-> 0, indicators |-> <<>>, lastAlert |-> 0]

(* Deciding to alert, waiting for the broker and resetting the profile are *)
(* steps of a thread among other threads, and look like one: an alert that *)
(* reaches the broker, however long it was on its way, tells what stands   *)
(* against the identity at that moment, is due at that moment, and is      *)
(* followed by a clean profile.                                            *)
Engine == INSTANCE AtomicAlerts WITH clock <- wall, life <- crashes,
                                     standing <- [i \in Identities |-> Standing(i)]
ImplementsAtomicAlerts == Engine!Spec

(* An alert's score never exceeds what the indicators it names account     *)
(* for, as long as the deque had room for all of them.                     *)
AlertExplained ==
    \A k \in 1..Len(alerts) :
        Len(alerts[k].indicators) < MaxIndicators =>
            alerts[k].score <= Total(alerts[k].indicators)

ScoredOf(topic, i, n) == {k \in 1..n : scored[k].topic = topic /\ scored[k].identity = i}

(* VELOCITY_VIOLATION is raised exactly by the transaction that has        *)
(* VelocityThreshold transactions of its identity within the window, its   *)
(* own included: neither the wait for the lock nor the other topics'       *)
(* threads disturb the count.                                              *)
VelocityExact ==
    \A n \in 1..Len(scored) :
        scored[n].topic = "banking.transactions" =>
          ("VELOCITY_VIOLATION" \in scored[n].indicators <=>
            Cardinality({k \in ScoredOf("banking.transactions", scored[n].identity, n) :
                          scored[n].time - scored[k].time <= VelocityWindow})
              >= VelocityThreshold)
=============================================================================
