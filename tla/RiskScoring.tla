---------------------------- MODULE RiskScoring ----------------------------
(***************************************************************************)
(* RiskScoringProcessor: the keyed operator of the Flink risk engine.      *)
(*                                                                         *)
(* Flink partitions the operator's state and its timers by identity, so    *)
(* the module models ONE identity; the other identities are felt only      *)
(* through the watermark, which they may advance at any time.  Every event *)
(* carries an event time up to MaxLag behind the wall clock: events of an  *)
(* identity arrive late, out of order and, because the engine replays its  *)
(* input from the last checkpoint, more than once.                         *)
(*                                                                         *)
(* Event time drives decay, cooldown and the windows of the indicators;    *)
(* the state's TTL runs on the wall clock.                                 *)
(***************************************************************************)
EXTENDS RiskIndicators, FiniteSets

CONSTANTS Keys,              \* dedup keys of the identity's events; None is no key
          Rows,              \* the event bodies the identity may produce
          AlertThreshold, CriticalThreshold,
          Cooldown, TTL, Decay,
          OutOfOrder,        \* bound of the watermark strategy (300 s)
          MaxLag,            \* how far an event's time trails the wall clock
          Gaps, MaxTime,     \* how the wall clock advances, and until when
          MaxEvents          \* bound on the number of events delivered

VARIABLES profile,    \* RiskProfileState: the scoring fields, and when it was written
          memory,     \* RiskProfileState: the behaviour fields (see RiskIndicators)
          seen,       \* seenEventKeys: records of key, event time, time written
          emitted,    \* emittedAlertIds: records of alert id, event time, time written
          timers,     \* registered event-time timers
          watermark,  \* the operator's event-time clock
          firing,     \* TRUE while the timers up to the watermark are being fired
          wall,       \* processing time
          alerts,     \* output of the operator
          scored,     \* history: the events that were scored, in order
          delivered   \* events delivered so far

vars == <<profile, memory, seen, emitted, timers, watermark, firing, wall,
          alerts, scored, delivered>>

ASSUME KeysAssumption == None \notin Keys
ASSUME RowsAssumption == \A row \in Rows : row.indicator \in IndicatorNames \cup {None}
ASSUME PeriodsAssumption ==
    /\ Cooldown \in Nat \ {0} /\ Decay \in Nat \ {0} /\ TTL \in Nat \ {0}
    /\ OutOfOrder \in Nat /\ MaxTime \in Nat /\ MaxEvents \in Nat
    /\ Gaps \subseteq Nat \ {0}
ASSUME ThresholdAssumption == AlertThreshold \in Nat /\ CriticalThreshold \in Nat

(* No event trails the wall clock by so much that the state which remembers *)
(* the last alert may have expired while its cooldown still runs.           *)
ASSUME LagAssumption == MaxLag \in Nat /\ MaxLag + Cooldown <= TTL

Severities == {"FRAUD", "CRITICAL"}

Events == [key : Keys \cup {None}, time : Nat, row : Rows]

NoProfile == [score |-> 0, lastScoreTs |-> 0, lastAlertTs |-> 0, lastDecay |-> 0,
              nextTimer |-> 0, written |-> 0]

-----------------------------------------------------------------------------
(* State under a TTL (OnCreateAndWrite, NeverReturnExpired): what is not    *)
(* written for TTL reads as absent.                                         *)
Expired(written) == wall - written >= TTL

Profile == IF Expired(profile.written) THEN NoProfile ELSE profile
Memory  == IF Expired(profile.written) THEN NoMemory ELSE memory

(* Mutant: the keys are kept for the cooldown only. *)
PrunedEarly(entries, now) == {s \in entries : ~Expired(s.written) /\ now - s.ts < Cooldown}

(* pruneOlderThan, on top of the TTL of the entries. *)
Pruned(entries, now) == {s \in entries : ~Expired(s.written) /\ now - s.ts <= TTL}

Duplicate(e) == \E s \in Pruned(seen, e.time) : s.key = e.key

Remember(e) ==
    IF e.key = None THEN Pruned(seen, e.time)
    ELSE Pruned(seen, e.time) \cup {[key |-> e.key, ts |-> e.time, written |-> wall]}

-----------------------------------------------------------------------------
(* applyDecay: at most MaxDecaySteps halvings, and the anchor moves by the  *)
(* intervals that were halved, not to `now'.                                *)
MaxDecaySteps == 10
PowersOfTwo == <<1, 2, 4, 8, 16, 32, 64, 128, 256, 512, 1024>>

Anchor(p) == IF p.lastDecay > 0 THEN p.lastDecay ELSE p.lastScoreTs

DecaySteps(p, now) ==
    IF Anchor(p) = 0 \/ now <= Anchor(p) THEN 0
    ELSE IF (now - Anchor(p)) \div Decay > MaxDecaySteps THEN MaxDecaySteps
    ELSE (now - Anchor(p)) \div Decay

Decayed(p, now) ==
    IF Anchor(p) = 0 THEN [p EXCEPT !.lastDecay = now]
    ELSE IF DecaySteps(p, now) = 0 THEN p
    ELSE [p EXCEPT !.score = @ \div PowersOfTwo[DecaySteps(p, now) + 1],
                   !.lastDecay = Anchor(p) + DecaySteps(p, now) * Decay]

-----------------------------------------------------------------------------
(* The profile once the event's indicators are added, and once a decay     *)
(* timer is pending for a live score.                                      *)
WithPoints(p, indicators, now) ==
    IF indicators = {} THEN p
    ELSE [p EXCEPT !.score = @ + WeightSum(indicators), !.lastScoreTs = now]

NeedsTimer(p, now) == p.score > 0 /\ p.nextTimer <= now

(* Mutant: a zero decay interval. *)
SameTime(now) == now
NextTimer(now) == now + Decay

Severity(score) == IF score >= CriticalThreshold THEN "CRITICAL" ELSE "FRAUD"

(* Mutant: one id per severity. *)
AlertIdOfSeverity(score, now) == <<Severity(score), 0>>

(* buildDeterministicAlertId: one id per severity and cooldown window. *)
AlertId(score, now) == <<Severity(score), now \div Cooldown>>

CooldownExpired(p, now) == p.lastAlertTs = 0 \/ now - p.lastAlertTs >= Cooldown

MayAlert(p, now) == p.score > AlertThreshold /\ CooldownExpired(p, now)

(* Mutant: the alert ids alone space the alerts. *)
AlertingOncePerId(p, now) ==
    /\ p.score > AlertThreshold
    /\ \A a \in Pruned(emitted, now) : a.id # AlertId(p.score, now)

Alerting(p, now) ==
    /\ MayAlert(p, now)
    /\ \A a \in Pruned(emitted, now) : a.id # AlertId(p.score, now)

Alert(p, now) == [id |-> AlertId(p.score, now), time |-> now,
                  severity |-> Severity(p.score), score |-> p.score]

(* Mutant: a suppressed alert restarts the cooldown. *)
EmitAlertSliding(p, now) ==
    /\ profile' = [p EXCEPT !.lastAlertTs = IF p.score > AlertThreshold THEN now ELSE @,
                            !.written = wall]
    /\ IF Alerting(p, now)
       THEN /\ alerts' = Append(alerts, Alert(p, now))
            /\ emitted' = Pruned(emitted, now)
                 \cup {[id |-> AlertId(p.score, now), ts |-> now, written |-> wall]}
       ELSE UNCHANGED <<alerts, emitted>>

(* The tail of processElement: scored profile p, before alerting. *)
EmitAlert(p, now) ==
    IF Alerting(p, now)
    THEN /\ alerts' = Append(alerts, Alert(p, now))
         /\ emitted' = Pruned(emitted, now)
              \cup {[id |-> AlertId(p.score, now), ts |-> now, written |-> wall]}
         /\ profile' = [p EXCEPT !.lastAlertTs = now, !.written = wall]
    ELSE /\ emitted' = IF MayAlert(p, now) THEN Pruned(emitted, now) ELSE emitted
         /\ alerts' = alerts
         /\ profile' = [p EXCEPT !.written = wall]

-----------------------------------------------------------------------------
Init ==
    /\ profile = NoProfile
    /\ memory = NoMemory
    /\ seen = {} /\ emitted = {} /\ timers = {}
    /\ watermark = 0 /\ firing = FALSE
    /\ wall = MaxLag + 1
    /\ alerts = <<>> /\ scored = <<>> /\ delivered = 0

(* An event reaches the operator between two watermarks. *)
Arrives(e) ==
    /\ ~firing
    /\ delivered < MaxEvents
    /\ e \in Events
    /\ e.time \in (wall - MaxLag)..wall
    /\ delivered' = delivered + 1

(* processElement, early return: a key already seen.  The profile is still *)
(* written back, which renews its TTL and creates it if it had expired.    *)
DropDuplicate(e) ==
    /\ Arrives(e)
    /\ Duplicate(e)
    /\ seen' = Pruned(seen, e.time)
    /\ profile' = [Profile EXCEPT !.written = wall]
    /\ memory' = Memory
    /\ UNCHANGED <<emitted, timers, watermark, firing, wall, alerts, scored>>

(* processElement, the whole of it. *)
ScoreEvent(e) ==
    /\ Arrives(e)
    /\ ~Duplicate(e)
    /\ seen' = Remember(e)
    /\ LET indicators == DeriveIndicators(e.row, e.time, Memory)
           p == WithPoints(Decayed(Profile, e.time), indicators, e.time)
           next == NextTimer(e.time)
       IN  /\ memory' = MemoryAfter(e.row, e.time, Memory)
           /\ IF NeedsTimer(p, e.time)
              THEN /\ timers' = timers \cup {next}
                   /\ EmitAlert([p EXCEPT !.nextTimer = next], e.time)
              ELSE /\ timers' = timers
                   /\ EmitAlert(p, e.time)
           /\ scored' = Append(scored,
                [event |-> e, wall |-> wall, indicators |-> indicators,
                 halvings |-> DecaySteps(Profile, e.time)])
    /\ UNCHANGED <<watermark, firing, wall>>

(* The watermark trails the largest event time of the job's input, all     *)
(* identities included, by OutOfOrder and one more.                        *)
AdvanceWatermark(w) ==
    /\ ~firing
    /\ w > watermark
    /\ w < wall - OutOfOrder
    /\ watermark' = w
    /\ firing' = TRUE
    /\ UNCHANGED <<profile, memory, seen, emitted, timers, wall, alerts, scored, delivered>>

Earliest(t) == t \in timers /\ \A u \in timers : t <= u

(* Mutant: onTimer names the next timer in the profile and does not register it. *)
FireTimerUnregistered(t) ==
    /\ firing /\ Earliest(t) /\ t <= watermark
    /\ timers' = timers \ {t}
    /\ profile' = IF Expired(profile.written) THEN profile
                  ELSE [Decayed(profile, t) EXCEPT !.nextTimer = NextTimer(t), !.written = wall]
    /\ UNCHANGED <<memory, seen, emitted, watermark, firing, wall, alerts, scored, delivered>>

(* onTimer: Flink fires the timers up to the watermark one at a time in    *)
(* time order, those registered meanwhile included.                        *)
FireTimer(t) ==
    /\ firing
    /\ Earliest(t)
    /\ t <= watermark
    /\ IF Expired(profile.written)
       THEN /\ timers' = timers \ {t}
            /\ UNCHANGED profile
       ELSE LET p == Decayed(profile, t)
                next == NextTimer(t)
            IN  IF p.score > 0
                THEN /\ timers' = (timers \ {t}) \cup {next}
                     /\ profile' = [p EXCEPT !.nextTimer = next, !.written = wall]
                ELSE /\ timers' = timers \ {t}
                     /\ profile' = [p EXCEPT !.nextTimer = 0, !.written = wall]
    /\ UNCHANGED <<memory, seen, emitted, watermark, firing, wall, alerts, scored, delivered>>

TimersDone ==
    /\ firing
    /\ \A t \in timers : t > watermark
    /\ firing' = FALSE
    /\ UNCHANGED <<profile, memory, seen, emitted, timers, watermark, wall, alerts,
                   scored, delivered>>

(* Processing time passes between events; the TTL of the state runs on it. *)
Tick(gap) ==
    /\ ~firing
    /\ wall + gap <= MaxTime
    /\ wall' = wall + gap
    /\ UNCHANGED <<profile, memory, seen, emitted, timers, watermark, firing, alerts,
                   scored, delivered>>

EventsNow == [key : Keys \cup {None}, time : (wall - MaxLag)..wall, row : Rows]

Next ==
    \/ \E e \in EventsNow : DropDuplicate(e) \/ ScoreEvent(e)
    \/ \E w \in 0..wall : AdvanceWatermark(w)
    \/ \E t \in timers : FireTimer(t)
    \/ TimersDone
    \/ \E gap \in Gaps : Tick(gap)

Spec == Init /\ [][Next]_vars

(* Flink's timer service runs the due timers to completion before it takes *)
(* the next element.                                                       *)
FairSpec == Spec /\ WF_vars(TimersDone \/ \E t \in timers : FireTimer(t))

-----------------------------------------------------------------------------
ProfileType == [score : Nat, lastScoreTs : Nat, lastAlertTs : Nat, lastDecay : Nat,
                nextTimer : Nat, written : Nat]

StampedIds == [id : Severities \X Nat, ts : Nat, written : Nat]

AlertType == [id : Severities \X Nat, time : Nat, severity : Severities, score : Nat]

ScoredType == [event : Events, wall : Nat, indicators : SUBSET IndicatorNames,
               halvings : 0..MaxDecaySteps]

(* The fields of the operator's state, its timers, its clocks and its      *)
(* output have the types RiskScoringProcessor and RiskProfileState give    *)
(* them; a score is never negative.                                        *)
TypeOK ==
    /\ profile \in ProfileType
    /\ seen \subseteq [key : Keys, ts : Nat, written : Nat]
    /\ emitted \subseteq StampedIds
    /\ timers \subseteq Nat
    /\ watermark \in Nat /\ firing \in BOOLEAN
    /\ wall \in Nat /\ wall > MaxLag
    /\ alerts \in Seq(AlertType)
    /\ scored \in Seq(ScoredType)
    /\ delivered \in Nat

(* processElement's cooldown: whatever the order in which an identity's    *)
(* events arrive and whatever of its state expires meanwhile, the event    *)
(* times of two of its alerts are at least Cooldown apart, later after     *)
(* earlier.                                                                *)
CooldownSpacing ==
    \A i, j \in 1..Len(alerts) : i < j => alerts[j].time >= alerts[i].time + Cooldown

(* buildDeterministicAlertId names one alert only: the consumers that key  *)
(* documents and incident links by alert id never merge two alerts of one  *)
(* identity.                                                               *)
AlertIdsUnique ==
    \A i, j \in 1..Len(alerts) : alerts[i].id = alerts[j].id => i = j

(* "Ensure a decay timer is pending whenever there's a live score": a live *)
(* score always has the timer its profile names, however many timer chains *)
(* a lagging watermark has left behind.                                    *)
DecayTimerPending ==
    ~Expired(profile.written) /\ profile.score > 0 => profile.nextTimer \in timers

(* The dedup window: an event key is scored a second time only when TTL,   *)
(* less the lag an event may have, has passed since it was last scored.    *)
DedupWindow ==
    \A i, j \in 1..Len(scored) :
        i < j /\ scored[i].event.key = scored[j].event.key /\ scored[i].event.key # None
            => scored[j].wall - scored[i].wall >= TTL - MaxLag

(* An identity above the alert threshold is never silent: when processing  *)
(* leaves the score above it, an alert less than Cooldown old exists       *)
(* (cooldown and the id check suppress repeats, never the first alert).    *)
AttackNeverSilenced ==
    [][scored' # scored /\ profile'.score > AlertThreshold =>
         \E i \in 1..Len(alerts') :
            alerts'[i].time > scored'[Len(scored')].event.time - Cooldown]_vars

(* The catch-up of a timer chain over a jump of the watermark ends: every  *)
(* timer that re-registers itself does so strictly later.                  *)
FiringEnds == firing ~> ~firing

(* The firings a sweep may have left: one for each instant from a timer    *)
(* that is due to the watermark.                                           *)
Outstanding == UNION {{t} \X (t..watermark) : t \in timers}

(* A sweep over the timers gets shorter with each one that fires, whatever *)
(* it registers in its place and however many chains there are: between    *)
(* two events onTimer runs a bounded number of times.                      *)
FiringConverges ==
    [][firing /\ firing' => Cardinality(Outstanding') < Cardinality(Outstanding)]_vars

(* The javadoc of applyDecay: the score is halved for each full interval   *)
(* elapsed since the last decay.  Between two consecutive scored events in *)
(* time order no more halvings happen than intervals fit, counting the one *)
(* that had begun.                                                         *)
HalvingsMatchElapsed ==
    \A i \in 1..(Len(scored) - 1) :
        LET elapsed == scored[i + 1].event.time - scored[i].event.time
        IN  elapsed >= 0 => scored[i + 1].halvings <= elapsed \div Decay + 1
=============================================================================
