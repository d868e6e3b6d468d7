------------------------- MODULE RiskScoringProofs -------------------------
(***************************************************************************)
(* Safety of RiskScoring for every value of its constants.  The inductive  *)
(* invariant adds to the type invariant what the state remembers of the    *)
(* last alert, of the pending timer and of the keys that were scored; that *)
(* every alert it remembers was sent shows that no attack is silenced.     *)
(***************************************************************************)
EXTENDS RiskScoring, FiniteSetTheorems, TLAPS

-----------------------------------------------------------------------------
(* Integer division.                                                       *)

LEMMA DivNat ==
    ASSUME NEW a \in Nat, NEW c \in Nat \ {0}
    PROVE  /\ a \div c \in Nat
           /\ a \div c <= a
           /\ c * (a \div c) <= a
           /\ a < c * (a \div c) + c
  BY SMT

(* Times a whole period apart fall into different periods.                 *)
LEMMA DivApart ==
    ASSUME NEW a \in Nat, NEW b \in Nat, NEW c \in Nat \ {0}, b >= a + c
    PROVE  a \div c # b \div c
  <1>1. /\ a \div c \in Nat /\ b \div c \in Nat
        /\ c * (a \div c) <= a /\ b < c * (b \div c) + c
    BY DivNat
  <1>2. ASSUME a \div c = b \div c PROVE FALSE
    <2> DEFINE q == a \div c
    <2>1. q \in Nat /\ c * q <= a /\ b < c * q + c
      BY <1>1, <1>2
    <2>2. c * q \in Nat
      BY <2>1
    <2> HIDE DEF q
    <2> QED BY <2>1, <2>2
  <1> QED BY <1>2

-----------------------------------------------------------------------------
(* What the operators of the model return.                                 *)

LEMMA IndicatorsType ==
    ASSUME NEW row \in Rows, NEW now, NEW m
    PROVE  DeriveIndicators(row, now, m) \in SUBSET IndicatorNames
  <1>1. CASE row.indicator # None
    BY <1>1, RowsAssumption DEF DeriveIndicators
  <1>2. CASE row.indicator = None
    BY <1>2 DEF DeriveIndicators, LoginIndicators, TransactionIndicators, ApiIndicators
  <1> QED BY <1>1, <1>2

LEMMA WeightSumNat ==
    ASSUME NEW S PROVE WeightSum(S) \in Nat
  <1>1. \A i \in IndicatorNames : Points(S, i) \in Nat
    BY WeightAssumption DEF Points
  <1> QED BY <1>1 DEF WeightSum, IndicatorNames

LEMMA DecayStepsType ==
    ASSUME NEW p \in ProfileType, NEW now \in Nat
    PROVE  DecaySteps(p, now) \in 0..MaxDecaySteps
  <1>1. Anchor(p) \in Nat
    BY DEF Anchor, ProfileType
  <1>2. CASE Anchor(p) = 0 \/ now <= Anchor(p)
    BY <1>2 DEF DecaySteps, MaxDecaySteps
  <1>3. CASE ~(Anchor(p) = 0 \/ now <= Anchor(p))
    <2>1. (now - Anchor(p)) \in Nat
      BY <1>1, <1>3
    <2>2. (now - Anchor(p)) \div Decay \in Nat
      BY <2>1, DivNat, PeriodsAssumption
    <2> QED BY <1>3, <2>2 DEF DecaySteps, MaxDecaySteps
  <1> QED BY <1>2, <1>3

LEMMA PowersType == \A k \in 1..11 : PowersOfTwo[k] \in Nat \ {0}
  BY DEF PowersOfTwo

(* Decay keeps the type and leaves the alerting and timer fields alone.    *)
LEMMA DecayedType ==
    ASSUME NEW p \in ProfileType, NEW now \in Nat
    PROVE  /\ Decayed(p, now) \in ProfileType
           /\ Decayed(p, now).lastAlertTs = p.lastAlertTs
           /\ Decayed(p, now).nextTimer = p.nextTimer
           /\ Decayed(p, now).written = p.written
           /\ p.score = 0 => Decayed(p, now).score = 0
  <1> DEFINE n == DecaySteps(p, now)
  <1>1. n \in 0..10
    BY DecayStepsType DEF MaxDecaySteps
  <1>2. Anchor(p) \in Nat
    BY DEF Anchor, ProfileType
  <1>3. /\ p.score \div PowersOfTwo[n + 1] \in Nat
        /\ p.score \div PowersOfTwo[n + 1] <= p.score
    <2>1. PowersOfTwo[n + 1] \in Nat \ {0}
      BY <1>1, PowersType
    <2>2. p.score \in Nat
      BY DEF ProfileType
    <2> QED BY <2>1, <2>2, DivNat
  <1> HIDE DEF n
  <1>4. Anchor(p) + n * Decay \in Nat
    <2>1. n * Decay \in Nat
      BY <1>1, PeriodsAssumption
    <2> QED BY <1>2, <2>1
  <1>5. CASE Decayed(p, now) = [p EXCEPT !.lastDecay = now]
    BY <1>5 DEF ProfileType
  <1>6. CASE Decayed(p, now) = p
    BY <1>6 DEF ProfileType
  <1>7. CASE Decayed(p, now) = [p EXCEPT !.score = p.score \div PowersOfTwo[n + 1],
                                         !.lastDecay = Anchor(p) + n * Decay]
    <2> DEFINE halved == p.score \div PowersOfTwo[n + 1]
               anchor == Anchor(p) + n * Decay
    <2>1. halved \in Nat /\ halved <= p.score /\ anchor \in Nat
      BY <1>3, <1>4
    <2>2. Decayed(p, now) = [p EXCEPT !.score = halved, !.lastDecay = anchor]
      BY <1>7
    <2> HIDE DEF halved, anchor
    <2> DEFINE q == Decayed(p, now)
    <2>3. q \in ProfileType
      BY <2>1, <2>2 DEF ProfileType
    <2>4. q.lastAlertTs = p.lastAlertTs /\ q.nextTimer = p.nextTimer /\ q.written = p.written
      BY <2>2 DEF ProfileType
    <2>5. q.score = halved
      BY <2>2 DEF ProfileType
    <2>6. p.score = 0 => halved = 0
      BY <2>1
    <2> QED BY <2>3, <2>4, <2>5, <2>6
  <1> QED BY <1>5, <1>6, <1>7 DEF Decayed, n

LEMMA WithPointsType ==
    ASSUME NEW p \in ProfileType, NEW now \in Nat, NEW S
    PROVE  /\ WithPoints(p, S, now) \in ProfileType
           /\ WithPoints(p, S, now).lastAlertTs = p.lastAlertTs
           /\ WithPoints(p, S, now).nextTimer = p.nextTimer
           /\ WithPoints(p, S, now).written = p.written
  <1> DEFINE total == p.score + WeightSum(S)
             q == [p EXCEPT !.score = total, !.lastScoreTs = now]
  <1>1. total \in Nat
    BY WeightSumNat DEF ProfileType
  <1>2. WithPoints(p, S, now) = p \/ WithPoints(p, S, now) = q
    BY DEF WithPoints
  <1> HIDE DEF total
  <1>3. q \in ProfileType
    BY <1>1 DEF ProfileType
  <1>4. q.lastAlertTs = p.lastAlertTs /\ q.nextTimer = p.nextTimer /\ q.written = p.written
    BY <1>1 DEF ProfileType
  <1> QED BY <1>2, <1>3, <1>4

-----------------------------------------------------------------------------
(* The inductive invariant.                                                *)

LastAlert == alerts[Len(alerts)].time

(* The time of the last alert is in the profile, or so old that the state  *)
(* may have expired: no event still to come can be within its cooldown.    *)
LastAlertKnown(p) ==
    alerts # <<>> => \/ p.lastAlertTs = LastAlert /\ LastAlert <= p.written
                     \/ LastAlert + MaxLag + Cooldown <= wall

AlertsNamed ==
    \A i \in 1..Len(alerts) :
        alerts[i].time >= 1 /\ alerts[i].id = <<alerts[i].severity, alerts[i].time \div Cooldown>>

(* The timer a profile names is registered, and a score has one.           *)
TimerNamed(p) ==
    /\ p.nextTimer # 0 => p.nextTimer \in timers
    /\ p.score > 0 => p.nextTimer # 0

Entry(r) == [key |-> r.event.key, ts |-> r.event.time, written |-> r.wall]

(* The key of a scored event is remembered, or the dedup window is over.   *)
KeysRemembered ==
    \A i \in 1..Len(scored) :
        /\ scored[i].wall <= wall
        /\ scored[i].event.time >= scored[i].wall - MaxLag
        /\ scored[i].event.key # None =>
             \/ wall - scored[i].wall >= TTL - MaxLag
             \/ Entry(scored[i]) \in seen

IInv ==
    /\ TypeOK
    /\ profile.written <= wall
    /\ LastAlertKnown(profile)
    /\ AlertsNamed
    /\ CooldownSpacing
    /\ ~Expired(profile.written) => TimerNamed(profile)
    /\ KeysRemembered
    /\ DedupWindow
-----------------------------------------------------------------------------
(* What an event or a timer reads.                                         *)

LEMMA AlertTimes ==
    ASSUME alerts \in Seq(AlertType)
    PROVE  /\ \A i \in 1..Len(alerts) : alerts[i].time \in Nat
           /\ alerts # <<>> => Len(alerts) \in 1..Len(alerts) /\ LastAlert \in Nat
  <1>1. \A i \in 1..Len(alerts) : alerts[i] \in AlertType
    OBVIOUS
  <1>2. \A i \in 1..Len(alerts) : alerts[i].time \in Nat
    BY <1>1 DEF AlertType
  <1>3. alerts # <<>> => Len(alerts) \in 1..Len(alerts)
    OBVIOUS
  <1> QED BY <1>2, <1>3 DEF LastAlert

LEMMA LastAlertPast ==
    ASSUME IInv, alerts # <<>>
    PROVE  LastAlert <= wall
  <1>1. LastAlert \in Nat
    BY AlertTimes DEF IInv, TypeOK
  <1>2. profile.written \in Nat /\ wall \in Nat
    BY DEF IInv, TypeOK, ProfileType
  <1> QED BY <1>1, <1>2, LagAssumption, PeriodsAssumption DEF IInv, LastAlertKnown

LEMMA ReadState ==
    ASSUME IInv
    PROVE  /\ Profile \in ProfileType
           /\ alerts # <<>> => \/ Profile.lastAlertTs = LastAlert
                               \/ LastAlert + MaxLag + Cooldown <= wall
           /\ TimerNamed(Profile)
  <1>1. /\ profile \in ProfileType /\ wall \in Nat /\ profile.written \in Nat
    BY DEF IInv, TypeOK, ProfileType
  <1>2. alerts # <<>> => LastAlert \in Nat
    BY AlertTimes DEF IInv, TypeOK
  <1>3. NoProfile \in ProfileType /\ NoProfile.score = 0 /\ NoProfile.nextTimer = 0
    BY DEF NoProfile, ProfileType
  <1>4. CASE Expired(profile.written)
    <2>1. wall - profile.written >= TTL
      BY <1>4 DEF Expired
    <2>2. ASSUME alerts # <<>>, LastAlert <= profile.written
          PROVE  LastAlert + MaxLag + Cooldown <= wall
      BY <1>1, <1>2, <2>1, <2>2, LagAssumption, PeriodsAssumption
    <2>3. Profile = NoProfile
      BY <1>4 DEF Profile
    <2>4. TimerNamed(Profile)
      BY <1>3, <2>3 DEF TimerNamed
    <2> QED BY <1>3, <2>2, <2>3, <2>4 DEF IInv, LastAlertKnown
  <1>5. CASE ~Expired(profile.written)
    <2>1. Profile = profile
      BY <1>5 DEF Profile
    <2> QED BY <1>1, <1>5, <2>1 DEF IInv, LastAlertKnown
  <1> QED BY <1>4, <1>5

-----------------------------------------------------------------------------
(* The tail of processElement keeps what the invariant says of the alerts. *)

LEMMA EmitAlertKeeps ==
    ASSUME IInv,
           NEW p \in ProfileType, NEW now \in Nat,
           now >= 1, now >= wall - MaxLag, now <= wall,
           alerts # <<>> => \/ p.lastAlertTs = LastAlert
                            \/ LastAlert + MaxLag + Cooldown <= wall,
           alerts # <<>> => LastAlert <= wall,
           EmitAlert(p, now), wall' = wall
    PROVE  /\ alerts' \in Seq(AlertType)
           /\ emitted' \subseteq StampedIds
           /\ profile' \in ProfileType
           /\ profile'.written = wall
           /\ profile'.score = p.score
           /\ profile'.nextTimer = p.nextTimer
           /\ AlertsNamed'
           /\ CooldownSpacing'
           /\ LastAlertKnown(profile)'
  <1>1. /\ alerts \in Seq(AlertType) /\ emitted \subseteq StampedIds /\ wall \in Nat
    BY DEF IInv, TypeOK
  <1>2. CASE ~Alerting(p, now)
    <2>1. /\ alerts' = alerts /\ emitted' \subseteq emitted
          /\ profile' = [p EXCEPT !.written = wall]
      BY <1>2 DEF EmitAlert, Pruned
    <2>2. /\ profile' \in ProfileType /\ profile'.written = wall
          /\ profile'.score = p.score /\ profile'.nextTimer = p.nextTimer
          /\ profile'.lastAlertTs = p.lastAlertTs
      BY <1>1, <2>1 DEF ProfileType
    <2>3. LastAlertKnown(profile)'
      BY <2>1, <2>2 DEF LastAlertKnown, LastAlert
    <2>4. AlertsNamed' /\ CooldownSpacing'
      BY <2>1 DEF IInv, AlertsNamed, CooldownSpacing
    <2> QED BY <1>1, <2>1, <2>2, <2>3, <2>4
  <1>3. CASE Alerting(p, now)
    <2> DEFINE new == Alert(p, now)
    <2>1. /\ alerts' = Append(alerts, new)
          /\ emitted' = Pruned(emitted, now)
               \cup {[id |-> AlertId(p.score, now), ts |-> now, written |-> wall]}
          /\ profile' = [p EXCEPT !.lastAlertTs = now, !.written = wall]
      BY <1>3 DEF EmitAlert
    <2>2. /\ AlertId(p.score, now) = <<Severity(p.score), now \div Cooldown>>
          /\ AlertId(p.score, now) \in Severities \X Nat
          /\ Severity(p.score) \in Severities
      BY DivNat, PeriodsAssumption DEF AlertId, Severity, Severities
    <2>3. /\ new \in AlertType
          /\ new.time = now
          /\ new.id = <<new.severity, new.time \div Cooldown>>
      BY <2>2 DEF Alert, AlertType, ProfileType
    <2>4. /\ profile' \in ProfileType /\ profile'.written = wall
          /\ profile'.score = p.score /\ profile'.nextTimer = p.nextTimer
          /\ profile'.lastAlertTs = now
      BY <1>1, <2>1 DEF ProfileType
    <2>5. emitted' \subseteq StampedIds
      BY <1>1, <2>1, <2>2 DEF Pruned, StampedIds
    <2> HIDE DEF new
    <2>6. /\ alerts' \in Seq(AlertType)
          /\ Len(alerts') = Len(alerts) + 1
          /\ alerts'[Len(alerts')] = new
          /\ \A i \in 1..Len(alerts) : alerts'[i] = alerts[i]
      BY <1>1, <2>1, <2>3
    <2>7. alerts # <<>> => now >= LastAlert + Cooldown
      <3>1. SUFFICES ASSUME alerts # <<>> PROVE now >= LastAlert + Cooldown
        OBVIOUS
      <3>2. LastAlert \in Nat /\ LastAlert >= 1
        BY <1>1, <3>1, AlertTimes DEF IInv, AlertsNamed, LastAlert
      <3>3. CASE p.lastAlertTs = LastAlert
        BY <1>3, <3>2, <3>3, PeriodsAssumption DEF Alerting, MayAlert, CooldownExpired
      <3>4. CASE LastAlert + MaxLag + Cooldown <= wall
        BY <1>1, <3>2, <3>4, LagAssumption, PeriodsAssumption
      <3> QED BY <3>1, <3>3, <3>4
    <2>8. AlertsNamed'
      BY <1>1, <2>3, <2>6 DEF IInv, AlertsNamed
    <2>9. CooldownSpacing'
      <3>1. \A i \in 1..Len(alerts) : alerts[i].time \in Nat /\ alerts[i].time <= LastAlert
        <4>1. \A i \in 1..Len(alerts) : alerts[i].time \in Nat
          BY <1>1, AlertTimes
        <4> QED BY <1>1, <4>1, PeriodsAssumption DEF IInv, CooldownSpacing, LastAlert
      <3>2. \A i \in 1..Len(alerts) : alerts'[i].time + Cooldown <= now
        BY <1>1, <2>6, <2>7, <3>1, PeriodsAssumption DEF LastAlert
      <3>3. SUFFICES ASSUME NEW i \in 1..Len(alerts'), NEW j \in 1..Len(alerts'), i < j
                     PROVE  alerts'[j].time >= alerts'[i].time + Cooldown
        BY DEF CooldownSpacing
      <3>4. CASE j = Len(alerts')
        BY <1>1, <2>3, <2>6, <3>1, <3>2, <3>3, <3>4, PeriodsAssumption
      <3>5. CASE j # Len(alerts')
        BY <1>1, <2>6, <3>3, <3>5 DEF IInv, CooldownSpacing
      <3> QED BY <3>4, <3>5
    <2>10. LastAlertKnown(profile)'
      BY <1>1, <2>3, <2>4, <2>6 DEF LastAlertKnown, LastAlert
    <2> QED BY <2>4, <2>5, <2>6, <2>8, <2>9, <2>10
  <1> QED BY <1>2, <1>3
-----------------------------------------------------------------------------
(* The keys that were scored.                                              *)

LEMMA ScoredFields ==
    ASSUME scored \in Seq(ScoredType)
    PROVE  \A i \in 1..Len(scored) :
             /\ scored[i].wall \in Nat /\ scored[i].event.time \in Nat
             /\ scored[i].event.key \in Keys \cup {None}
  <1>1. \A i \in 1..Len(scored) : scored[i] \in ScoredType
    OBVIOUS
  <1>2. \A i \in 1..Len(scored) : scored[i].wall \in Nat /\ scored[i].event \in Events
    BY <1>1 DEF ScoredType
  <1> QED BY <1>2 DEF Events

(* What pruning forgets is past the dedup window.                          *)
LEMMA PruningKeepsKeys ==
    ASSUME IInv, NEW now \in Nat, now <= wall,
           NEW i \in 1..Len(scored), scored[i].event.key # None
    PROVE  \/ wall - scored[i].wall >= TTL - MaxLag
           \/ Entry(scored[i]) \in Pruned(seen, now)
  <1>1. /\ scored[i].wall \in Nat /\ scored[i].event.time \in Nat /\ wall \in Nat
        /\ scored[i].event.time >= scored[i].wall - MaxLag
    BY ScoredFields DEF IInv, TypeOK, KeysRemembered
  <1>2. \/ wall - scored[i].wall >= TTL - MaxLag
        \/ Entry(scored[i]) \in seen
    BY DEF IInv, KeysRemembered
  <1>3. ASSUME Expired(scored[i].wall) PROVE wall - scored[i].wall >= TTL - MaxLag
    BY <1>1, <1>3, LagAssumption, PeriodsAssumption DEF Expired
  <1>4. ASSUME now - scored[i].event.time > TTL PROVE wall - scored[i].wall >= TTL - MaxLag
    BY <1>1, <1>4, LagAssumption, PeriodsAssumption
  <1>5. Entry(scored[i]).written = scored[i].wall /\ Entry(scored[i]).ts = scored[i].event.time
    BY DEF Entry
  <1>6. CASE Entry(scored[i]) \in seen
    <2>1. SUFFICES ASSUME ~(wall - scored[i].wall >= TTL - MaxLag)
                   PROVE  Entry(scored[i]) \in Pruned(seen, now)
      OBVIOUS
    <2>2. ~Expired(scored[i].wall) /\ ~(now - scored[i].event.time > TTL)
      BY <1>3, <1>4, <2>1
    <2>3. now - scored[i].event.time <= TTL
      BY <1>1, <2>2, PeriodsAssumption
    <2> QED BY <1>5, <1>6, <2>2, <2>3 DEF Pruned
  <1> QED BY <1>2, <1>6

LEMMA ArrivalTime ==
    ASSUME IInv, NEW e, Arrives(e)
    PROVE  /\ e \in Events /\ e.time \in Nat /\ e.time >= 1
           /\ e.time >= wall - MaxLag /\ e.time <= wall
           /\ e.key \in Keys \cup {None} /\ e.row \in Rows
           /\ delivered' \in Nat
  <1>1. e \in Events /\ e.time \in (wall - MaxLag)..wall
    BY DEF Arrives
  <1>2. wall \in Nat /\ wall > MaxLag /\ delivered \in Nat
    BY DEF IInv, TypeOK
  <1>3. e.time \in Nat /\ e.key \in Keys \cup {None} /\ e.row \in Rows
    BY <1>1 DEF Events
  <1> QED BY <1>1, <1>2, <1>3, LagAssumption DEF Arrives

-----------------------------------------------------------------------------
(* One lemma per action.                                                   *)

LEMMA DropDuplicateKeeps ==
    ASSUME IInv, NEW e, DropDuplicate(e)
    PROVE  IInv'
  <1>1. /\ Profile \in ProfileType /\ TimerNamed(Profile)
        /\ alerts # <<>> => \/ Profile.lastAlertTs = LastAlert
                            \/ LastAlert + MaxLag + Cooldown <= wall
    BY ReadState
  <1>2. Arrives(e) /\ e.time \in Nat /\ e.time <= wall /\ wall \in Nat /\ delivered' \in Nat
    BY ArrivalTime DEF DropDuplicate, IInv, TypeOK
  <1>3. /\ seen' = Pruned(seen, e.time)
        /\ profile' = [Profile EXCEPT !.written = wall]
        /\ UNCHANGED <<emitted, timers, watermark, firing, wall, alerts, scored>>
    BY DEF DropDuplicate
  <1>4. /\ profile' \in ProfileType /\ profile'.written = wall
        /\ profile'.lastAlertTs = Profile.lastAlertTs
        /\ profile'.nextTimer = Profile.nextTimer /\ profile'.score = Profile.score
    BY <1>1, <1>2, <1>3 DEF ProfileType
  <1>5. TypeOK'
    BY <1>2, <1>3, <1>4 DEF IInv, TypeOK, Pruned
  <1>6. LastAlertKnown(profile)'
    <2>1. alerts # <<>> => LastAlert <= wall
      BY LastAlertPast
    <2> QED BY <1>1, <1>3, <1>4, <2>1 DEF LastAlertKnown, LastAlert
  <1>7. TimerNamed(profile)'
    BY <1>1, <1>3, <1>4 DEF TimerNamed
  <1>8. KeysRemembered'
    <2>1. \A i \in 1..Len(scored) : scored[i].event.key # None =>
            \/ wall - scored[i].wall >= TTL - MaxLag
            \/ Entry(scored[i]) \in Pruned(seen, e.time)
      BY <1>2, PruningKeepsKeys
    <2> QED BY <1>3, <2>1 DEF IInv, KeysRemembered, Entry
  <1>9. AlertsNamed' /\ CooldownSpacing' /\ DedupWindow' /\ profile'.written <= wall'
    BY <1>2, <1>3, <1>4 DEF IInv, AlertsNamed, CooldownSpacing, DedupWindow
  <1> QED BY <1>5, <1>6, <1>7, <1>8, <1>9 DEF IInv

LEMMA AdvanceWatermarkKeeps ==
    ASSUME IInv, NEW w \in Nat, AdvanceWatermark(w)
    PROVE  IInv'
  BY DEF AdvanceWatermark, IInv, TypeOK, LastAlertKnown, LastAlert, AlertsNamed,
         CooldownSpacing, Expired, TimerNamed, KeysRemembered, Entry, DedupWindow

LEMMA TimersDoneKeeps ==
    ASSUME IInv, TimersDone
    PROVE  IInv'
  BY DEF TimersDone, IInv, TypeOK, LastAlertKnown, LastAlert, AlertsNamed,
         CooldownSpacing, Expired, TimerNamed, KeysRemembered, Entry, DedupWindow

(* Time passing only makes state expire and windows end.                   *)
LEMMA TickKeeps ==
    ASSUME IInv, NEW gap \in Gaps, Tick(gap)
    PROVE  IInv'
  <1>1. /\ wall \in Nat /\ wall > MaxLag /\ wall' \in Nat /\ wall' >= wall
        /\ UNCHANGED <<profile, memory, seen, emitted, timers, watermark, firing, alerts,
                       scored, delivered>>
    BY PeriodsAssumption DEF Tick, IInv, TypeOK
  <1>2. profile.written \in Nat
    BY DEF IInv, TypeOK, ProfileType
  <1>3. TypeOK' /\ profile'.written <= wall'
    BY <1>1, <1>2, LagAssumption DEF IInv, TypeOK
  <1>4. LastAlertKnown(profile)'
    <2>1. alerts # <<>> => LastAlert \in Nat
      BY AlertTimes DEF IInv, TypeOK
    <2> QED BY <1>1, <2>1, LagAssumption, PeriodsAssumption
            DEF IInv, LastAlertKnown, LastAlert
  <1>5. ~Expired(profile.written)' => TimerNamed(profile)'
    BY <1>1, <1>2, PeriodsAssumption DEF IInv, Expired, TimerNamed
  <1>6. KeysRemembered'
    <2>1. \A i \in 1..Len(scored) : scored[i].wall \in Nat
      BY ScoredFields DEF IInv, TypeOK
    <2> QED BY <1>1, <2>1, LagAssumption, PeriodsAssumption DEF IInv, KeysRemembered, Entry
  <1>7. AlertsNamed' /\ CooldownSpacing' /\ DedupWindow'
    BY <1>1 DEF IInv, AlertsNamed, CooldownSpacing, DedupWindow
  <1> QED BY <1>3, <1>4, <1>5, <1>6, <1>7 DEF IInv
Rewrite(p, timer, time) == [p EXCEPT !.nextTimer = timer, !.written = time]

LEMMA RewriteType ==
    ASSUME NEW p \in ProfileType, NEW timer \in Nat, NEW time \in Nat
    PROVE  LET q == Rewrite(p, timer, time)
           IN  /\ q \in ProfileType /\ q.written = time /\ q.nextTimer = timer
               /\ q.lastAlertTs = p.lastAlertTs /\ q.score = p.score
  <1> DEFINE q == Rewrite(p, timer, time)
  <1>1. q \in ProfileType
    BY DEF ProfileType, Rewrite
  <1>2. q.written = time /\ q.nextTimer = timer
    BY DEF ProfileType, Rewrite
  <1>3. q.lastAlertTs = p.lastAlertTs /\ q.score = p.score
    BY DEF ProfileType, Rewrite
  <1> QED BY <1>1, <1>2, <1>3

LEMMA FireTimerKeeps ==
    ASSUME IInv, NEW t \in timers, FireTimer(t)
    PROVE  IInv'
  <1>1. /\ t \in Nat /\ wall \in Nat /\ timers \subseteq Nat /\ profile \in ProfileType
        /\ UNCHANGED <<memory, seen, emitted, watermark, firing, wall, alerts, scored, delivered>>
    BY DEF FireTimer, NextTimer, IInv, TypeOK
  <1>2. KeysRemembered' /\ AlertsNamed' /\ CooldownSpacing' /\ DedupWindow'
    BY <1>1 DEF IInv, KeysRemembered, Entry, AlertsNamed, CooldownSpacing, DedupWindow
  <1>3. CASE Expired(profile.written)
    <2>1. timers' = timers \ {t} /\ profile' = profile
      BY <1>3 DEF FireTimer, NextTimer
    <2>2. TypeOK' /\ profile'.written <= wall' /\ LastAlertKnown(profile)'
      BY <1>1, <2>1 DEF IInv, TypeOK, LastAlertKnown, LastAlert
    <2>3. Expired(profile.written)'
      BY <1>1, <1>3, <2>1 DEF Expired
    <2> QED BY <1>2, <2>2, <2>3 DEF IInv
  <1>4. CASE ~Expired(profile.written)
    <2> DEFINE p == Decayed(profile, t)
               next == t + Decay
    <2>1. /\ p \in ProfileType /\ p.lastAlertTs = profile.lastAlertTs
          /\ p.nextTimer = profile.nextTimer /\ p.written = profile.written
      BY <1>1, DecayedType
    <2>2. next \in Nat /\ next # 0
      BY <1>1, PeriodsAssumption
    <2>3. \/ /\ p.score > 0
             /\ timers' = (timers \ {t}) \cup {next}
             /\ profile' = [p EXCEPT !.nextTimer = next, !.written = wall]
          \/ /\ ~(p.score > 0)
             /\ timers' = timers \ {t}
             /\ profile' = [p EXCEPT !.nextTimer = 0, !.written = wall]
      BY <1>4 DEF FireTimer, NextTimer
    <2> HIDE DEF p, next
    <2>4. /\ profile' \in ProfileType /\ profile'.written = wall
          /\ profile'.lastAlertTs = profile.lastAlertTs
          /\ profile'.score = p.score
      <3>1. profile' = Rewrite(p, next, wall) \/ profile' = Rewrite(p, 0, wall)
        BY <2>3 DEF Rewrite
      <3>2. PICK timer \in Nat : profile' = Rewrite(p, timer, wall)
        BY <2>2, <3>1
      <3>3. /\ Rewrite(p, timer, wall) \in ProfileType
            /\ Rewrite(p, timer, wall).written = wall
            /\ Rewrite(p, timer, wall).lastAlertTs = p.lastAlertTs
            /\ Rewrite(p, timer, wall).score = p.score
        BY <1>1, <2>1, RewriteType
      <3> QED BY <2>1, <3>2, <3>3
    <2>5. timers' \subseteq Nat
      BY <1>1, <2>2, <2>3
    <2>6. TimerNamed(profile)'
      <3>1. CASE p.score > 0
        <4>1. profile'.nextTimer = next /\ next \in timers'
          BY <2>1, <2>3, <3>1 DEF ProfileType
        <4> QED BY <2>2, <4>1 DEF TimerNamed
      <3>2. CASE ~(p.score > 0)
        <4>1. profile'.nextTimer = 0
          BY <2>1, <2>3, <3>2 DEF ProfileType
        <4> QED BY <2>4, <3>2, <4>1 DEF TimerNamed
      <3> QED BY <3>1, <3>2
    <2>7. LastAlertKnown(profile)'
      <3>1. alerts # <<>> => LastAlert <= wall
        BY LastAlertPast
      <3> QED BY <1>1, <2>4, <3>1 DEF IInv, LastAlertKnown, LastAlert
    <2>8. TypeOK' /\ profile'.written <= wall'
      BY <1>1, <2>4, <2>5 DEF IInv, TypeOK
    <2> QED BY <1>2, <2>6, <2>7, <2>8 DEF IInv
  <1> QED BY <1>3, <1>4

(* What processElement does with the profile: the points of the event and  *)
(* the timer are in it before alerting.                                    *)
LEMMA Emission ==
    ASSUME IInv, NEW e, ScoreEvent(e)
    PROVE  \E q \in ProfileType :
             /\ EmitAlert(q, e.time)
             /\ q.lastAlertTs = Profile.lastAlertTs
             /\ timers' \subseteq Nat
             /\ q.nextTimer # 0 => q.nextTimer \in timers'
             /\ q.score > 0 => q.nextTimer # 0
  <1> DEFINE p == WithPoints(Decayed(Profile, e.time),
                             DeriveIndicators(e.row, e.time, Memory), e.time)
             next == e.time + Decay
  <1>1. e.time \in Nat /\ e.time >= 1 /\ timers \subseteq Nat
    BY ArrivalTime DEF ScoreEvent, IInv, TypeOK
  <1>3. \/ /\ NeedsTimer(p, e.time)
           /\ timers' = timers \cup {next}
           /\ EmitAlert([p EXCEPT !.nextTimer = next], e.time)
        \/ /\ ~NeedsTimer(p, e.time)
           /\ timers' = timers
           /\ EmitAlert(p, e.time)
    BY DEF ScoreEvent, NextTimer
  <1>5. Profile \in ProfileType /\ TimerNamed(Profile)
    BY ReadState
  <1>6. /\ p \in ProfileType
        /\ p.lastAlertTs = Profile.lastAlertTs /\ p.nextTimer = Profile.nextTimer
    <2>1. /\ Decayed(Profile, e.time) \in ProfileType
          /\ Decayed(Profile, e.time).lastAlertTs = Profile.lastAlertTs
          /\ Decayed(Profile, e.time).nextTimer = Profile.nextTimer
      BY <1>1, <1>5, DecayedType
    <2> QED BY <1>1, <2>1, WithPointsType
  <1> HIDE DEF p
  <1>7. CASE NeedsTimer(p, e.time)
    <2> DEFINE q == [p EXCEPT !.nextTimer = next]
    <2>1. next \in Nat /\ next # 0
      BY <1>1, PeriodsAssumption
    <2> HIDE DEF next
    <2>2. q \in ProfileType /\ q.lastAlertTs = p.lastAlertTs /\ q.nextTimer = next
      BY <1>6, <2>1 DEF ProfileType
    <2>3. timers' = timers \cup {next} /\ EmitAlert(q, e.time)
      BY <1>3, <1>7
    <2> HIDE DEF q
    <2> QED BY <1>1, <1>6, <2>1, <2>2, <2>3
  <1>8. CASE ~NeedsTimer(p, e.time)
    <2>1. timers' = timers /\ EmitAlert(p, e.time)
      BY <1>3, <1>8
    <2>2. p.score > 0 => p.nextTimer # 0
      BY <1>1, <1>6, <1>8 DEF NeedsTimer, ProfileType
    <2>3. p.nextTimer # 0 => p.nextTimer \in timers
      BY <1>5, <1>6 DEF TimerNamed
    <2> QED BY <1>1, <1>6, <2>1, <2>2, <2>3
  <1> QED BY <1>7, <1>8

(* The whole of processElement for an event with a new key.                *)
LEMMA ScoreEventKeeps ==
    ASSUME IInv, NEW e, ScoreEvent(e)
    PROVE  IInv'
  <1> DEFINE indicators == DeriveIndicators(e.row, e.time, Memory)
             r == [event |-> e, wall |-> wall, indicators |-> indicators,
                   halvings |-> DecaySteps(Profile, e.time)]
  <1>1. /\ e \in Events /\ e.time \in Nat /\ e.time >= 1
        /\ e.time >= wall - MaxLag /\ e.time <= wall
        /\ e.key \in Keys \cup {None} /\ e.row \in Rows
        /\ delivered' \in Nat /\ ~Duplicate(e)
    BY ArrivalTime DEF ScoreEvent, NextTimer
  <1>2. /\ wall \in Nat /\ timers \subseteq Nat /\ scored \in Seq(ScoredType)
    BY DEF IInv, TypeOK
  <1>3. /\ seen' = Remember(e)
        /\ scored' = Append(scored, r)
        /\ UNCHANGED <<watermark, firing, wall>>
    BY DEF ScoreEvent
  <1>4. indicators \in SUBSET IndicatorNames
    BY <1>1, IndicatorsType
  <1>5. /\ Profile \in ProfileType /\ TimerNamed(Profile)
        /\ alerts # <<>> => \/ Profile.lastAlertTs = LastAlert
                            \/ LastAlert + MaxLag + Cooldown <= wall
    BY ReadState
  <1>7. r \in ScoredType /\ r.event = e /\ r.wall = wall
    BY <1>1, <1>2, <1>4, <1>5, DecayStepsType DEF ScoredType
  <1> HIDE DEF indicators, r
  <1>8. PICK q \in ProfileType :
          /\ EmitAlert(q, e.time)
          /\ q.lastAlertTs = Profile.lastAlertTs
          /\ timers' \subseteq Nat
          /\ q.nextTimer # 0 => q.nextTimer \in timers'
          /\ q.score > 0 => q.nextTimer # 0
    BY Emission
  <1>9. /\ alerts' \in Seq(AlertType) /\ emitted' \subseteq StampedIds
        /\ profile' \in ProfileType /\ profile'.written = wall
        /\ profile'.score = q.score /\ profile'.nextTimer = q.nextTimer
        /\ AlertsNamed' /\ CooldownSpacing' /\ LastAlertKnown(profile)'
    <2>1. alerts # <<>> => LastAlert <= wall
      BY LastAlertPast
    <2> QED BY <1>1, <1>3, <1>5, <1>8, <2>1, EmitAlertKeeps
  <1>10. TimerNamed(profile)'
    BY <1>8, <1>9 DEF TimerNamed
  <1>11. /\ scored' \in Seq(ScoredType) /\ Len(scored') = Len(scored) + 1
         /\ scored'[Len(scored')] = r
         /\ \A i \in 1..Len(scored) : scored'[i] = scored[i]
    BY <1>2, <1>3, <1>7
  <1>12. seen' \subseteq [key : Keys, ts : Nat, written : Nat]
    BY <1>1, <1>2, <1>3 DEF Remember, Pruned, IInv, TypeOK
  <1>13. TypeOK'
    BY <1>1, <1>3, <1>8, <1>9, <1>11, <1>12 DEF IInv, TypeOK
  <1>14. \A i \in 1..Len(scored) : scored[i].event.key # None =>
           \/ wall - scored[i].wall >= TTL - MaxLag
           \/ Entry(scored[i]) \in Pruned(seen, e.time)
    BY <1>1, PruningKeepsKeys
  <1>15. KeysRemembered'
    <2>1. Pruned(seen, e.time) \subseteq seen'
      BY <1>3 DEF Remember
    <2>2. e.key # None => Entry(r) \in seen'
      BY <1>3, <1>7 DEF Remember, Entry
    <2>3. ASSUME NEW i \in 1..Len(scored')
          PROVE  /\ scored'[i].wall <= wall
                 /\ scored'[i].event.time >= scored'[i].wall - MaxLag
                 /\ scored'[i].event.key # None =>
                      \/ wall - scored'[i].wall >= TTL - MaxLag
                      \/ Entry(scored'[i]) \in seen'
      <3>1. CASE i = Len(scored')
        BY <1>1, <1>2, <1>7, <1>11, <2>2, <3>1
      <3>2. CASE i # Len(scored')
        <4>1. i \in 1..Len(scored) /\ scored'[i] = scored[i]
          BY <1>2, <1>11, <3>2
        <4> QED BY <1>14, <2>1, <4>1 DEF IInv, KeysRemembered
      <3> QED BY <3>1, <3>2
    <2> QED BY <1>3, <2>3 DEF KeysRemembered, Entry
  <1>16. DedupWindow'
    <2>1. ASSUME NEW i \in 1..Len(scored), scored[i].event.key = e.key, e.key # None
          PROVE  wall - scored[i].wall >= TTL - MaxLag
      <3>1. Entry(scored[i]).key = e.key
        BY <2>1 DEF Entry
      <3> QED BY <1>1, <1>14, <2>1, <3>1 DEF Duplicate
    <2>2. SUFFICES ASSUME NEW i \in 1..Len(scored'), NEW j \in 1..Len(scored'), i < j,
                          scored'[i].event.key = scored'[j].event.key,
                          scored'[i].event.key # None
                   PROVE  scored'[j].wall - scored'[i].wall >= TTL - MaxLag
      BY DEF DedupWindow
    <2>3. i \in 1..Len(scored) /\ scored'[i] = scored[i]
      BY <1>2, <1>11, <2>2
    <2>4. CASE j = Len(scored')
      BY <1>7, <1>11, <2>1, <2>2, <2>3, <2>4
    <2>5. CASE j # Len(scored')
      <3>1. j \in 1..Len(scored) /\ scored'[j] = scored[j]
        BY <1>2, <1>11, <2>5
      <3> QED BY <2>2, <2>3, <3>1 DEF IInv, DedupWindow
    <2> QED BY <2>4, <2>5
  <1>17. profile'.written <= wall'
    BY <1>2, <1>3, <1>9
  <1> QED BY <1>9, <1>10, <1>13, <1>15, <1>16, <1>17 DEF IInv
-----------------------------------------------------------------------------
(* The invariant holds in every behaviour.                                 *)

LEMMA InitInv == Init => IInv
  <1>1. SUFFICES ASSUME Init PROVE IInv
    OBVIOUS
  <1>2. NoProfile \in ProfileType /\ NoProfile.score = 0 /\ NoProfile.nextTimer = 0
        /\ NoProfile.written = 0
    BY DEF NoProfile, ProfileType
  <1>3. TypeOK
    <2>1. /\ <<>> \in Seq(AlertType) /\ <<>> \in Seq(ScoredType)
          /\ MaxLag + 1 \in Nat /\ MaxLag + 1 > MaxLag
      BY LagAssumption
    <2>2. firing \in BOOLEAN /\ alerts = <<>> /\ scored = <<>>
      BY <1>1 DEF Init
    <2> QED BY <1>1, <1>2, <2>1, <2>2 DEF Init, TypeOK
  <1>4. profile.written <= wall /\ TimerNamed(profile) /\ LastAlertKnown(profile)
    BY <1>1, <1>2, LagAssumption DEF Init, TimerNamed, LastAlertKnown
  <1>5. AlertsNamed /\ CooldownSpacing /\ KeysRemembered /\ DedupWindow
    BY <1>1 DEF Init, AlertsNamed, CooldownSpacing, KeysRemembered, DedupWindow
  <1> QED BY <1>3, <1>4, <1>5 DEF IInv

LEMMA StutterKeeps == IInv /\ UNCHANGED vars => IInv'
  BY DEF vars, IInv, TypeOK, LastAlertKnown, LastAlert, AlertsNamed,
         CooldownSpacing, Expired, TimerNamed, KeysRemembered, Entry, DedupWindow

LEMMA NextInv == IInv /\ [Next]_vars => IInv'
  <1>1. SUFFICES ASSUME IInv, [Next]_vars PROVE IInv'
    OBVIOUS
  <1>2. ASSUME NEW e, DropDuplicate(e) PROVE IInv'
    BY <1>1, <1>2, DropDuplicateKeeps
  <1>3. ASSUME NEW e, ScoreEvent(e) PROVE IInv'
    BY <1>1, <1>3, ScoreEventKeeps
  <1>4. ASSUME NEW w \in 0..wall, AdvanceWatermark(w) PROVE IInv'
    <2>1. w \in Nat
      BY <1>1, <1>4 DEF IInv, TypeOK
    <2> QED BY <1>1, <1>4, <2>1, AdvanceWatermarkKeeps
  <1>5. ASSUME NEW t \in timers, FireTimer(t) PROVE IInv'
    BY <1>1, <1>5, FireTimerKeeps
  <1>6. CASE TimersDone
    BY <1>1, <1>6, TimersDoneKeeps
  <1>7. ASSUME NEW gap \in Gaps, Tick(gap) PROVE IInv'
    BY <1>1, <1>7, TickKeeps
  <1>8. CASE UNCHANGED vars
    BY <1>1, <1>8, StutterKeeps
  <1> QED BY <1>1, <1>2, <1>3, <1>4, <1>5, <1>6, <1>7, <1>8 DEF Next

THEOREM Invariance == Spec => []IInv
  BY InitInv, NextInv, PTL DEF Spec

(* The operator's state, timers, clocks and output keep their types, and a *)
(* score is never negative, whatever the weights, thresholds and periods.  *)
THEOREM TypeCorrect == Spec => []TypeOK
  <1>1. IInv => TypeOK
    BY DEF IInv
  <1> QED BY <1>1, Invariance, PTL

(* processElement's cooldown holds for every weight, window and period, as *)
(* long as no event trails the wall clock by more than TTL less Cooldown.  *)
THEOREM CooldownHolds == Spec => []CooldownSpacing
  <1>1. IInv => CooldownSpacing
    BY DEF IInv
  <1> QED BY <1>1, Invariance, PTL

(* The deterministic alert ids of buildDeterministicAlertId never name two *)
(* alerts of one identity: alerts are a cooldown apart, and times that far *)
(* apart fall into different id windows.                                   *)
THEOREM IdsNeverRepeat == Spec => []AlertIdsUnique
  <1>1. ASSUME IInv PROVE AlertIdsUnique
    <2>1. \A i \in 1..Len(alerts) : alerts[i].time \in Nat
      BY <1>1, AlertTimes DEF IInv, TypeOK
    <2>2. ASSUME NEW i \in 1..Len(alerts), NEW j \in 1..Len(alerts), i < j
          PROVE  alerts[i].id # alerts[j].id
      <3>1. alerts[j].time >= alerts[i].time + Cooldown
        BY <1>1, <2>2 DEF IInv, CooldownSpacing
      <3>2. alerts[i].time \div Cooldown # alerts[j].time \div Cooldown
        BY <2>1, <3>1, DivApart, PeriodsAssumption
      <3>3. /\ alerts[i].id = <<alerts[i].severity, alerts[i].time \div Cooldown>>
            /\ alerts[j].id = <<alerts[j].severity, alerts[j].time \div Cooldown>>
        BY <1>1 DEF IInv, AlertsNamed
      <3> QED BY <3>2, <3>3
    <2>3. \A i, j \in 1..Len(alerts) : i < j \/ j < i \/ i = j
      BY <1>1 DEF IInv, TypeOK
    <2> QED BY <2>2, <2>3 DEF AlertIdsUnique
  <1> QED BY <1>1, Invariance, PTL

(* "Ensure a decay timer is pending whenever there's a live score", over   *)
(* every interleaving of events, watermarks and expiry.                    *)
THEOREM TimerAlwaysPending == Spec => []DecayTimerPending
  <1>1. IInv => DecayTimerPending
    BY DEF IInv, DecayTimerPending, TimerNamed
  <1> QED BY <1>1, Invariance, PTL

(* A duplicate is dropped for at least TTL - MaxLag after the event that   *)
(* was scored, however the pruning by event time and the TTL on the wall   *)
(* clock interleave.                                                       *)
THEOREM DuplicatesDropped == Spec => []DedupWindow
  <1>1. IInv => DedupWindow
    BY DEF IInv
  <1> QED BY <1>1, Invariance, PTL

-----------------------------------------------------------------------------
(* AttackNeverSilenced: what suppresses an alert stands for one that was   *)
(* sent.                                                                   *)

(* The last alert of profile p, and every alert id remembered, were sent.  *)
LastAlertSent(p) ==
    p.lastAlertTs # 0 => \E i \in 1..Len(alerts) : alerts[i].time = p.lastAlertTs

IdsSent == \A a \in emitted : \E i \in 1..Len(alerts) : alerts[i].id = a.id

SInv == IInv /\ LastAlertSent(profile) /\ IdsSent

(* An alert with the id of this moment is less than Cooldown old.          *)
LEMMA SameIdRecent ==
    ASSUME IInv, NEW i \in 1..Len(alerts), NEW now \in Nat, NEW score,
           alerts[i].id = AlertId(score, now)
    PROVE  alerts[i].time > now - Cooldown
  <1>1. alerts[i].time \in Nat
    BY AlertTimes DEF IInv, TypeOK
  <1>2. alerts[i].time \div Cooldown = now \div Cooldown
    BY DEF IInv, AlertsNamed, AlertId
  <1>3. ~(now >= alerts[i].time + Cooldown)
    BY <1>1, <1>2, DivApart, PeriodsAssumption
  <1> QED BY <1>1, <1>3, PeriodsAssumption

LEMMA EmitAlertSent ==
    ASSUME SInv, NEW q \in ProfileType, NEW now \in Nat, q.lastAlertTs = Profile.lastAlertTs,
           EmitAlert(q, now)
    PROVE  /\ LastAlertSent(profile)' /\ IdsSent'
           /\ profile'.score > AlertThreshold =>
                \E i \in 1..Len(alerts') : alerts'[i].time > now - Cooldown
  <1>1. alerts \in Seq(AlertType) /\ Cooldown \in Nat \ {0}
    BY PeriodsAssumption DEF SInv, IInv, TypeOK
  <1>2. q.lastAlertTs # 0 => \E i \in 1..Len(alerts) : alerts[i].time = q.lastAlertTs
    BY DEF SInv, LastAlertSent, Profile, NoProfile
  <1>3. CASE ~Alerting(q, now)
    <2>1. alerts' = alerts /\ emitted' \subseteq emitted /\ profile' = [q EXCEPT !.written = wall]
      BY <1>3 DEF EmitAlert, Pruned
    <2>2. profile'.lastAlertTs = q.lastAlertTs /\ profile'.score = q.score
      BY <2>1 DEF ProfileType
    <2>3. ASSUME q.score > AlertThreshold
          PROVE  \E i \in 1..Len(alerts) : alerts[i].time > now - Cooldown
      <3>1. CASE CooldownExpired(q, now)
        <4>1. PICK a \in emitted : a.id = AlertId(q.score, now)
          BY <1>3, <2>3, <3>1 DEF Alerting, MayAlert, Pruned
        <4>2. PICK i \in 1..Len(alerts) : alerts[i].id = a.id
          BY DEF SInv, IdsSent
        <4> QED BY <4>1, <4>2, SameIdRecent DEF SInv
      <3>2. CASE ~CooldownExpired(q, now)
        <4>1. q.lastAlertTs # 0 /\ ~(now - q.lastAlertTs >= Cooldown)
          BY <3>2 DEF CooldownExpired
        <4>2. PICK i \in 1..Len(alerts) : alerts[i].time = q.lastAlertTs
          BY <1>2, <4>1
        <4>3. q.lastAlertTs \in Nat
          BY DEF ProfileType
        <4> QED BY <1>1, <4>1, <4>2, <4>3
      <3> QED BY <3>1, <3>2
    <2> QED BY <1>2, <2>1, <2>2, <2>3 DEF LastAlertSent, IdsSent, SInv
  <1>4. CASE Alerting(q, now)
    <2> PICK new : new = Alert(q, now)
      OBVIOUS
    <2>1. /\ alerts' = Append(alerts, new)
          /\ emitted' = Pruned(emitted, now)
               \cup {[id |-> AlertId(q.score, now), ts |-> now, written |-> wall]}
          /\ profile' = [q EXCEPT !.lastAlertTs = now, !.written = wall]
      BY <1>4 DEF EmitAlert
    <2>2. new.time = now /\ new.id = AlertId(q.score, now)
      BY DEF Alert
    <2>3. profile'.lastAlertTs = now
      BY <2>1 DEF ProfileType
    <2> PICK last : last = Len(alerts) + 1
      OBVIOUS
    <2>4. /\ last \in 1..Len(alerts') /\ alerts'[last] = new
          /\ \A i \in 1..Len(alerts) : i \in 1..Len(alerts') /\ alerts'[i] = alerts[i]
      BY <1>1, <2>1
    <2>5. LastAlertSent(profile)'
      BY <2>2, <2>3, <2>4 DEF LastAlertSent
    <2>6. ASSUME NEW a \in emitted' PROVE \E i \in 1..Len(alerts') : alerts'[i].id = a.id
      <3>1. CASE a \in emitted
        <4>1. PICK i \in 1..Len(alerts) : alerts[i].id = a.id
          BY <3>1 DEF SInv, IdsSent
        <4> QED BY <2>4, <4>1
      <3>2. CASE a.id = AlertId(q.score, now)
        BY <2>2, <2>4, <3>2
      <3> QED BY <2>1, <3>1, <3>2 DEF Pruned
    <2>7. new.time > now - Cooldown
      BY <1>1, <2>2
    <2> QED BY <2>4, <2>5, <2>6, <2>7 DEF IdsSent
  <1> QED BY <1>3, <1>4

LEMMA SInvInit == Init => SInv
  BY InitInv DEF Init, SInv, LastAlertSent, IdsSent, NoProfile

(* Every other step leaves the alerts alone and forgets at most.           *)
LEMMA QuietSent ==
    ASSUME SInv, NEW p \in ProfileType, p.lastAlertTs \in {profile.lastAlertTs, 0},
           profile'.lastAlertTs = p.lastAlertTs, alerts' = alerts, emitted' = emitted
    PROVE  LastAlertSent(profile)' /\ IdsSent'
  BY DEF SInv, LastAlertSent, IdsSent

LEMMA FireTimerSent ==
    ASSUME SInv, NEW t \in timers, FireTimer(t)
    PROVE  LastAlertSent(profile)' /\ IdsSent'
  <1>1. profile \in ProfileType /\ t \in Nat /\ wall \in Nat
    BY DEF SInv, IInv, TypeOK
  <1>2. alerts' = alerts /\ emitted' = emitted
    BY DEF FireTimer
  <1>3. profile'.lastAlertTs = profile.lastAlertTs
    <2> PICK p : p = Decayed(profile, t)
      OBVIOUS
    <2>1. p \in ProfileType /\ p.lastAlertTs = profile.lastAlertTs
      BY <1>1, DecayedType
    <2>2. profile' = profile \/ \E timer : profile' = [p EXCEPT !.nextTimer = timer, !.written = wall]
      BY DEF FireTimer
    <2> QED BY <2>1, <2>2 DEF ProfileType
  <1> QED BY <1>1, <1>2, <1>3, QuietSent

LEMMA DropDuplicateSent ==
    ASSUME SInv, NEW e, DropDuplicate(e)
    PROVE  LastAlertSent(profile)' /\ IdsSent'
  <1>1. Profile \in ProfileType /\ Profile.lastAlertTs \in {profile.lastAlertTs, 0}
    BY ReadState DEF SInv, Profile, NoProfile
  <1>2. alerts' = alerts /\ emitted' = emitted /\ profile' = [Profile EXCEPT !.written = wall]
    BY DEF DropDuplicate
  <1>3. profile'.lastAlertTs = Profile.lastAlertTs
    BY <1>1, <1>2 DEF ProfileType
  <1> QED BY <1>1, <1>2, <1>3, QuietSent

(* The only step that scores: an alert of less than Cooldown ago exists,   *)
(* if not for this event then for one before it.                           *)
LEMMA ScoreEventSent ==
    ASSUME SInv, NEW e, ScoreEvent(e)
    PROVE  /\ LastAlertSent(profile)' /\ IdsSent'
           /\ profile'.score > AlertThreshold =>
                \E i \in 1..Len(alerts') :
                  alerts'[i].time > scored'[Len(scored')].event.time - Cooldown
  <1>1. e.time \in Nat
    BY ArrivalTime DEF SInv, ScoreEvent
  <1>2. PICK q \in ProfileType : EmitAlert(q, e.time) /\ q.lastAlertTs = Profile.lastAlertTs
    BY Emission DEF SInv
  <1>3. scored'[Len(scored')].event = e
    <2>1. scored \in Seq(ScoredType)
      BY DEF SInv, IInv, TypeOK
    <2> PICK r : r = [event |-> e, wall |-> wall,
                      indicators |-> DeriveIndicators(e.row, e.time, Memory),
                      halvings |-> DecaySteps(Profile, e.time)]
      OBVIOUS
    <2>2. scored' = Append(scored, r) /\ r.event = e
      BY DEF ScoreEvent
    <2> QED BY <2>1, <2>2
  <1> QED BY <1>1, <1>2, <1>3, EmitAlertSent

LEMMA SInvStep == SInv /\ [Next]_vars => SInv'
  <1> SUFFICES ASSUME SInv, [Next]_vars PROVE SInv'
    OBVIOUS
  <1>1. IInv'
    BY NextInv DEF SInv
  <1>2. ASSUME NEW e, DropDuplicate(e) \/ ScoreEvent(e) PROVE SInv'
    BY <1>1, <1>2, DropDuplicateSent, ScoreEventSent DEF SInv
  <1>3. ASSUME NEW t \in timers, FireTimer(t) PROVE SInv'
    BY <1>1, <1>3, FireTimerSent DEF SInv
  <1>4. CASE profile' = profile /\ alerts' = alerts /\ emitted' = emitted
    BY <1>1, <1>4 DEF SInv, LastAlertSent, IdsSent
  <1>5. \/ \E e \in EventsNow : DropDuplicate(e) \/ ScoreEvent(e)
        \/ \E t \in timers : FireTimer(t)
        \/ profile' = profile /\ alerts' = alerts /\ emitted' = emitted
    BY DEF Next, vars, AdvanceWatermark, TimersDone, Tick
  <1> QED BY <1>2, <1>3, <1>4, <1>5

(* AttackNeverSilenced: cooldown and the id check suppress repeats, never  *)
(* the first alert of an attack, whatever has expired or arrives late.     *)
THEOREM NeverSilenced == Spec => AttackNeverSilenced
  <1>1. SInv /\ [Next]_vars =>
          [scored' # scored /\ profile'.score > AlertThreshold =>
             \E i \in 1..Len(alerts') :
                alerts'[i].time > scored'[Len(scored')].event.time - Cooldown]_vars
    <2> SUFFICES ASSUME SInv, [Next]_vars, scored' # scored, profile'.score > AlertThreshold
                 PROVE  \E i \in 1..Len(alerts') :
                          alerts'[i].time > scored'[Len(scored')].event.time - Cooldown
      OBVIOUS
    <2>1. PICK e \in EventsNow : ScoreEvent(e)
      BY DEF Next, vars, DropDuplicate, AdvanceWatermark, FireTimer, TimersDone, Tick
    <2> QED BY <2>1, ScoreEventSent
  <1> QED BY <1>1, SInvInit, SInvStep, PTL DEF Spec, AttackNeverSilenced

-----------------------------------------------------------------------------
(* A sweep over the timers converges: the firings it may have left are     *)
(* pairs of a timer and an instant it reaches, and the chain that goes on  *)
(* from a later timer reaches fewer of them.                               *)
Instants(T, w) == UNION {{t} \X (t..w) : t \in T}

Instant(x, T, w) == \E t \in T : \E k \in t..w : x = <<t, k>>

LEMMA InstantOf ==
    ASSUME NEW T, NEW w, NEW x
    PROVE  x \in Instants(T, w) <=> Instant(x, T, w)
  BY DEF Instants, Instant

LEMMA InstantsFinite ==
    ASSUME NEW T \in SUBSET Nat, NEW w \in Nat
    PROVE  IsFiniteSet(Instants(T, w)) /\ Cardinality(Instants(T, w)) \in Nat
  <1> PICK box : box = (0..w) \X (0..w)
    OBVIOUS
  <1>1. IsFiniteSet(0..w)
    BY FS_Interval
  <1>2. IsFiniteSet(box)
    BY <1>1, FS_Product
  <1>3. ASSUME NEW x \in Instants(T, w) PROVE x \in box
    <2>1. Instant(x, T, w)
      BY InstantOf
    <2>2. PICK t \in T : \E k \in t..w : x = <<t, k>>
      BY <2>1 DEF Instant
    <2>3. PICK k \in t..w : x = <<t, k>>
      BY <2>2
    <2> QED BY <2>3
  <1> QED BY <1>2, <1>3, FS_Subset, FS_CardinalityType

(* A timer that fires and one later in its place: what the later one has   *)
(* left can be told by the earlier, and the first instant is gone.         *)
LEMMA SweepShrinks ==
    ASSUME NEW T \in SUBSET Nat, NEW U, NEW w \in Nat, NEW t \in T, t <= w,
           NEW next \in Nat, t < next, U \subseteq (T \ {t}) \cup {next}
    PROVE  Cardinality(Instants(U, w)) < Cardinality(Instants(T, w))
  <1> PICK S : S = Instants(T, w)
    OBVIOUS
  <1> PICK R : R = Instants(U, w)
    OBVIOUS
  <1> PICK f : f = [x \in R |-> IF x[1] = next THEN <<t, x[2]>> ELSE x]
    OBVIOUS
  <1>1. <<t, t>> \in S
    BY InstantOf DEF Instant
  <1>2. ASSUME NEW x \in R PROVE f[x] \in S \ {<<t, t>>}
    <2>1. Instant(x, U, w)
      BY InstantOf
    <2>2. PICK u \in U : \E k \in u..w : x = <<u, k>>
      BY <2>1 DEF Instant
    <2>3. PICK k \in u..w : x = <<u, k>>
      BY <2>2
    <2>4. CASE u = next
      <3>1. f[x] = <<t, k>> /\ k \in t..w /\ k # t
        BY <2>3, <2>4
      <3>2. Instant(f[x], T, w)
        BY <3>1 DEF Instant
      <3> QED BY <3>1, <3>2, InstantOf
    <2>5. CASE u # next
      <3>1. f[x] = <<u, k>> /\ u \in T /\ u # t
        BY <2>3, <2>5
      <3>2. Instant(f[x], T, w)
        BY <2>3, <3>1 DEF Instant
      <3> QED BY <3>1, <3>2, InstantOf
    <2> QED BY <2>4, <2>5
  <1>3. ASSUME NEW x \in R, NEW y \in R, f[x] = f[y] PROVE x = y
    <2>1. Instant(x, U, w)
      BY InstantOf
    <2>2. PICK u \in U : \E k \in u..w : x = <<u, k>>
      BY <2>1 DEF Instant
    <2>3. PICK k \in u..w : x = <<u, k>>
      BY <2>2
    <2>4. Instant(y, U, w)
      BY InstantOf
    <2>5. PICK v \in U : \E l \in v..w : y = <<v, l>>
      BY <2>4 DEF Instant
    <2>6. PICK l \in v..w : y = <<v, l>>
      BY <2>5
    <2>7. u = next \/ u \in T \ {t}
      OBVIOUS
    <2>8. v = next \/ v \in T \ {t}
      OBVIOUS
    <2> QED BY <1>3, <2>3, <2>6, <2>7, <2>8
  <1>4. f \in Injection(R, S \ {<<t, t>>})
    BY <1>2, <1>3 DEF Injection, IsInjective
  <1>5. /\ IsFiniteSet(S) /\ Cardinality(S) \in Nat
        /\ IsFiniteSet(S \ {<<t, t>>}) /\ Cardinality(S \ {<<t, t>>}) = Cardinality(S) - 1
    BY <1>1, InstantsFinite, FS_RemoveElement
  <1>6. Cardinality(R) <= Cardinality(S) - 1 /\ IsFiniteSet(R)
    BY <1>4, <1>5, FS_Injection
  <1>7. Cardinality(R) \in Nat
    BY <1>6, FS_CardinalityType
  <1> QED BY <1>5, <1>6, <1>7

(* Each timer that fires leaves strictly less to fire.                     *)
LEMMA FireTimerConverges ==
    ASSUME TypeOK, NEW t \in timers, FireTimer(t)
    PROVE  Cardinality(Outstanding') < Cardinality(Outstanding)
  <1>1. /\ timers \subseteq Nat /\ watermark \in Nat /\ watermark' = watermark
        /\ t \in Nat /\ t <= watermark
    BY DEF TypeOK, FireTimer
  <1> PICK next : next = NextTimer(t)
    OBVIOUS
  <1>2. next \in Nat /\ t < next
    BY <1>1, PeriodsAssumption DEF NextTimer
  <1>3. timers' \subseteq (timers \ {t}) \cup {next}
    BY DEF FireTimer
  <1>4. Outstanding = Instants(timers, watermark) /\ Outstanding' = Instants(timers', watermark)
    BY <1>1 DEF Outstanding, Instants
  <1> QED BY <1>1, <1>2, <1>3, <1>4, SweepShrinks

(* FiringConverges: between two events onTimer runs a bounded number of    *)
(* times, over any jump of the watermark and with any number of timer      *)
(* chains.                                                                 *)
THEOREM SweepsConverge == Spec => FiringConverges
  <1>1. IInv /\ [Next]_vars =>
          [firing /\ firing' => Cardinality(Outstanding') < Cardinality(Outstanding)]_vars
    <2> SUFFICES ASSUME IInv, Next, firing, firing'
                 PROVE  Cardinality(Outstanding') < Cardinality(Outstanding)
      OBVIOUS
    <2>1. PICK t \in timers : FireTimer(t)
      BY DEF Next, DropDuplicate, ScoreEvent, Arrives, AdvanceWatermark, TimersDone, Tick
    <2> QED BY <2>1, FireTimerConverges DEF IInv
  <1> QED BY <1>1, InitInv, NextInv, PTL DEF Spec, FiringConverges
=============================================================================
