----------------------- MODULE SecondaryEngineProofs -----------------------
(***************************************************************************)
(* What the lock of the secondary engine is for, for any messages, weights *)
(* and periods: alerts keep the cooldown although a thread reads the clock *)
(* before it waits, an indicator leaves a profile with an alert, a score   *)
(* is explained by its indicators, the velocity counts each identity's     *)
(* transactions, and deciding, reporting and resetting look like one step, *)
(* whatever the other threads do meanwhile.                                *)
(***************************************************************************)
EXTENDS SecondaryEngine, FiniteSetTheorems, WellFoundedInduction, TLAPS

LEMMA NatOrder == IsWellFoundedOn({ss \in Nat \X Nat : ss[1] < ss[2]}, Nat)
  BY NatLessThanWellFounded, Zenon DEF OpToRel

(* A set of numbers has a least one.                                       *)
LEMMA LeastNatural ==
    ASSUME NEW T \in SUBSET Nat, T # {}
    PROVE  \E x \in T : \A y \in T : x <= y
  <1> PICK R : R = {ss \in Nat \X Nat : ss[1] < ss[2]}
    OBVIOUS
  <1>1. PICK x \in T : \A y \in T : <<y, x>> \notin R
    BY NatOrder, WFMin
  <1>2. ASSUME NEW y \in T PROVE x <= y
    <2>1. <<y, x>> \in Nat \X Nat /\ <<y, x>>[1] = y /\ <<y, x>>[2] = x
      OBVIOUS
    <2>2. ~(y < x)
      BY <1>1, <2>1
    <2> QED BY <1>2, <2>2
  <1> QED BY <1>2

-----------------------------------------------------------------------------
(* Running sums: what is gained and lost at every step from 1 to n.        *)
Sums(f, n, gain, loss) ==
    /\ f[0] = 0
    /\ \A k \in 1..n : f[k] = f[k - 1] + gain[k] - loss[k]

(* Their recursion determines them.                                        *)
LEMMA SumsAgree ==
    ASSUME NEW n \in Nat, NEW gain, NEW loss, NEW f, NEW g,
           Sums(f, n, gain, loss), Sums(g, n, gain, loss)
    PROVE  \A k \in 0..n : f[k] = g[k]
  <1> PICK T : T = {k \in 0..n : f[k] # g[k]}
    OBVIOUS
  <1>1. ASSUME T # {} PROVE FALSE
    <2>1. T \in SUBSET Nat
      OBVIOUS
    <2>2. PICK k \in T : \A y \in T : k <= y
      BY <1>1, <2>1, LeastNatural
    <2>3. k \in 1..n /\ k - 1 \in 0..n /\ k - 1 \notin T
      BY <2>2 DEF Sums
    <2>4. f[k - 1] = g[k - 1]
      BY <2>3
    <2> QED BY <2>2, <2>3, <2>4 DEF Sums
  <1> QED BY <1>1

(* They exist.                                                             *)
LEMMA SumsExist ==
    ASSUME NEW n \in Nat, NEW gain, NEW loss, \A k \in 1..n : gain[k] \in Int /\ loss[k] \in Int
    PROVE  \E f \in [0..n -> Int] : Sums(f, n, gain, loss)
  <1> DEFINE Has(m) == \E f \in [0..m -> Int] : Sums(f, m, gain, loss)
  <1> PICK T : T = {m \in 0..n : ~Has(m)}
    OBVIOUS
  <1>1. Has(0)
    <2> PICK f : f = [k \in 0..0 |-> 0]
      OBVIOUS
    <2>1. f \in [0..0 -> Int] /\ f[0] = 0
      OBVIOUS
    <2> QED BY <2>1 DEF Sums
  <1>2. ASSUME NEW m \in 1..n, Has(m - 1) PROVE Has(m)
    <2> PICK p : p = m - 1
      OBVIOUS
    <2>1. PICK g \in [0..p -> Int] : Sums(g, p, gain, loss)
      BY <1>2
    <2> PICK f : f = [k \in 0..m |-> IF k = m THEN g[p] + gain[m] - loss[m] ELSE g[k]]
      OBVIOUS
    <2>2. p \in Nat /\ p + 1 = m /\ gain[m] \in Int /\ loss[m] \in Int /\ g[p] \in Int
      BY <1>2, <2>1
    <2>3. f \in [0..m -> Int] /\ f[m] = g[p] + gain[m] - loss[m] /\ \A k \in 0..p : f[k] = g[k]
      BY <1>2, <2>1, <2>2
    <2>4. ASSUME NEW k \in 1..m PROVE f[k] = f[k - 1] + gain[k] - loss[k]
      <3>1. CASE k = m
        BY <2>2, <2>3, <3>1
      <3>2. CASE k # m
        <4>1. k \in 1..p /\ k - 1 \in 0..p /\ k \in 0..p
          BY <1>2, <2>2, <2>4, <3>2
        <4> QED BY <2>1, <2>3, <4>1 DEF Sums
      <3> QED BY <3>1, <3>2
    <2>5. f[0] = 0
      BY <2>1, <2>2, <2>3 DEF Sums
    <2> QED BY <2>3, <2>4, <2>5 DEF Sums
  <1> HIDE DEF Has
  <1>3. ASSUME T # {} PROVE FALSE
    <2>1. T \in SUBSET Nat
      OBVIOUS
    <2>2. PICK k \in T : \A y \in T : k <= y
      BY <1>3, <2>1, LeastNatural
    <2>3. k \in 1..n /\ k - 1 \in 0..n /\ k - 1 \notin T
      BY <1>1, <2>2
    <2> QED BY <1>2, <2>2, <2>3
  <1>4. Has(n)
    BY <1>3
  <1> QED BY <1>4 DEF Has

(* f sums a sequence, g its first n steps and h the m that follow.         *)
Parts(f, g, h, n, m, gain, loss, gain2, loss2) ==
    /\ n \in Nat /\ m \in Nat /\ f \in [0..n + m -> Int]
    /\ Sums(f, n + m, gain, loss) /\ Sums(g, n, gain, loss) /\ Sums(h, m, gain2, loss2)
    /\ \A k \in 1..m : gain2[k] = gain[n + k] /\ loss2[k] = loss[n + k]
    /\ \A k \in 1..n + m : gain[k] \in Int /\ loss[k] \in Int

LEMMA SumsSplit ==
    ASSUME NEW f, NEW g, NEW h, NEW n, NEW m, NEW gain, NEW loss, NEW gain2, NEW loss2,
           Parts(f, g, h, n, m, gain, loss, gain2, loss2)
    PROVE  f[n + m] = g[n] + h[m]
  <1>0. /\ n \in Nat /\ m \in Nat /\ f \in [0..n + m -> Int]
        /\ Sums(f, n + m, gain, loss) /\ Sums(g, n, gain, loss) /\ Sums(h, m, gain2, loss2)
        /\ \A k \in 1..m : gain2[k] = gain[n + k] /\ loss2[k] = loss[n + k]
        /\ \A k \in 1..n + m : gain[k] \in Int /\ loss[k] \in Int
    BY DEF Parts
  <1> PICK d : d = [k \in 0..m |-> f[n + k] - f[n]]
    OBVIOUS
  <1>1. f[n] = g[n]
    <2>1. Sums(f, n, gain, loss)
      BY <1>0 DEF Sums
    <2> QED BY <1>0, <2>1, SumsAgree
  <1>2. Sums(d, m, gain2, loss2)
    <2>1. d[0] = 0
      BY <1>0
    <2>2. ASSUME NEW k \in 1..m PROVE d[k] = d[k - 1] + gain2[k] - loss2[k]
      <3> PICK i : i = n + k
        OBVIOUS
      <3>1. i \in 1..n + m /\ i - 1 = n + (k - 1) /\ i - 1 \in 0..n + m /\ i \in 0..n + m
        BY <1>0
      <3>2. f[i] = f[i - 1] + gain[i] - loss[i]
        BY <1>0, <3>1 DEF Sums
      <3>3. d[k] = f[i] - f[n] /\ d[k - 1] = f[i - 1] - f[n]
        BY <1>0, <3>1
      <3>6. gain2[k] = gain[i] /\ loss2[k] = loss[i]
        BY <1>0
      <3>4. f[i] \in Int /\ f[i - 1] \in Int /\ f[n] \in Int /\ gain[i] \in Int /\ loss[i] \in Int
        BY <1>0, <3>1
      <3> QED BY <3>2, <3>3, <3>4, <3>6
    <2> QED BY <1>0, <2>1, <2>2 DEF Sums
  <1>3. d[m] = h[m]
    BY <1>0, <1>2, SumsAgree
  <1>4. d[m] = f[n + m] - f[n] /\ f[n + m] \in Int /\ f[n] \in Int
    BY <1>0
  <1> QED BY <1>1, <1>3, <1>4

(* What never loses never falls below zero.                                *)
LEMMA SumsNatural ==
    ASSUME NEW n \in Nat, NEW gain, NEW loss, NEW f \in [0..n -> Int], Sums(f, n, gain, loss),
           \A k \in 1..n : gain[k] \in Nat /\ loss[k] = 0
    PROVE  f[n] \in Nat
  <1> PICK T : T = {k \in 0..n : f[k] < 0}
    OBVIOUS
  <1>1. ASSUME T # {} PROVE FALSE
    <2>1. T \in SUBSET Nat
      OBVIOUS
    <2>2. PICK k \in T : \A y \in T : k <= y
      BY <1>1, <2>1, LeastNatural
    <2>3. k \in 1..n /\ k - 1 \in 0..n /\ k - 1 \notin T
      BY <2>2 DEF Sums
    <2>4. f[k] = f[k - 1] + gain[k] - loss[k]
      BY <2>3 DEF Sums
    <2> QED BY <2>2, <2>3, <2>4
  <1> QED BY <1>1

-----------------------------------------------------------------------------

Fields == {"score", "lastDecay", "indicators", "lastDevice", "lastCountry", "lastLogin",
           "lastAlert", "failedLogins", "transactions", "apiRequests"}

ScoringTopics == Topics \ {"banking.accounts"}

(* What a thread has in hand.  With the lock, it is about an alert whose   *)
(* cooldown has passed and which carries all that is owed.                 *)
InHand(t) ==
    LET h == threads[t]
    IN  /\ h.pc \in {"poll", "resolve", "enter", "flush"}
        /\ h.pc \in {"resolve", "enter"} =>
             h.message \in Messages /\ h.message.topic = t /\ h.now \in Nat
        /\ h.pc = "enter" => t \in ScoringTopics /\ h.identity \in Identities
        /\ h.pc = "flush" =>
             /\ h.identity \in DOMAIN profiles /\ h.now \in Nat
             /\ h.alert.identity = h.identity /\ h.alert.life = crashes
             /\ h.alert.time = h.now /\ h.alert.window = h.now \div CooldownSec
             /\ profiles[h.identity].lastAlert + CooldownSec <= h.now
             /\ h.carried = Len(owed[h.identity])

OneHolder ==
    \A t, u \in Topics : threads[t].pc = "flush" /\ threads[u].pc = "flush" => t = u

ProfilesOK ==
    /\ DOMAIN profiles \subseteq Identities
    /\ owed \in [Identities -> Seq(IndicatorNames)]
    /\ \A i \in DOMAIN profiles :
         /\ DOMAIN profiles[i] = Fields /\ profiles[i].lastAlert \in Nat
         /\ profiles[i].indicators = LastN(owed[i], MaxIndicators)
    /\ \A i \in Identities \ DOMAIN profiles : owed[i] = <<>>

(* The profile remembers the last alert of this life. *)
Remembered(alert) ==
    /\ alert.time \in Nat /\ alert.life \in Nat /\ alert.life <= crashes
    /\ alert.window = alert.time \div CooldownSec
    /\ alert.life = crashes =>
         /\ alert.identity \in DOMAIN profiles
         /\ alert.time <= profiles[alert.identity].lastAlert

Apart(first, second) ==
    first.identity = second.identity /\ first.life = second.life
        => second.time >= first.time + CooldownSec

AlertsOK ==
    /\ \E S : alerts \in Seq(S)
    /\ \A k \in 1..Len(alerts) : Remembered(alerts[k])
    /\ \A j, k \in 1..Len(alerts) : j < k => Apart(alerts[j], alerts[k])

IInv ==
    /\ wall \in Nat /\ crashes \in Nat
    /\ accounts \in [Accounts -> Customers \cup {None}]
    /\ DOMAIN threads = Topics /\ \A t \in Topics : InHand(t)
    /\ OneHolder /\ ProfilesOK /\ AlertsOK

-----------------------------------------------------------------------------
(* Times and deques. *)

LEMMA DivApart ==
    ASSUME NEW a \in Nat, NEW b \in Nat, NEW c \in Nat \ {0}, b >= a + c
    PROVE  a \div c # b \div c
  <1> PICK q, r : q = a \div c /\ r = b \div c
    OBVIOUS
  <1>1. q \in Nat /\ r \in Nat /\ c * q <= a /\ b < c * r + c
    OBVIOUS
  <1>2. ASSUME q = r PROVE FALSE
    <2>1. c * q \in Nat
      BY <1>1
    <2> QED BY <1>1, <1>2, <2>1
  <1> QED BY <1>2

LEMMA SameSeq ==
    ASSUME NEW s \in Seq(IndicatorNames), NEW u \in Seq(IndicatorNames), Len(s) = Len(u),
           \A k \in 1..Len(s) : s[k] = u[k]
    PROVE  s = u
  OBVIOUS

LEMMA LastNWhole ==
    ASSUME NEW S, NEW s \in Seq(S), NEW n \in Nat, Len(s) <= n
    PROVE  LastN(s, n) = s
  <1>1. LastN(s, n) = SubSeq(s, 1, Len(s))
    <2>1. (IF Len(s) > n THEN Len(s) - n + 1 ELSE 1) = 1
      OBVIOUS
    <2> QED BY <2>1, Zenon DEF LastN
  <1>2. SubSeq(s, 1, Len(s)) = s
    OBVIOUS
  <1> QED BY <1>1, <1>2

LEMMA LastNElements ==
    ASSUME NEW S, NEW s \in Seq(S), NEW n \in Nat, Len(s) >= n
    PROVE  /\ LastN(s, n) \in Seq(S) /\ Len(LastN(s, n)) = n
           /\ \A k \in 1..n : LastN(s, n)[k] = s[Len(s) - n + k]
  <1>1. CASE Len(s) = n
    <2>1. LastN(s, n) = s
      BY <1>1, LastNWhole
    <2>2. \A k \in 1..n : Len(s) - n + k = k
      BY <1>1
    <2> QED BY <1>1, <2>1, <2>2
  <1>2. CASE Len(s) > n
    <2>1. LastN(s, n) = SubSeq(s, Len(s) - n + 1, Len(s))
      BY <1>2 DEF LastN
    <2> QED BY <1>2, <2>1
  <1> QED BY <1>1, <1>2

LEMMA Joined ==
    ASSUME NEW s \in Seq(IndicatorNames), NEW u \in Seq(IndicatorNames)
    PROVE  /\ s \o u \in Seq(IndicatorNames) /\ Len(s \o u) = Len(s) + Len(u)
           /\ \A k \in 1..Len(s) + Len(u) :
                (s \o u)[k] = IF k <= Len(s) THEN s[k] ELSE u[k - Len(s)]
  OBVIOUS

(* Dropping early or late leaves the same last elements. *)
LEMMA LastNAppended ==
    ASSUME NEW s \in Seq(IndicatorNames), NEW a \in Seq(IndicatorNames), NEW n \in Nat
    PROVE  LastN(LastN(s, n) \o a, n) = LastN(s \o a, n)
  <1>1. CASE Len(s) <= n
    BY <1>1, LastNWhole
  <1>2. CASE Len(s) > n
    <2> PICK u, l, m, v, w :
          /\ u = LastN(s, n) /\ l = Len(s) /\ m = Len(a)
          /\ v = u \o a /\ w = s \o a
      OBVIOUS
    <2>1. l \in Nat /\ m \in Nat /\ l >= n
      BY <1>2
    <2>2. /\ u \in Seq(IndicatorNames) /\ Len(u) = n
          /\ \A k \in 1..n : u[k] = s[l - n + k]
      BY <2>1, LastNElements
    <2>3. v \in Seq(IndicatorNames) /\ Len(v) = n + m
      BY <2>2, Joined
    <2>4. w \in Seq(IndicatorNames) /\ Len(w) = l + m
      BY <2>1, Joined
    <2>5. \A k \in 1..n : v[m + k] = w[l + m - n + k]
      <3> TAKE k \in 1..n
      <3> PICK i, j : i = m + k /\ j = l + m - n + k
        OBVIOUS
      <3>1. /\ i \in 1..Len(u) + Len(a) /\ j \in 1..Len(s) + Len(a)
            /\ i - Len(u) = j - Len(s) /\ (i <= Len(u) <=> j <= Len(s))
        BY <2>1, <2>2
      <3>2. v[i] = IF i <= Len(u) THEN u[i] ELSE a[i - Len(u)]
        BY <2>2, <3>1, Joined
      <3>3. w[j] = IF j <= Len(s) THEN s[j] ELSE a[j - Len(s)]
        BY <3>1, Joined
      <3>4. i <= Len(u) => u[i] = s[j]
        <4>1. i <= Len(u) => i \in 1..n /\ l - n + i = j
          BY <2>1, <2>2
        <4> QED BY <2>2, <4>1
      <3>5. v[i] = w[j]
        BY <3>1, <3>2, <3>3, <3>4, Zenon
      <3> QED BY <3>5
    <2>6. /\ LastN(v, n) \in Seq(IndicatorNames) /\ Len(LastN(v, n)) = n
          /\ \A k \in 1..n : LastN(v, n)[k] = v[m + k]
      <3>1. Len(v) >= n /\ \A k \in 1..n : Len(v) - n + k = m + k
        BY <2>1, <2>3
      <3>2. /\ LastN(v, n) \in Seq(IndicatorNames) /\ Len(LastN(v, n)) = n
            /\ \A k \in 1..n : LastN(v, n)[k] = v[Len(v) - n + k]
        BY <2>3, <3>1, LastNElements
      <3> QED BY <3>1, <3>2
    <2>7. /\ LastN(w, n) \in Seq(IndicatorNames) /\ Len(LastN(w, n)) = n
          /\ \A k \in 1..n : LastN(w, n)[k] = w[l + m - n + k]
      <3>1. Len(w) >= n /\ \A k \in 1..n : Len(w) - n + k = l + m - n + k
        BY <2>1, <2>4
      <3>2. /\ LastN(w, n) \in Seq(IndicatorNames) /\ Len(LastN(w, n)) = n
            /\ \A k \in 1..n : LastN(w, n)[k] = w[Len(w) - n + k]
        BY <2>4, <3>1, LastNElements
      <3> QED BY <3>1, <3>2
    <2>8. LastN(v, n) = LastN(w, n)
      <3> PICK x, y : x = LastN(v, n) /\ y = LastN(w, n)
        OBVIOUS
      <3>1. /\ x \in Seq(IndicatorNames) /\ y \in Seq(IndicatorNames)
            /\ Len(x) = n /\ Len(y) = n /\ \A k \in 1..n : x[k] = y[k]
        BY <2>5, <2>6, <2>7
      <3>2. x = y
        BY <3>1, SameSeq
      <3> QED BY <3>2
    <2> QED BY <2>8
  <1> QED BY <1>1, <1>2

LEMMA NothingLast == LastN(<<>>, MaxIndicators) = <<>>
  BY BoundsAssumption DEF LastN

-----------------------------------------------------------------------------
(* Scoring. *)

LEMMA IndicatorsTyped ==
    ASSUME NEW p, NEW m, NEW now, m.topic \in ScoringTopics
    PROVE  Indicators(p, m, now) \in Seq(IndicatorNames)
  <1>1. \A condition : \A name \in IndicatorNames : If(condition, name) \in Seq(IndicatorNames)
    BY DEF If
  <1>2. \A s, u \in Seq(IndicatorNames) : s \o u \in Seq(IndicatorNames)
    OBVIOUS
  <1> QED BY <1>1, <1>2 DEF Indicators, ScoringTopics, Topics, IndicatorNames

LEMMA ScoredKeeps ==
    ASSUME NEW p, DOMAIN p = Fields, NEW m, NEW now, m.topic \in ScoringTopics
    PROVE  LET before == Decayed(p, now)
               after  == Scored(before, m, now)
           IN  /\ DOMAIN after = Fields /\ after.lastAlert = p.lastAlert
               /\ after.indicators
                    = LastN(p.indicators \o Indicators(before, m, now), MaxIndicators)
  <1> PICK before, seen, added :
        /\ before = Decayed(p, now) /\ seen = Observed(before, m, now)
        /\ added = Indicators(before, m, now)
    OBVIOUS
  <1>1. /\ DOMAIN before = Fields /\ before.lastAlert = p.lastAlert
        /\ before.indicators = p.indicators
    BY DEF Decayed, Fields
  <1>2. /\ DOMAIN seen = Fields /\ seen.lastAlert = p.lastAlert
        /\ seen.indicators = p.indicators
    BY <1>1 DEF Observed, Fields, ScoringTopics, Topics
  <1>3. Scored(before, m, now) = [seen EXCEPT !.score = @ + Total(added),
                                      !.indicators = LastN(@ \o added, MaxIndicators)]
    BY DEF Scored
  <1> QED BY <1>2, <1>3 DEF Fields

LEMMA SilencedKeeps ==
    ASSUME NEW p, DOMAIN p = Fields, NEW now
    PROVE  /\ DOMAIN Silenced(p, now) = Fields /\ Silenced(p, now).lastAlert = now
           /\ Silenced(p, now).indicators = <<>>
  BY DEF Silenced, Fields

-----------------------------------------------------------------------------
(* The alerts. *)

LEMMA AppendedElements ==
    ASSUME NEW S, NEW s \in Seq(S), NEW x
    PROVE  /\ Append(s, x) \in Seq(S \cup {x}) /\ Len(Append(s, x)) = Len(s) + 1
           /\ \A k \in 1..Len(s) : Append(s, x)[k] = s[k]
           /\ Append(s, x)[Len(s) + 1] = x
  <1>1. s \in Seq(S \cup {x})
    OBVIOUS
  <1> QED BY <1>1

(* A further alert of this life comes a cooldown after what its profile    *)
(* remembers.                                                              *)
LEMMA AlertAppended ==
    ASSUME AlertsOK, crashes \in Nat, NEW t \in Topics, InHand(t), threads[t].pc = "flush",
           ProfilesOK,
           NEW k \in 1..Len(alerts)
    PROVE  Apart(alerts[k], threads[t].alert)
  <1> PICK a, b, i, p : /\ a = alerts[k] /\ b = threads[t].alert
                        /\ i = threads[t].identity /\ p = profiles[i].lastAlert
    OBVIOUS
  <1>1. /\ b.identity = i /\ b.life = crashes /\ b.time = threads[t].now
        /\ i \in DOMAIN profiles /\ p + CooldownSec <= b.time /\ b.time \in Nat
    BY DEF InHand
  <1>2. Remembered(a)
    BY DEF AlertsOK
  <1>3. p \in Nat
    BY <1>1 DEF ProfilesOK
  <1>4. ASSUME a.identity = i, a.life = crashes
        PROVE  b.time >= a.time + CooldownSec
    <2>1. a.time \in Nat /\ a.time <= p
      BY <1>2, <1>4 DEF Remembered
    <2> QED BY <1>1, <1>3, <2>1, PeriodsAssumption
  <1> QED BY <1>1, <1>4 DEF Apart

-----------------------------------------------------------------------------
(* The steps. *)

LEMMA InitOK == Init => IInv
  <1> SUFFICES ASSUME Init PROVE IInv
    OBVIOUS
  <1> USE DEF Init
  <1>1. wall \in Nat /\ crashes \in Nat /\ accounts \in [Accounts -> Customers \cup {None}]
    BY PeriodsAssumption
  <1>2. /\ DOMAIN threads = Topics
        /\ \A t \in Topics : threads[t].pc = "poll"
    BY DEF Polling
  <1>3. DOMAIN profiles = {}
    OBVIOUS
  <1>4. ProfilesOK
    BY <1>3 DEF ProfilesOK
  <1>5. AlertsOK
    BY DEF AlertsOK
  <1> QED BY <1>1, <1>2, <1>4, <1>5 DEF IInv, InHand, OneHolder

(* A step of one thread that touches neither profiles nor alerts. *)
LEMMA ThreadStep ==
    ASSUME IInv, NEW t \in Topics, NEW h, threads' = [threads EXCEPT ![t] = h],
           h.pc # "flush", InHand(t)',
           accounts' \in [Accounts -> Customers \cup {None}],
           UNCHANGED <<wall, profiles, alerts, owed, crashes>>
    PROVE  IInv'
  <1>1. /\ DOMAIN threads' = Topics /\ threads'[t] = h
        /\ \A u \in Topics \ {t} : threads'[u] = threads[u]
    BY DEF IInv
  <1>2. ASSUME NEW u \in Topics PROVE InHand(u)'
    <2>1. CASE u # t
      <3>1. InHand(u) /\ threads'[u] = threads[u]
        BY <1>1, <2>1 DEF IInv
      <3> QED BY <3>1 DEF InHand
    <2> QED BY <2>1
  <1>3. OneHolder'
    BY <1>1 DEF IInv, OneHolder
  <1>4. ProfilesOK' /\ AlertsOK'
    BY DEF IInv, ProfilesOK, AlertsOK, Remembered
  <1> QED BY <1>1, <1>2, <1>3, <1>4 DEF IInv

LEMMA ReceiveKeeps == ASSUME IInv, NEW m \in Messages, Receive(m) PROVE IInv'
  <1>1. m.topic \in Topics
    BY MessagesAssumption
  <1> PICK h : h = [pc |-> "resolve", message |-> m, now |-> wall]
    OBVIOUS
  <1>2. h.pc = "resolve" /\ h.message = m /\ h.now = wall
    OBVIOUS
  <1>3. threads' = [threads EXCEPT ![m.topic] = h]
    BY DEF Receive
  <1>4. threads'[m.topic] = h
    BY <1>1, <1>3 DEF IInv
  <1>5. InHand(m.topic)'
    BY <1>1, <1>2, <1>4 DEF InHand, IInv
  <1> QED BY <1>1, <1>2, <1>3, <1>5, ThreadStep DEF Receive, IInv

LEMMA MapAccountKeeps == ASSUME IInv, MapAccount PROVE IInv'
  <1> PICK t, m : t = "banking.accounts" /\ m = threads[t].message
    OBVIOUS
  <1>1. t \in Topics /\ m \in Messages /\ m.topic = t
    BY DEF IInv, InHand, MapAccount, Topics
  <1>2. ~Ignored(m) => m.subject \in Accounts /\ m.customer \in Customers \cup {None}
    BY <1>1, MessagesAssumption DEF Ignored
  <1>3. accounts' \in [Accounts -> Customers \cup {None}]
    BY <1>2 DEF MapAccount, IInv
  <1>4. threads' = [threads EXCEPT ![t] = Polling] /\ Polling.pc = "poll"
    BY DEF MapAccount, Polling
  <1>5. threads'[t] = Polling
    BY <1>1, <1>4 DEF IInv
  <1>6. InHand(t)'
    BY <1>4, <1>5 DEF InHand
  <1> QED BY <1>1, <1>3, <1>4, <1>6, ThreadStep DEF MapAccount

LEMMA IdentityTyped ==
    ASSUME accounts \in [Accounts -> Customers \cup {None}],
           NEW m \in Messages, m.topic \in ScoringTopics, ~Ignored(m)
    PROVE  IdentityOf(m) \in Identities
  <1>1. m.subject # None
    BY DEF Ignored
  <1>2. CASE m.topic = "banking.login_events"
    BY <1>1, <1>2, MessagesAssumption DEF IdentityOf, Identities
  <1>3. CASE m.topic = "api_requests"
    <2>1. m.subject \in Addresses
      BY <1>1, <1>3, MessagesAssumption
    <2> QED BY <1>1, <1>3, <2>1 DEF IdentityOf, Identities
  <1>4. CASE m.topic = "banking.transactions"
    <2>1. m.subject \in Accounts
      BY <1>1, <1>4, MessagesAssumption
    <2>2. accounts[m.subject] \in Customers \cup {None}
      BY <2>1
    <2> QED BY <1>1, <1>4, <2>1, <2>2 DEF IdentityOf, Identities
  <1> QED BY <1>2, <1>3, <1>4 DEF ScoringTopics, Topics

LEMMA ResolveKeeps == ASSUME IInv, NEW t \in Topics, Resolve(t) PROVE IInv'
  <1> PICK m, h : /\ m = threads[t].message
                  /\ h = IF Ignored(m) THEN Polling
                         ELSE [pc |-> "enter", message |-> m, now |-> threads[t].now,
                               identity |-> IdentityOf(m)]
    OBVIOUS
  <1>1. /\ m \in Messages /\ m.topic = t /\ threads[t].now \in Nat
        /\ t \in ScoringTopics
    BY DEF IInv, InHand, Resolve, ScoringTopics
  <1>2. threads' = [threads EXCEPT ![t] = h]
    BY DEF Resolve
  <1>3. threads'[t] = h
    BY <1>2 DEF IInv
  <1>4. CASE Ignored(m)
    <2>1. h.pc = "poll"
      BY <1>4 DEF Polling
    <2>2. InHand(t)'
      BY <1>3, <2>1 DEF InHand
    <2> QED BY <1>2, <2>1, <2>2, ThreadStep DEF Resolve, IInv
  <1>5. CASE ~Ignored(m)
    <2>1. /\ h.pc = "enter" /\ h.message = m /\ h.now = threads[t].now
          /\ h.identity = IdentityOf(m)
      BY <1>5
    <2>2. IdentityOf(m) \in Identities
      BY <1>1, <1>5, IdentityTyped DEF IInv
    <2>3. InHand(t)'
      BY <1>1, <1>3, <2>1, <2>2 DEF InHand
    <2> QED BY <1>2, <2>1, <2>3, ThreadStep DEF Resolve, IInv
  <1> QED BY <1>4, <1>5

LEMMA ScoreKeeps == ASSUME IInv, NEW t \in Topics, Score(t) PROVE IInv'
  <1> PICK i, m, now, old, before, added, p, h :
        /\ i = threads[t].identity /\ m = threads[t].message /\ now = threads[t].now
        /\ old = IF i \in DOMAIN profiles THEN profiles[i] ELSE NewProfile
        /\ before = Decayed(old, now)
        /\ added = Indicators(before, m, now)
        /\ p = Scored(before, m, now)
        /\ h = IF Alerting(p, now)
               THEN [pc |-> "flush", identity |-> i, now |-> now,
                     alert |-> Alert(i, p, now), carried |-> Len(owed'[i])]
               ELSE Polling
    OBVIOUS
  <1>1. /\ profiles' = [j \in DOMAIN profiles \cup {i} |-> IF j = i THEN p ELSE profiles[j]]
        /\ owed' = [owed EXCEPT ![i] = @ \o added]
        /\ threads' = [threads EXCEPT ![t] = h]
        /\ LockFree /\ UNCHANGED <<wall, accounts, alerts, crashes>>
    BY Zenon DEF Score
  <1>2. /\ t \in ScoringTopics /\ m.topic = t /\ now \in Nat /\ i \in Identities
    BY DEF IInv, InHand, Score
  <1>3. /\ DOMAIN old = Fields /\ old.lastAlert \in Nat
        /\ old.indicators = LastN(owed[i], MaxIndicators)
        /\ owed[i] \in Seq(IndicatorNames)
    <2>1. CASE i \in DOMAIN profiles
      BY <1>2, <2>1 DEF IInv, ProfilesOK
    <2>2. CASE i \notin DOMAIN profiles
      <3>1. owed[i] = <<>>
        BY <1>2, <2>2 DEF IInv, ProfilesOK
      <3>2. old = NewProfile
        BY <2>2
      <3>3. DOMAIN old = Fields /\ old.lastAlert = 0 /\ old.indicators = <<>>
        BY <3>2 DEF NewProfile, Fields
      <3> QED BY <3>1, <3>3, NothingLast
    <2> QED BY <2>1, <2>2
  <1>4. added \in Seq(IndicatorNames)
    BY <1>2, IndicatorsTyped
  <1>5. /\ DOMAIN p = Fields /\ p.lastAlert = old.lastAlert
        /\ p.indicators = LastN(old.indicators \o added, MaxIndicators)
    BY <1>2, <1>3, ScoredKeeps
  <1>6. p.indicators = LastN(owed[i] \o added, MaxIndicators)
    BY <1>3, <1>4, <1>5, LastNAppended, BoundsAssumption
  <1>7. /\ DOMAIN profiles' = DOMAIN profiles \cup {i} /\ profiles'[i] = p
        /\ \A j \in DOMAIN profiles \ {i} : profiles'[j] = profiles[j]
    BY <1>1
  <1>8. /\ owed' \in [Identities -> Seq(IndicatorNames)] /\ owed'[i] = owed[i] \o added
        /\ \A j \in Identities \ {i} : owed'[j] = owed[j]
    <2>1. owed[i] \o added \in Seq(IndicatorNames)
      BY <1>3, <1>4
    <2> QED BY <1>1, <1>2, <2>1 DEF IInv, ProfilesOK
  <1>9. ProfilesOK'
    <2>1. DOMAIN profiles' \subseteq Identities
      BY <1>2, <1>7 DEF IInv, ProfilesOK
    <2>2. ASSUME NEW j \in DOMAIN profiles'
          PROVE  /\ DOMAIN profiles'[j] = Fields /\ profiles'[j].lastAlert \in Nat
                 /\ profiles'[j].indicators = LastN(owed'[j], MaxIndicators)
      <3>1. CASE j = i
        BY <1>3, <1>5, <1>6, <1>7, <1>8, <3>1
      <3>2. CASE j # i
        <4>1. /\ j \in DOMAIN profiles /\ profiles'[j] = profiles[j] /\ owed'[j] = owed[j]
          BY <1>7, <1>8, <2>1, <3>2
        <4> QED BY <4>1 DEF IInv, ProfilesOK
      <3> QED BY <3>1, <3>2
    <2>3. ASSUME NEW j \in Identities \ DOMAIN profiles' PROVE owed'[j] = <<>>
      BY <1>7, <1>8, <2>3 DEF IInv, ProfilesOK
    <2> QED BY <1>8, <2>1, <2>2, <2>3 DEF ProfilesOK
  <1>10. AlertsOK'
    <2>1. ASSUME NEW k \in 1..Len(alerts) PROVE Remembered(alerts[k])'
      <3>1. Remembered(alerts[k])
        BY DEF IInv, AlertsOK
      <3>2. ASSUME alerts[k].identity \in DOMAIN profiles
            PROVE  /\ alerts[k].identity \in DOMAIN profiles'
                   /\ profiles'[alerts[k].identity].lastAlert
                        = profiles[alerts[k].identity].lastAlert
        <4>1. CASE alerts[k].identity = i
          BY <1>5, <1>7, <3>2, <4>1
        <4>2. CASE alerts[k].identity # i
          BY <1>7, <3>2, <4>2
        <4> QED BY <4>1, <4>2
      <3> QED BY <1>1, <3>1, <3>2 DEF Remembered
    <2> QED BY <1>1, <2>1 DEF IInv, AlertsOK
  <1>11. /\ DOMAIN threads' = Topics /\ threads'[t] = h
         /\ \A u \in Topics \ {t} : threads'[u] = threads[u] /\ threads[u].pc # "flush"
    BY <1>1 DEF IInv, LockFree
  <1>12. InHand(t)'
    <2>1. CASE Alerting(p, now)
      <3>1. /\ h.pc = "flush" /\ h.identity = i /\ h.now = now /\ h.alert = Alert(i, p, now)
            /\ h.carried = Len(owed'[i])
        BY <2>1
      <3>2. /\ h.alert.identity = i /\ h.alert.life = crashes /\ h.alert.time = now
            /\ h.alert.window = now \div CooldownSec
        BY <3>1 DEF Alert
      <3>3. p.lastAlert + CooldownSec <= now
        BY <1>2, <1>3, <1>5, <2>1, PeriodsAssumption DEF Alerting
      <3> QED BY <1>1, <1>2, <1>7, <1>11, <3>1, <3>2, <3>3 DEF InHand
    <2>2. CASE ~Alerting(p, now)
      <3>1. h.pc = "poll"
        BY <2>2 DEF Polling
      <3> QED BY <1>11, <3>1 DEF InHand
    <2> QED BY <2>1, <2>2
  <1>13. ASSUME NEW u \in Topics \ {t} PROVE InHand(u)'
    <2>1. InHand(u) /\ threads'[u] = threads[u] /\ threads[u].pc # "flush"
      BY <1>11 DEF IInv
    <2> QED BY <2>1 DEF InHand
  <1>14. OneHolder'
    BY <1>11 DEF OneHolder
  <1>15. \A u \in Topics : InHand(u)'
    BY <1>12, <1>13
  <1> QED BY <1>1, <1>9, <1>10, <1>11, <1>14, <1>15 DEF IInv

(* Whatever became of the alert, the profile is silenced. *)
LEMMA ReleaseKeeps ==
    ASSUME IInv, NEW t \in Topics, threads[t].pc = "flush", Release(t),
           alerts' \in {alerts, Append(alerts, threads[t].alert)},
           UNCHANGED <<wall, accounts, crashes>>
    PROVE  IInv'
  <1> PICK i, now, p, alert :
        /\ i = threads[t].identity /\ now = threads[t].now
        /\ p = Silenced(profiles[i], now) /\ alert = threads[t].alert
    OBVIOUS
  <1>1. /\ i \in DOMAIN profiles /\ i \in Identities /\ now \in Nat
        /\ alert.identity = i /\ alert.life = crashes /\ alert.time = now
        /\ alert.window = now \div CooldownSec
        /\ profiles[i].lastAlert + CooldownSec <= now /\ profiles[i].lastAlert \in Nat
        /\ threads[t].carried = Len(owed[i])
        /\ owed[i] \in Seq(IndicatorNames) /\ DOMAIN profiles[i] = Fields
    BY DEF IInv, InHand, ProfilesOK
  <1>2. /\ profiles' = [profiles EXCEPT ![i] = p]
        /\ owed' = [owed EXCEPT ![i] = SubSeq(@, threads[t].carried + 1, Len(@))]
        /\ threads' = [threads EXCEPT ![t] = Polling]
    BY Zenon DEF Release
  <1>3. DOMAIN p = Fields /\ p.lastAlert = now /\ p.indicators = <<>>
    BY <1>1, SilencedKeeps
  <1>4. /\ DOMAIN profiles' = DOMAIN profiles /\ profiles'[i] = p
        /\ \A j \in DOMAIN profiles \ {i} : profiles'[j] = profiles[j]
    BY <1>1, <1>2
  <1>5. /\ owed' \in [Identities -> Seq(IndicatorNames)] /\ owed'[i] = <<>>
        /\ \A j \in Identities \ {i} : owed'[j] = owed[j]
    <2>1. SubSeq(owed[i], Len(owed[i]) + 1, Len(owed[i])) = <<>>
      BY <1>1
    <2>2. <<>> \in Seq(IndicatorNames)
      OBVIOUS
    <2>3. owed' = [owed EXCEPT ![i] = <<>>]
      BY <1>1, <1>2, <2>1
    <2> QED BY <1>1, <2>2, <2>3 DEF IInv, ProfilesOK
  <1>6. ProfilesOK'
    <2>1. ASSUME NEW j \in DOMAIN profiles'
          PROVE  /\ DOMAIN profiles'[j] = Fields /\ profiles'[j].lastAlert \in Nat
                 /\ profiles'[j].indicators = LastN(owed'[j], MaxIndicators)
      <3>1. CASE j = i
        BY <1>1, <1>3, <1>4, <1>5, <3>1, NothingLast
      <3>2. CASE j # i
        <4>1. /\ j \in DOMAIN profiles /\ profiles'[j] = profiles[j] /\ owed'[j] = owed[j]
          BY <1>4, <1>5, <3>2 DEF IInv, ProfilesOK
        <4> QED BY <4>1 DEF IInv, ProfilesOK
      <3> QED BY <3>1, <3>2
    <2>2. ASSUME NEW j \in Identities \ DOMAIN profiles' PROVE owed'[j] = <<>>
      BY <1>1, <1>4, <1>5, <2>2 DEF IInv, ProfilesOK
    <2>3. DOMAIN profiles' \subseteq Identities
      BY <1>4 DEF IInv, ProfilesOK
    <2> QED BY <1>5, <2>1, <2>2, <2>3 DEF ProfilesOK
  <1>7. ASSUME NEW a, Remembered(a) PROVE Remembered(a)'
    <2>1. ASSUME a.life = crashes
          PROVE  a.identity \in DOMAIN profiles'
                 /\ a.time <= profiles'[a.identity].lastAlert
      <3>1. a.identity \in DOMAIN profiles /\ a.time <= profiles[a.identity].lastAlert
            /\ a.time \in Nat
        BY <1>7, <2>1 DEF Remembered
      <3>2. CASE a.identity = i
        BY <1>1, <1>3, <1>4, <3>1, <3>2, PeriodsAssumption
      <3>3. CASE a.identity # i
        BY <1>4, <3>1, <3>3
      <3> QED BY <3>2, <3>3
    <2> QED BY <1>7, <2>1 DEF Remembered
  <1>8. Remembered(alert)'
    <2>1. now <= profiles'[i].lastAlert
      BY <1>1, <1>3, <1>4
    <2>2. crashes \in Nat
      BY DEF IInv
    <2> QED BY <1>1, <1>4, <2>1, <2>2 DEF Remembered
  <1>9. AlertsOK'
    <2>1. CASE alerts' = alerts
      BY <1>7, <2>1 DEF IInv, AlertsOK
    <2>2. CASE alerts' = Append(alerts, alert)
      <3> PICK S : alerts \in Seq(S)
        BY DEF IInv, AlertsOK
      <3>1. /\ alerts' \in Seq(S \cup {alert}) /\ Len(alerts') = Len(alerts) + 1
            /\ \A k \in 1..Len(alerts) : alerts'[k] = alerts[k]
            /\ alerts'[Len(alerts) + 1] = alert
        BY <2>2, AppendedElements
      <3>2. ASSUME NEW k \in 1..Len(alerts') PROVE Remembered(alerts[k])'
        <4> PICK a : a = alerts'[k]
          OBVIOUS
        <4>1. k \in 1..Len(alerts) \/ k = Len(alerts) + 1
          BY <3>1
        <4>2. CASE k \in 1..Len(alerts)
          <5>1. Remembered(alerts[k]) /\ a = alerts[k]
            BY <3>1, <4>2 DEF IInv, AlertsOK
          <5> QED BY <1>7, <5>1 DEF Remembered
        <4>3. CASE k = Len(alerts) + 1
          BY <1>8, <3>1, <4>3 DEF Remembered
        <4> QED BY <4>1, <4>2, <4>3
      <3>3. ASSUME NEW j \in 1..Len(alerts'), NEW k \in 1..Len(alerts'), j < k
            PROVE  Apart(alerts'[j], alerts'[k])
        <4>1. j \in 1..Len(alerts) /\ alerts'[j] = alerts[j]
          BY <3>1, <3>3
        <4>2. CASE k \in 1..Len(alerts)
          BY <3>1, <3>3, <4>1, <4>2 DEF IInv, AlertsOK
        <4>3. CASE k = Len(alerts) + 1
          <5>1. Apart(alerts[j], alert)
            BY <4>1, AlertAppended DEF IInv
          <5> QED BY <3>1, <4>1, <4>3, <5>1
        <4> QED BY <3>1, <4>2, <4>3
      <3> QED BY <3>1, <3>2, <3>3 DEF AlertsOK
    <2> QED BY <2>1, <2>2
  <1>10. /\ DOMAIN threads' = Topics /\ threads'[t].pc = "poll"
         /\ \A u \in Topics \ {t} : threads'[u] = threads[u] /\ threads[u].pc # "flush"
    BY <1>2 DEF IInv, OneHolder, Polling
  <1>11. ASSUME NEW u \in Topics PROVE InHand(u)'
    <2>1. CASE u = t
      BY <1>10, <2>1 DEF InHand
    <2>2. CASE u # t
      <3>1. InHand(u) /\ threads'[u] = threads[u] /\ threads[u].pc # "flush"
        BY <1>10, <2>2 DEF IInv
      <3> QED BY <3>1 DEF InHand
    <2> QED BY <2>1, <2>2
  <1>12. OneHolder'
    BY <1>10 DEF OneHolder
  <1> QED BY <1>6, <1>9, <1>10, <1>11, <1>12 DEF IInv

LEMMA ProduceRaisesKeeps == ASSUME IInv, NEW t \in Topics, ProduceRaises(t) PROVE IInv'
  <1>1. threads' = [threads EXCEPT ![t] = Polling] /\ Polling.pc = "poll"
    BY DEF ProduceRaises, Polling
  <1>2. threads'[t] = Polling
    BY <1>1 DEF IInv
  <1>3. InHand(t)'
    BY <1>1, <1>2 DEF InHand
  <1> QED BY <1>1, <1>3, ThreadStep DEF ProduceRaises, IInv

(* The alert on its way belongs to the life that ends. *)
LEMMA RestartKeeps == ASSUME IInv, Restart PROVE IInv'
  <1>1. crashes \in Nat /\ crashes' = crashes + 1 /\ wall' \in Nat
    BY DEF IInv, Restart
  <1>2. accounts' \in [Accounts -> Customers \cup {None}]
    BY DEF Restart
  <1>3. ProfilesOK'
    <2>1. DOMAIN profiles' = {} /\ owed' = [j \in Identities |-> <<>>]
      BY DEF Restart
    <2> QED BY <2>1 DEF ProfilesOK
  <1>4. ASSUME NEW a, Remembered(a) PROVE Remembered(a)'
    BY <1>1, <1>4 DEF Remembered
  <1>5. AlertsOK'
    <2>1. CASE alerts' = alerts
      BY <1>4, <2>1 DEF IInv, AlertsOK
    <2>2. ASSUME NEW t \in Topics, threads[t].pc = "flush",
                 alerts' = Append(alerts, threads[t].alert)
          PROVE  AlertsOK'
      <3> PICK S, alert : alerts \in Seq(S) /\ alert = threads[t].alert
        BY DEF IInv, AlertsOK
      <3>1. /\ alerts' \in Seq(S \cup {alert}) /\ Len(alerts') = Len(alerts) + 1
            /\ \A k \in 1..Len(alerts) : alerts'[k] = alerts[k]
            /\ alerts'[Len(alerts) + 1] = alert
        BY <2>2, AppendedElements
      <3>2. Remembered(alert)'
        <4>1. /\ alert.life = crashes /\ alert.time \in Nat
              /\ alert.window = alert.time \div CooldownSec
          BY <2>2 DEF IInv, InHand
        <4> QED BY <1>1, <4>1 DEF Remembered
      <3>3. ASSUME NEW k \in 1..Len(alerts') PROVE Remembered(alerts[k])'
        <4> PICK a : a = alerts'[k]
          OBVIOUS
        <4>1. k \in 1..Len(alerts) \/ k = Len(alerts) + 1
          BY <3>1
        <4>2. CASE k \in 1..Len(alerts)
          <5>1. Remembered(alerts[k]) /\ a = alerts[k]
            BY <3>1, <4>2 DEF IInv, AlertsOK
          <5> QED BY <1>4, <5>1 DEF Remembered
        <4>3. CASE k = Len(alerts) + 1
          BY <3>1, <3>2, <4>3 DEF Remembered
        <4> QED BY <4>1, <4>2, <4>3
      <3>4. ASSUME NEW j \in 1..Len(alerts'), NEW k \in 1..Len(alerts'), j < k
            PROVE  Apart(alerts'[j], alerts'[k])
        <4>1. j \in 1..Len(alerts) /\ alerts'[j] = alerts[j]
          BY <3>1, <3>4
        <4>2. CASE k \in 1..Len(alerts)
          BY <3>1, <3>4, <4>1, <4>2 DEF IInv, AlertsOK
        <4>3. CASE k = Len(alerts) + 1
          <5>1. Apart(alerts[j], alert)
            BY <2>2, <4>1, AlertAppended DEF IInv
          <5> QED BY <3>1, <4>1, <4>3, <5>1
        <4> QED BY <3>1, <4>2, <4>3
      <3> QED BY <3>1, <3>3, <3>4 DEF AlertsOK
    <2>3. \/ alerts' = alerts
          \/ \E t \in Topics : threads[t].pc = "flush"
                               /\ alerts' = Append(alerts, threads[t].alert)
      BY DEF Restart
    <2> QED BY <2>1, <2>2, <2>3
  <1>6. /\ DOMAIN threads' = Topics
        /\ \A t \in Topics : threads'[t].pc = "poll"
    BY DEF Restart, Polling
  <1> QED BY <1>1, <1>2, <1>3, <1>5, <1>6 DEF IInv, InHand, OneHolder

LEMMA UnchangedKeeps ==
    ASSUME IInv, wall' \in Nat, UNCHANGED <<accounts, profiles, threads, alerts, owed, crashes>>
    PROVE  IInv'
  <1>1. \A t \in Topics : InHand(t)'
    BY DEF IInv, InHand
  <1>2. OneHolder' /\ ProfilesOK' /\ AlertsOK'
    BY DEF IInv, OneHolder, ProfilesOK, AlertsOK, Remembered
  <1> QED BY <1>1, <1>2 DEF IInv

LEMMA StepOK == IInv /\ [Next]_vars => IInv'
  <1> SUFFICES ASSUME IInv, [Next]_vars PROVE IInv'
    OBVIOUS
  <1>1. ASSUME NEW m \in Messages, Receive(m) PROVE IInv'
    BY <1>1, ReceiveKeeps
  <1>2. CASE MapAccount
    BY <1>2, MapAccountKeeps
  <1>3. ASSUME NEW t \in Topics, Resolve(t) PROVE IInv'
    BY <1>3, ResolveKeeps
  <1>4. ASSUME NEW t \in Topics, Score(t) PROVE IInv'
    BY <1>4, ScoreKeeps
  <1>5. ASSUME NEW t \in Topics, Flush(t) PROVE IInv'
    BY <1>5, ReleaseKeeps DEF Flush
  <1>6. ASSUME NEW t \in Topics, FlushLost(t) PROVE IInv'
    BY <1>6, ReleaseKeeps DEF FlushLost
  <1>7. ASSUME NEW t \in Topics, ProduceRaises(t) PROVE IInv'
    BY <1>7, ProduceRaisesKeeps
  <1>8. CASE Restart
    BY <1>8, RestartKeeps
  <1>9. CASE Tick
    <2>1. wall' \in Nat
      BY <1>9 DEF Tick, IInv
    <2> QED BY <1>9, <2>1, UnchangedKeeps DEF Tick
  <1>10. CASE UNCHANGED vars
    <2>1. wall' \in Nat
      BY <1>10 DEF vars, IInv
    <2> QED BY <1>10, <2>1, UnchangedKeeps DEF vars
  <1> QED BY <1>1, <1>2, <1>3, <1>4, <1>5, <1>6, <1>7, <1>8, <1>9, <1>10 DEF Next, Work

LEMMA Inductive == Spec => []IInv
  BY InitOK, StepOK, PTL DEF Spec

-----------------------------------------------------------------------------
(* Two alerts of an identity in one life of the process are a cooldown     *)
(* apart and carry different alert ids, although every thread compares a   *)
(* time it read before it waited for the lock.                             *)
THEOREM CooldownHolds == Spec => []CooldownSpacing
  <1>1. IInv => CooldownSpacing
    <2> SUFFICES ASSUME IInv, NEW j \in 1..Len(alerts), NEW k \in 1..Len(alerts), j < k,
                        alerts[j].identity = alerts[k].identity,
                        alerts[j].life = alerts[k].life
                 PROVE  /\ alerts[k].time >= alerts[j].time + CooldownSec
                        /\ alerts[k].window # alerts[j].window
      BY DEF CooldownSpacing
    <2> PICK a, b : a = alerts[j] /\ b = alerts[k]
      OBVIOUS
    <2>1. /\ a.time \in Nat /\ a.window = a.time \div CooldownSec
          /\ b.time \in Nat /\ b.window = b.time \div CooldownSec
      BY DEF IInv, AlertsOK, Remembered
    <2>2. b.time >= a.time + CooldownSec
      BY DEF IInv, AlertsOK, Apart
    <2>3. a.time \div CooldownSec # b.time \div CooldownSec
      BY <2>1, <2>2, DivApart, PeriodsAssumption
    <2> QED BY <2>1, <2>2, <2>3
  <1> QED BY <1>1, Inductive, PTL

(* An indicator leaves a profile only with the alert that carries it, or   *)
(* pushed out by newer ones.                                               *)
THEOREM IndicatorsKept == Spec => []NoIndicatorLost
  <1>1. IInv => NoIndicatorLost
    BY DEF IInv, ProfilesOK, NoIndicatorLost
  <1> QED BY <1>1, Inductive, PTL

-----------------------------------------------------------------------------
(* What indicators weigh. *)

Weights(s) == [k \in 1..Len(s) |-> Weight[s[k]]]

Nothing(s) == [k \in 1..Len(s) |-> 0]

LEMMA WeightsTyped ==
    ASSUME NEW s \in Seq(IndicatorNames)
    PROVE  \A k \in 1..Len(s) : Weights(s)[k] = Weight[s[k]] /\ Weights(s)[k] \in Nat /\ Nothing(s)[k] = 0
  <1>1. \A k \in 1..Len(s) : s[k] \in IndicatorNames
    OBVIOUS
  <1> QED BY <1>1, WeightAssumption DEF Weights, Nothing

LEMMA TotalSums ==
    ASSUME NEW s \in Seq(IndicatorNames)
    PROVE  \E f \in [0..Len(s) -> Int] :
              Sums(f, Len(s), Weights(s), Nothing(s)) /\ Total(s) = f[Len(s)]
  <1> DEFINE Is(f) == f = [k \in 0..Len(s) |-> IF k = 0 THEN 0 ELSE f[k - 1] + Weight[s[k]]]
  <1> PICK N, gain, loss : N = Len(s) /\ gain = Weights(s) /\ loss = Nothing(s)
    OBVIOUS
  <1>1. N \in Nat /\ \A k \in 1..N : gain[k] = Weight[s[k]] /\ gain[k] \in Int /\ loss[k] = 0 /\ loss[k] \in Int
    BY WeightsTyped
  <1>2. PICK g \in [0..N -> Int] : Sums(g, N, gain, loss)
    BY <1>1, SumsExist
  <1>3. g = [k \in 0..N |-> IF k = 0 THEN 0 ELSE g[k - 1] + Weight[s[k]]]
    BY <1>1, <1>2 DEF Sums
  <1>4. Is(g)
    BY <1>3
  <1> PICK h : h = CHOOSE f : Is(f)
    OBVIOUS
  <1>5. Total(s) = h[N]
    BY Zenon DEF Total
  <1> HIDE DEF Is
  <1>6. Is(h)
    BY <1>4
  <1>7. Sums(h, N, gain, loss)
    <2>1. h = [k \in 0..N |-> IF k = 0 THEN 0 ELSE h[k - 1] + Weight[s[k]]]
      BY <1>6, Zenon DEF Is
    <2>2. h[0] = 0
      <3>1. 0 \in 0..N
        BY <1>1
      <3> QED BY <2>1, <3>1, Zenon
    <2>3. ASSUME NEW k \in 1..N PROVE h[k] = h[k - 1] + Weight[s[k]]
      <3>1. k \in 0..N /\ k # 0
        BY <1>1
      <3> QED BY <2>1, <3>1
    <2>4. \A k \in 0..N : h[k] \in Int
      <3> PICK T : T = {k \in 0..N : h[k] \notin Int}
        OBVIOUS
      <3>1. ASSUME T # {} PROVE FALSE
        <4>1. T \in SUBSET Nat
          OBVIOUS
        <4>2. PICK k \in T : \A y \in T : k <= y
          BY <3>1, <4>1, LeastNatural
        <4>3. k \in 1..N /\ k - 1 \in 0..N /\ k - 1 \notin T
          BY <2>2, <4>2
        <4> QED BY <1>1, <2>3, <4>2, <4>3
      <3> QED BY <3>1
    <2>5. ASSUME NEW k \in 1..N PROVE h[k] = h[k - 1] + gain[k] - loss[k]
      <3>1. k - 1 \in 0..N /\ h[k - 1] \in Int
        BY <1>1, <2>4
      <3> QED BY <1>1, <2>3, <3>1
    <2> QED BY <2>2, <2>5 DEF Sums
  <1>8. h[N] = g[N]
    BY <1>1, <1>2, <1>7, SumsAgree
  <1> QED BY <1>2, <1>5, <1>8

LEMMA TotalNatural == ASSUME NEW s \in Seq(IndicatorNames) PROVE Total(s) \in Nat
  <1> PICK N, gain, loss : N = Len(s) /\ gain = Weights(s) /\ loss = Nothing(s)
    OBVIOUS
  <1>1. N \in Nat /\ \A k \in 1..N : gain[k] \in Nat /\ loss[k] = 0
    BY WeightsTyped
  <1>2. PICK f \in [0..N -> Int] : Sums(f, N, gain, loss) /\ Total(s) = f[N]
    BY TotalSums
  <1> QED BY <1>1, <1>2, SumsNatural

LEMMA TotalNone == Total(<<>>) = 0
  <1> PICK s : s = <<>>
    OBVIOUS
  <1>1. s \in Seq(IndicatorNames) /\ Len(s) = 0
    OBVIOUS
  <1>2. PICK f \in [0..0 -> Int] : Sums(f, 0, Weights(s), Nothing(s)) /\ Total(s) = f[0]
    BY <1>1, TotalSums
  <1> QED BY <1>2 DEF Sums

LEMMA TotalJoined ==
    ASSUME NEW s \in Seq(IndicatorNames), NEW u \in Seq(IndicatorNames)
    PROVE  Total(s \o u) = Total(s) + Total(u)
  <1> PICK w, n, m : w = s \o u /\ n = Len(s) /\ m = Len(u)
    OBVIOUS
  <1>1. /\ w \in Seq(IndicatorNames) /\ Len(w) = n + m /\ n \in Nat /\ m \in Nat
        /\ \A k \in 1..n + m : w[k] = IF k <= n THEN s[k] ELSE u[k - n]
    BY Joined
  <1> PICK gain, loss, gain1, loss1, gain2, loss2 :
        /\ gain = Weights(w) /\ loss = Nothing(w) /\ gain1 = Weights(s) /\ loss1 = Nothing(s)
        /\ gain2 = Weights(u) /\ loss2 = Nothing(u)
    OBVIOUS
  <1>2. /\ \A k \in 1..n + m : gain[k] = Weight[w[k]] /\ gain[k] \in Int /\ loss[k] = 0
        /\ \A k \in 1..n : gain1[k] = Weight[s[k]] /\ loss1[k] = 0
        /\ \A k \in 1..m : gain2[k] = Weight[u[k]] /\ loss2[k] = 0
    <2>1. \A k \in 1..n + m : gain[k] = Weight[w[k]] /\ gain[k] \in Int /\ loss[k] = 0
      <3>1. \A k \in 1..Len(w) : Weights(w)[k] = Weight[w[k]] /\ Weights(w)[k] \in Nat /\ Nothing(w)[k] = 0
        BY <1>1, WeightsTyped, Zenon
      <3> QED BY <1>1, <3>1
    <2>2. \A k \in 1..n : gain1[k] = Weight[s[k]] /\ loss1[k] = 0
      BY WeightsTyped, Zenon
    <2>3. \A k \in 1..m : gain2[k] = Weight[u[k]] /\ loss2[k] = 0
      BY WeightsTyped, Zenon
    <2> QED BY <2>1, <2>2, <2>3
  <1>3. PICK f \in [0..n + m -> Int] : Sums(f, n + m, gain, loss) /\ Total(w) = f[n + m]
    BY <1>1, TotalSums
  <1>4. PICK g \in [0..n -> Int] : Sums(g, n, gain1, loss1) /\ Total(s) = g[n]
    BY TotalSums
  <1>5. PICK h \in [0..m -> Int] : Sums(h, m, gain2, loss2) /\ Total(u) = h[m]
    BY TotalSums
  <1>6. ASSUME NEW k \in 1..n PROVE gain[k] = gain1[k] /\ loss[k] = loss1[k]
    <2>1. k \in 1..n + m /\ k <= n
      BY <1>1
    <2>2. w[k] = s[k]
      BY <1>1, <2>1
    <2>3. gain[k] = Weight[w[k]] /\ loss[k] = 0
      BY <1>2, <2>1, Zenon
    <2>4. gain1[k] = Weight[s[k]] /\ loss1[k] = 0
      BY <1>2, Zenon
    <2> QED BY <2>2, <2>3, <2>4, Zenon
  <1>7. Sums(g, n, gain, loss)
    BY <1>4, <1>6 DEF Sums
  <1>8. ASSUME NEW k \in 1..m PROVE gain2[k] = gain[n + k] /\ loss2[k] = loss[n + k]
    <2> PICK i : i = n + k
      OBVIOUS
    <2>1. i \in 1..n + m /\ ~(i <= n) /\ i - n = k
      BY <1>1
    <2>2. w[i] = u[k]
      BY <1>1, <2>1
    <2> QED BY <1>2, <2>1, <2>2
  <1>9. \A k \in 1..n + m : gain[k] \in Int /\ loss[k] \in Int
    BY <1>2
  <1>10. Parts(f, g, h, n, m, gain, loss, gain2, loss2)
    <2>1. n \in Nat /\ m \in Nat
      BY <1>1
    <2> QED BY <1>3, <1>5, <1>7, <1>8, <1>9, <2>1, Zenon DEF Parts
  <1>11. f[n + m] = g[n] + h[m]
    BY <1>10, SumsSplit
  <1> QED BY <1>3, <1>4, <1>5, <1>11

-----------------------------------------------------------------------------
(* The scores. *)

(* What an alert's score may be, if the deque had room for its indicators. *)
Fits(alert) ==
    Len(alert.indicators) < MaxIndicators => alert.score <= Total(alert.indicators)

(* A score is at most what the indicators weigh that no alert has carried. *)
Weighed(p, carried) ==
    p.score \in Nat /\ p.lastDecay \in Nat /\ p.score <= Total(carried)

ScoresFit ==
    /\ \A i \in DOMAIN profiles : Weighed(profiles[i], owed[i])
    /\ \A t \in Topics : threads[t].pc = "flush" => Fits(threads[t].alert)
    /\ \A k \in 1..Len(alerts) : Fits(alerts[k])

EInv == IInv /\ ScoresFit

LEMMA Divided == ASSUME NEW x \in Nat, NEW y \in Nat \ {0} PROVE x \div y \in Nat /\ x \div y <= x
  <1> PICK q : q = x \div y
    OBVIOUS
  <1>1. q \in Nat /\ y * q <= x
    OBVIOUS
  <1>2. q <= y * q
    <2>1. PICK z \in Nat : y = z + 1
      <3>1. y - 1 \in Nat /\ y = (y - 1) + 1
        OBVIOUS
      <3> QED BY <3>1
    <2>2. y * q = z * q + q /\ z * q \in Nat
      BY <1>1, <2>1
    <2> QED BY <1>1, <2>2
  <1> QED BY <1>1, <1>2

LEMMA Powers == ASSUME NEW h \in 1..10 PROVE PowersOfTwo[h + 1] \in Nat \ {0}
  <1>1. h \in {1, 2, 3, 4, 5, 6, 7, 8, 9, 10}
    OBVIOUS
  <1> QED BY <1>1 DEF PowersOfTwo

LEMMA DecayedScore ==
    ASSUME NEW p, DOMAIN p = Fields, p.score \in Nat, p.lastDecay \in Nat, NEW now \in Nat,
           NEW q, q = Decayed(p, now)
    PROVE  q.score \in Nat /\ q.score <= p.score /\ q.lastDecay \in Nat /\ DOMAIN q = Fields
  <1> PICK h : h = Halvings(p, now)
    OBVIOUS
  <1>1. CASE h > 0
    <2>0. PICK n : n = (now - p.lastDecay) \div DecaySec
      OBVIOUS
    <2>5. n \in Int
      BY <2>0, PeriodsAssumption
    <2>6. h = IF n > 10 THEN 10 ELSE n
      BY <2>0 DEF Halvings
    <2>1. h \in 1..10
      BY <1>1, <2>5, <2>6
    <2> PICK y : y = PowersOfTwo[h + 1]
      OBVIOUS
    <2>2. y \in Nat \ {0}
      BY <2>1, Powers
    <2>3. q = [p EXCEPT !.score = @ \div y, !.lastDecay = now]
      BY <1>1 DEF Decayed
    <2>4. q.score = p.score \div y /\ q.lastDecay = now /\ DOMAIN q = Fields
      BY <2>3 DEF Fields
    <2> QED BY <2>2, <2>4, Divided
  <1>2. CASE ~(h > 0)
    BY <1>2 DEF Decayed
  <1> QED BY <1>1, <1>2

LEMMA ScoredWeighs ==
    ASSUME NEW p, DOMAIN p = Fields, NEW m, m.topic \in ScoringTopics, NEW now,
           NEW q, q = Scored(p, m, now)
    PROVE  q.score = p.score + Total(Indicators(p, m, now)) /\ q.lastDecay = p.lastDecay
  <1> PICK seen, added : seen = Observed(p, m, now) /\ added = Indicators(p, m, now)
    OBVIOUS
  <1>1. DOMAIN seen = Fields /\ seen.score = p.score /\ seen.lastDecay = p.lastDecay
    BY DEF Observed, Fields, ScoringTopics, Topics
  <1>2. q = [seen EXCEPT !.score = @ + Total(added),
                         !.indicators = LastN(@ \o added, MaxIndicators)]
    BY DEF Scored
  <1> QED BY <1>1, <1>2 DEF Fields

LEMMA RoomForAll ==
    ASSUME NEW s \in Seq(IndicatorNames), Len(LastN(s, MaxIndicators)) < MaxIndicators
    PROVE  LastN(s, MaxIndicators) = s
  <1> PICK n : n = MaxIndicators
    OBVIOUS
  <1>1. n \in Nat
    BY BoundsAssumption
  <1>2. CASE Len(s) <= n
    BY <1>1, <1>2, LastNWhole
  <1>3. CASE Len(s) > n
    <2>1. Len(LastN(s, n)) = n
      BY <1>1, <1>3, LastNElements
    <2> QED BY <1>1, <2>1
  <1> QED BY <1>1, <1>2, <1>3

LEMMA InitFits == ASSUME Init PROVE EInv
  <1>1. DOMAIN profiles = {} /\ alerts = <<>> /\ \A t \in Topics : threads[t].pc = "poll"
    BY DEF Init, Polling
  <1> QED BY <1>1, InitOK DEF EInv, ScoresFit

(* A thread goes on, without an alert in hand. *)
LEMMA ThreadFits ==
    ASSUME EInv, NEW t \in Topics, NEW h, threads' = [threads EXCEPT ![t] = h], h.pc # "flush",
           UNCHANGED <<profiles, owed, alerts>>
    PROVE  ScoresFit'
  <1>1. \A u \in Topics : threads'[u] = threads[u] \/ threads'[u] = h
    BY DEF EInv, IInv
  <1> QED BY <1>1 DEF EInv, ScoresFit

LEMMA ScoreFits == ASSUME EInv, NEW t \in Topics, Score(t) PROVE ScoresFit'
  <1> PICK i, m, now, old, before, added, p, h :
        /\ i = threads[t].identity /\ m = threads[t].message /\ now = threads[t].now
        /\ old = IF i \in DOMAIN profiles THEN profiles[i] ELSE NewProfile
        /\ before = Decayed(old, now)
        /\ added = Indicators(before, m, now)
        /\ p = Scored(before, m, now)
        /\ h = IF Alerting(p, now)
               THEN [pc |-> "flush", identity |-> i, now |-> now,
                     alert |-> Alert(i, p, now), carried |-> Len(owed'[i])]
               ELSE Polling
    OBVIOUS
  <1>1. /\ profiles' = [j \in DOMAIN profiles \cup {i} |-> IF j = i THEN p ELSE profiles[j]]
        /\ owed' = [owed EXCEPT ![i] = @ \o added]
        /\ threads' = [threads EXCEPT ![t] = h] /\ alerts' = alerts
    BY Zenon DEF Score
  <1>2. /\ t \in ScoringTopics /\ m.topic = t /\ now \in Nat /\ i \in Identities
        /\ owed[i] \in Seq(IndicatorNames)
    BY DEF EInv, IInv, InHand, Score, ProfilesOK
  <1>3. DOMAIN old = Fields /\ Weighed(old, owed[i])
    <2>1. CASE i \in DOMAIN profiles
      BY <2>1 DEF EInv, ScoresFit, IInv, ProfilesOK
    <2>2. CASE i \notin DOMAIN profiles
      <3>1. DOMAIN old = Fields /\ old.score = 0 /\ old.lastDecay = wall /\ wall \in Nat
        BY <2>2 DEF NewProfile, Fields, EInv, IInv
      <3>2. owed[i] = <<>>
        BY <1>2, <2>2 DEF EInv, IInv, ProfilesOK
      <3>3. Total(owed[i]) = 0
        BY <3>2, TotalNone, Zenon
      <3> QED BY <3>1, <3>3 DEF Weighed
    <2> QED BY <2>1, <2>2
  <1>4. added \in Seq(IndicatorNames) /\ Total(added) \in Nat /\ Total(owed[i]) \in Nat
    BY <1>2, IndicatorsTyped, TotalNatural
  <1>5. /\ before.score \in Nat /\ before.score <= old.score /\ before.lastDecay \in Nat
        /\ DOMAIN before = Fields
    BY <1>2, <1>3, DecayedScore DEF Weighed
  <1>6. p.score = before.score + Total(added) /\ p.lastDecay = before.lastDecay
    BY <1>2, <1>5, ScoredWeighs
  <1>7. owed'[i] = owed[i] \o added /\ owed'[i] \in Seq(IndicatorNames)
    <2>1. owed[i] \o added \in Seq(IndicatorNames)
      BY <1>2, <1>4
    <2>2. owed'[i] = owed[i] \o added
      BY <1>1, <1>2 DEF EInv, IInv, ProfilesOK
    <2> QED BY <2>1, <2>2
  <1>8. Weighed(p, owed'[i])
    <2>1. Total(owed'[i]) = Total(owed[i]) + Total(added)
      BY <1>2, <1>4, <1>7, TotalJoined
    <2> QED BY <1>3, <1>4, <1>5, <1>6, <2>1 DEF Weighed
  <1>9. ASSUME NEW j \in DOMAIN profiles' PROVE Weighed(profiles'[j], owed'[j])
    <2>1. CASE j = i
      BY <1>1, <1>8, <2>1
    <2>2. CASE j # i
      <3>1. j \in DOMAIN profiles /\ profiles'[j] = profiles[j] /\ owed'[j] = owed[j]
        BY <1>1, <2>2 DEF EInv, IInv, ProfilesOK
      <3> QED BY <3>1 DEF EInv, ScoresFit
    <2> QED BY <2>1, <2>2
  <1>10. h.pc = "flush" => Fits(h.alert)
    <2>1. CASE Alerting(p, now)
      <3> PICK alert : alert = h.alert
        OBVIOUS
      <3>1. alert.score = p.score /\ alert.indicators = p.indicators
        BY <2>1 DEF Alert
      <3>2. p.indicators = LastN(owed'[i], MaxIndicators)
        <4>1. IInv'
          BY ScoreKeeps DEF EInv
        <4>2. i \in DOMAIN profiles' /\ profiles'[i] = p
          BY SMTT(30), <1>1
        <4> QED BY <4>1, <4>2 DEF IInv, ProfilesOK
      <3>3. ASSUME Len(alert.indicators) < MaxIndicators PROVE alert.indicators = owed'[i]
        BY ZenonT(60), <1>7, <3>1, <3>2, <3>3, RoomForAll
      <3> QED BY <1>8, <3>1, <3>3 DEF Fits, Weighed
    <2>2. CASE ~Alerting(p, now)
      BY <2>2 DEF Polling
    <2> QED BY <2>1, <2>2
  <1>11. \A u \in Topics : threads'[u] = threads[u] \/ threads'[u] = h
    BY <1>1 DEF EInv, IInv
  <1> QED BY <1>1, <1>9, <1>10, <1>11 DEF EInv, ScoresFit

LEMMA AppendedFits ==
    ASSUME EInv, NEW t \in Topics, threads[t].pc = "flush",
           alerts' \in {alerts, Append(alerts, threads[t].alert)}
    PROVE  \A k \in 1..Len(alerts') : Fits(alerts'[k])
  <1> PICK S, alert : alerts \in Seq(S) /\ alert = threads[t].alert
    BY DEF EInv, IInv, AlertsOK
  <1>1. Fits(alert) /\ \A k \in 1..Len(alerts) : Fits(alerts[k])
    BY DEF EInv, ScoresFit
  <1>2. CASE alerts' = Append(alerts, alert)
    <2>1. /\ Len(alerts') = Len(alerts) + 1 /\ alerts'[Len(alerts) + 1] = alert
          /\ \A k \in 1..Len(alerts) : alerts'[k] = alerts[k]
      BY <1>2, AppendedElements
    <2> QED BY <1>1, <2>1
  <1> QED BY <1>1, <1>2

LEMMA ReleaseFits ==
    ASSUME EInv, NEW t \in Topics, threads[t].pc = "flush", Release(t),
           alerts' \in {alerts, Append(alerts, threads[t].alert)}
    PROVE  ScoresFit'
  <1> PICK i, now, p : /\ i = threads[t].identity /\ now = threads[t].now
                       /\ p = Silenced(profiles[i], now)
    OBVIOUS
  <1>1. /\ i \in DOMAIN profiles /\ i \in Identities /\ DOMAIN profiles[i] = Fields
        /\ threads[t].carried = Len(owed[i]) /\ owed[i] \in Seq(IndicatorNames)
        /\ profiles[i].lastDecay \in Nat
    BY DEF EInv, IInv, InHand, ProfilesOK, ScoresFit, Weighed
  <1>2. /\ profiles' = [profiles EXCEPT ![i] = p]
        /\ owed' = [owed EXCEPT ![i] = SubSeq(@, threads[t].carried + 1, Len(@))]
        /\ threads' = [threads EXCEPT ![t] = Polling] /\ Polling.pc = "poll"
    BY Zenon DEF Release, Polling
  <1>3. p.score = 0 /\ p.lastDecay = profiles[i].lastDecay
    BY <1>1 DEF Silenced, Fields
  <1>4. owed'[i] \in Seq(IndicatorNames)
    BY <1>1, <1>2 DEF EInv, IInv, ProfilesOK
  <1>5. Weighed(p, owed'[i])
    BY <1>1, <1>3, <1>4, TotalNatural DEF Weighed
  <1>6. ASSUME NEW j \in DOMAIN profiles' PROVE Weighed(profiles'[j], owed'[j])
    <2>1. CASE j = i
      BY <1>1, <1>2, <1>5, <2>1
    <2>2. CASE j # i
      <3>1. j \in DOMAIN profiles /\ profiles'[j] = profiles[j] /\ owed'[j] = owed[j]
        BY <1>2, <2>2 DEF EInv, IInv, ProfilesOK
      <3> QED BY <3>1 DEF EInv, ScoresFit
    <2> QED BY <2>1, <2>2
  <1>7. \A u \in Topics : threads'[u] = threads[u] \/ threads'[u] = Polling
    BY <1>2 DEF EInv, IInv
  <1>8. \A u \in Topics : threads'[u].pc = "flush" => Fits(threads'[u].alert)
    BY <1>2, <1>7 DEF EInv, ScoresFit
  <1> QED BY <1>6, <1>8, AppendedFits DEF ScoresFit

LEMMA RestartFits == ASSUME EInv, Restart PROVE ScoresFit'
  <1>1. DOMAIN profiles' = {} /\ \A t \in Topics : threads'[t].pc = "poll"
    BY DEF Restart, Polling
  <1>2. \/ alerts' = alerts
        \/ \E t \in Topics : threads[t].pc = "flush" /\ alerts' = Append(alerts, threads[t].alert)
    BY DEF Restart
  <1>3. \A k \in 1..Len(alerts') : Fits(alerts'[k])
    BY <1>2, AppendedFits DEF EInv, ScoresFit
  <1> QED BY <1>1, <1>3 DEF ScoresFit

LEMMA StepFits == EInv /\ [Next]_vars => EInv'
  <1> SUFFICES ASSUME EInv, [Next]_vars PROVE ScoresFit'
    BY StepOK DEF EInv
  <1>0. Polling.pc = "poll"
    BY DEF Polling
  <1>1. ASSUME NEW m \in Messages, Receive(m) PROVE ScoresFit'
    <2> PICK h : h = [pc |-> "resolve", message |-> m, now |-> wall]
      OBVIOUS
    <2>1. m.topic \in Topics /\ h.pc = "resolve" /\ threads' = [threads EXCEPT ![m.topic] = h]
      BY <1>1, MessagesAssumption DEF Receive
    <2> QED BY <1>1, <2>1, ThreadFits DEF Receive
  <1>2. CASE MapAccount
    <2>1. "banking.accounts" \in Topics /\ threads' = [threads EXCEPT !["banking.accounts"] = Polling]
      BY <1>2 DEF MapAccount, Topics
    <2> QED BY <1>0, <1>2, <2>1, ThreadFits DEF MapAccount
  <1>3. ASSUME NEW t \in Topics, Resolve(t) PROVE ScoresFit'
    <2> PICK h : h = IF Ignored(threads[t].message) THEN Polling
                     ELSE [pc |-> "enter", message |-> threads[t].message,
                           now |-> threads[t].now, identity |-> IdentityOf(threads[t].message)]
      OBVIOUS
    <2>1. threads' = [threads EXCEPT ![t] = h] /\ h.pc # "flush"
      BY <1>0, <1>3 DEF Resolve
    <2> QED BY <1>3, <2>1, ThreadFits DEF Resolve
  <1>4. ASSUME NEW t \in Topics, Score(t) PROVE ScoresFit'
    BY <1>4, ScoreFits
  <1>5. ASSUME NEW t \in Topics, Flush(t) PROVE ScoresFit'
    BY <1>5, ReleaseFits DEF Flush
  <1>6. ASSUME NEW t \in Topics, FlushLost(t) PROVE ScoresFit'
    BY <1>6, ReleaseFits DEF FlushLost
  <1>7. ASSUME NEW t \in Topics, ProduceRaises(t) PROVE ScoresFit'
    BY <1>0, <1>7, ThreadFits DEF ProduceRaises
  <1>8. CASE Restart
    BY <1>8, RestartFits
  <1>9. CASE Tick \/ UNCHANGED vars
    BY <1>9 DEF Tick, vars, EInv, ScoresFit
  <1> QED BY <1>1, <1>2, <1>3, <1>4, <1>5, <1>6, <1>7, <1>8, <1>9 DEF Next, Work

(* No alert's score exceeds what the indicators it names account for,      *)
(* unless older ones were pushed out: a score only decays, and the lock    *)
(* keeps it together with the indicators it came from.                     *)
THEOREM AlertsExplained == Spec => []AlertExplained
  <1>1. Init => EInv
    BY InitFits
  <1>2. EInv => AlertExplained
    BY DEF EInv, ScoresFit, Fits, AlertExplained
  <1> QED BY <1>1, <1>2, StepFits, PTL DEF Spec

-----------------------------------------------------------------------------
(* The times retained. *)

(* d is what is left of a without its first o elements. *)
Dropped(a, d, o) ==
    /\ d \in Seq(Int) /\ o \in 0..Len(a) /\ Len(d) = Len(a) - o
    /\ \A k \in 1..Len(d) : d[k] = a[o + k]

LEMMA DroppedTwice ==
    ASSUME NEW a \in Seq(Int), NEW b, NEW d, NEW o1, NEW o2, Dropped(a, b, o1), Dropped(b, d, o2),
           NEW o, o = o1 + o2
    PROVE  Dropped(a, d, o)
  <1> PICK L, m, n : L = Len(a) /\ m = Len(b) /\ n = Len(d)
    OBVIOUS
  <1>1. L \in Nat /\ o1 \in 0..L /\ m = L - o1 /\ o2 \in 0..m /\ n = m - o2 /\ d \in Seq(Int)
    BY DEF Dropped
  <1>2. ASSUME NEW k \in 1..m PROVE b[k] = a[o1 + k]
    BY <1>2 DEF Dropped
  <1>3. ASSUME NEW k \in 1..n PROVE d[k] = a[(o1 + o2) + k]
    <2> PICK l : l = o2 + k
      OBVIOUS
    <2>1. l \in 1..m /\ o1 + l = (o1 + o2) + k
      BY <1>1
    <2>2. d[k] = b[l]
      BY DEF Dropped
    <2> QED BY <1>2, <2>1, <2>2
  <1>5. o1 + o2 \in 0..L /\ n = L - (o1 + o2)
    BY <1>1
  <1> QED BY <1>1, <1>3, <1>5 DEF Dropped

LEMMA Sliced ==
    ASSUME NEW a \in Seq(Int), NEW f \in 1..Len(a) + 1
    PROVE  Dropped(a, SubSeq(a, f, Len(a)), f - 1)
  <1> PICK d : d = SubSeq(a, f, Len(a))
    OBVIOUS
  <1>1. CASE f = Len(a) + 1
    <2>1. d = <<>> /\ Len(d) = 0
      BY <1>1
    <2> QED BY <1>1, <2>1 DEF Dropped
  <1>2. CASE f # Len(a) + 1
    <2>1. /\ d \in Seq(Int) /\ Len(d) = Len(a) - f + 1
          /\ \A k \in 1..Len(d) : d[k] = a[f + k - 1]
      BY <1>2
    <2>2. \A k \in 1..Len(d) : d[k] = a[(f - 1) + k]
      BY <2>1
    <2> QED BY <2>1, <2>2 DEF Dropped
  <1> QED BY <1>1, <1>2

LEMMA LastNDrops ==
    ASSUME NEW a \in Seq(Int), NEW n \in Nat
    PROVE  Dropped(a, LastN(a, n), IF Len(a) > n THEN Len(a) - n ELSE 0)
  <1>1. CASE Len(a) > n
    <2> PICK f : f = Len(a) - n + 1
      OBVIOUS
    <2>1. f \in 1..Len(a) + 1 /\ f - 1 = Len(a) - n /\ LastN(a, n) = SubSeq(a, f, Len(a))
      BY <1>1 DEF LastN
    <2> QED BY <1>1, <2>1, Sliced
  <1>2. CASE ~(Len(a) > n)
    <2>1. LastN(a, n) = a
      BY <1>2, LastNWhole
    <2> QED BY <1>2, <2>1 DEF Dropped
  <1> QED BY <1>1, <1>2

(* Pruning drops the times before the first that is not too old. *)
LEMMA PrunedDrops ==
    ASSUME NEW a \in Seq(Int), NEW cutoff \in Int
    PROVE  \E o \in 0..Len(a) :
              /\ Dropped(a, Pruned(a, cutoff), o)
              /\ \A k \in 1..o : a[k] < cutoff
              /\ o < Len(a) => a[o + 1] >= cutoff
  <1> DEFINE First(k) == /\ \A j \in 1..k - 1 : a[j] < cutoff
                         /\ k <= Len(a) => a[k] >= cutoff
  <1>1. \E k \in 1..Len(a) + 1 : First(k)
    <2> PICK T : T = {k \in 1..Len(a) + 1 : k <= Len(a) => a[k] >= cutoff}
      OBVIOUS
    <2>1. T \in SUBSET Nat /\ Len(a) + 1 \in T
      OBVIOUS
    <2>2. PICK k \in T : \A y \in T : k <= y
      BY <2>1, LeastNatural
    <2>3. ASSUME NEW j \in 1..k - 1 PROVE a[j] < cutoff
      <3>1. j \in 1..Len(a) + 1 /\ j \notin T /\ j \in 1..Len(a)
        BY <2>2
      <3>2. a[j] \in Int
        BY <3>1
      <3> QED BY <3>1, <3>2
    <2> QED BY <2>2, <2>3
  <1> PICK f : f = CHOOSE k \in 1..Len(a) + 1 : First(k)
    OBVIOUS
  <1>2. f \in 1..Len(a) + 1 /\ First(f)
    BY <1>1
  <1>3. Pruned(a, cutoff) = SubSeq(a, f, Len(a))
    BY Zenon DEF Pruned
  <1>4. Dropped(a, Pruned(a, cutoff), f - 1)
    BY <1>2, <1>3, Sliced
  <1> PICK o : o = f - 1
    OBVIOUS
  <1>5. o \in 0..Len(a) /\ o + 1 = f
    BY <1>2
  <1>6. \A k \in 1..o : a[k] < cutoff
    BY <1>2, <1>5
  <1>7. o < Len(a) => a[o + 1] >= cutoff
    BY <1>2, <1>5
  <1> QED BY <1>4, <1>5, <1>6, <1>7

(* The n-th newest of the times is no older than c. *)
Reaches(times, n, c) == Len(times) >= n /\ times[Len(times) - n + 1] >= c

(* Times in order, up to now. *)
InOrder(times, now) ==
    /\ times \in Seq(Int)
    /\ \A k \in 1..Len(times) : times[k] <= now
    /\ \A j, k \in 1..Len(times) : j < k => times[j] <= times[k]

LEMMA DroppedInOrder ==
    ASSUME NEW a, NEW d, NEW o, NEW now \in Int, InOrder(a, now), Dropped(a, d, o)
    PROVE  InOrder(d, now)
  <1> PICK L, n : L = Len(a) /\ n = Len(d)
    OBVIOUS
  <1>1. a \in Seq(Int) /\ L \in Nat /\ o \in 0..L /\ n = L - o /\ d \in Seq(Int)
    BY DEF Dropped, InOrder
  <1>2. ASSUME NEW k \in 1..n PROVE o + k \in 1..L /\ d[k] = a[o + k]
    <2>1. o + k \in 1..L
      BY <1>1
    <2>2. d[k] = a[o + k]
      BY DEF Dropped
    <2> QED BY <2>1, <2>2
  <1>3. ASSUME NEW j \in 1..n, NEW k \in 1..n, j < k PROVE d[j] <= d[k]
    <2> PICK x, y : x = o + j /\ y = o + k
      OBVIOUS
    <2>1. x \in 1..L /\ y \in 1..L /\ x < y /\ d[j] = a[x] /\ d[k] = a[y]
      BY <1>1, <1>2, <1>3
    <2> QED BY <2>1 DEF InOrder
  <1>4. ASSUME NEW k \in 1..n PROVE d[k] <= now
    BY <1>2 DEF InOrder
  <1> QED BY <1>1, <1>3, <1>4 DEF InOrder

TooOld(a, o1, o, cutoff) == \A k \in o1 + 1..o : a[k] < cutoff

(* What is dropped over the limit, and then too old, is not missed. *)
LEMMA DroppedReaches ==
    ASSUME NEW a \in Seq(Int), NEW d, NEW o, Dropped(a, d, o), NEW M \in Nat, NEW cutoff \in Int,
           NEW o1 \in Nat, o1 <= o, o1 = 0 \/ o1 = Len(a) - M,
           TooOld(a, o1, o, cutoff),
           NEW n \in 1..M, NEW c \in Int, c >= cutoff
    PROVE  Reaches(d, n, c) <=> Reaches(a, n, c)
  <1> PICK L, m, k, x : L = Len(a) /\ m = Len(d) /\ k = Len(d) - n + 1 /\ x = Len(a) - n + 1
    OBVIOUS
  <1>0. L \in Nat /\ o \in 0..L /\ m = L - o
    BY DEF Dropped
  <1>1. Reaches(d, n, c) <=> m >= n /\ d[k] >= c
    BY DEF Reaches
  <1>2. Reaches(a, n, c) <=> L >= n /\ a[x] >= c
    BY DEF Reaches
  <1>3. ASSUME m >= n PROVE L >= n /\ d[k] = a[x]
    <2>1. k \in 1..m /\ o + k = x /\ L >= n
      BY <1>0, <1>3
    <2> QED BY <2>1 DEF Dropped
  <1>4. ASSUME L >= n, a[x] >= c PROVE m >= n
    <2>1. x \in 1..L /\ x > o1
      BY <1>0, <1>4
    <2>2. a[x] \in Int
      BY <2>1
    <2>3. x \notin o1 + 1..o
      BY <1>4, <2>2 DEF TooOld
    <2> QED BY <1>0, <2>1, <2>3
  <1> QED BY <1>1, <1>2, <1>3, <1>4

LEMMA AppendReaches ==
    ASSUME NEW now \in Int, NEW times, InOrder(times, now), NEW a, a = Append(times, now)
    PROVE  /\ InOrder(a, now)
           /\ \A n \in Nat \ {0}, c \in Int :
                Reaches(a, n, c) <=> now >= c /\ (n = 1 \/ Reaches(times, n - 1, c))
  <1> PICK N : N = Len(times)
    OBVIOUS
  <1>1. /\ times \in Seq(Int) /\ N \in Nat /\ a \in Seq(Int) /\ Len(a) = N + 1 /\ a[N + 1] = now
        /\ \A k \in 1..N : a[k] = times[k] /\ times[k] \in Int /\ times[k] <= now
        /\ \A j, k \in 1..N : j < k => times[j] <= times[k]
    BY DEF InOrder
  <1>2. InOrder(a, now)
    <2>1. ASSUME NEW k \in 1..N + 1 PROVE a[k] <= now
      BY <1>1
    <2>2. ASSUME NEW j \in 1..N + 1, NEW k \in 1..N + 1, j < k PROVE a[j] <= a[k]
      <3>1. j \in 1..N
        BY <1>1, <2>2
      <3>2. k \in 1..N \/ k = N + 1
        BY <1>1
      <3> QED BY <1>1, <2>2, <3>1, <3>2
    <2> QED BY <1>1, <2>1, <2>2 DEF InOrder
  <1>3. ASSUME NEW n \in Nat \ {0}, NEW c \in Int
        PROVE  Reaches(a, n, c) <=> now >= c /\ (n = 1 \/ Reaches(times, n - 1, c))
    <2> PICK k : k = N + 1 - n + 1
      OBVIOUS
    <2>1. CASE n = 1
      <3>1. k = N + 1
        BY <1>1, <2>1
      <3> QED BY <1>1, <2>1, <3>1 DEF Reaches
    <2>2. CASE n # 1
      <3>1. Reaches(a, n, c) <=> N + 1 >= n /\ a[k] >= c
        BY <1>1 DEF Reaches
      <3>2. k = N - (n - 1) + 1
        BY <1>1
      <3>3. Reaches(times, n - 1, c) <=> N >= n - 1 /\ times[k] >= c
        BY <3>2 DEF Reaches
      <3>4. N + 1 >= n => k \in 1..N
        BY <1>1, <2>2
      <3>5. CASE N + 1 >= n
        <4>1. a[k] = times[k] /\ times[k] \in Int /\ times[k] <= now
          BY <1>1, <3>4, <3>5
        <4> QED BY <1>1, <2>2, <3>1, <3>3, <3>5, <4>1
      <3>6. CASE ~(N + 1 >= n)
        BY <1>1, <2>2, <3>1, <3>3, <3>6
      <3> QED BY <3>5, <3>6
    <2> QED BY <2>1, <2>2
  <1> QED BY <1>2, <1>3

LEMMA RecordedReaches ==
    ASSUME NEW now \in Int, NEW times, InOrder(times, now), NEW window \in Int,
           NEW d, d = Recorded(times, now, window)
    PROVE  /\ InOrder(d, now) /\ \A k \in 1..Len(d) : d[k] >= now - window
           /\ \A n \in 1..MaxRetained, c \in Int :
                c >= now - window =>
                  (Reaches(d, n, c) <=> now >= c /\ (n = 1 \/ Reaches(times, n - 1, c)))
  <1> PICK a, M, cutoff : a = Append(times, now) /\ M = MaxRetained /\ cutoff = now - window
    OBVIOUS
  <1> PICK b, o1 : b = LastN(a, M) /\ o1 = IF Len(a) > M THEN Len(a) - M ELSE 0
    OBVIOUS
  <1>1. /\ M \in Nat /\ cutoff \in Int /\ InOrder(a, now)
        /\ \A n \in Nat \ {0}, c \in Int :
             Reaches(a, n, c) <=> now >= c /\ (n = 1 \/ Reaches(times, n - 1, c))
    <2>1. M \in Nat /\ cutoff \in Int
      BY BoundsAssumption
    <2>2. a = Append(times, now)
      OBVIOUS
    <2> QED BY <2>1, <2>2, AppendReaches, Zenon
  <1>2. a \in Seq(Int) /\ Len(a) \in Nat
    BY <1>1 DEF InOrder
  <1>3. Dropped(a, b, o1)
    BY <1>1, <1>2, LastNDrops
  <1>4. PICK o2 \in 0..Len(b) :
          /\ Dropped(b, d, o2) /\ \A k \in 1..o2 : b[k] < cutoff
          /\ o2 < Len(b) => b[o2 + 1] >= cutoff
    <2>1. b \in Seq(Int)
      BY <1>3 DEF Dropped
    <2>2. d = Pruned(b, cutoff)
      BY Zenon DEF Recorded
    <2> QED BY <1>1, <2>1, <2>2, PrunedDrops, Zenon
  <1>5. PICK o : o = o1 + o2
    OBVIOUS
  <1>6. Dropped(a, d, o)
    BY <1>2, <1>3, <1>4, <1>5, DroppedTwice
  <1>7. /\ o1 \in Nat /\ o2 \in Nat /\ o1 <= o /\ (o1 = 0 \/ o1 = Len(a) - M)
    BY <1>1, <1>2, <1>3, <1>4, <1>5 DEF Dropped
  <1>8. TooOld(a, o1, o, cutoff)
    <2>0. Len(b) \in Nat /\ o2 \in 0..Len(b)
      BY <1>3, <1>4 DEF Dropped
    <2>1. ASSUME NEW k \in o1 + 1..o PROVE a[k] < cutoff
      <3> PICK l : l = k - o1
        OBVIOUS
      <3>1. l \in 1..o2 /\ l \in 1..Len(b) /\ o1 + l = k
        BY <1>5, <1>7, <2>0
      <3> QED BY ZenonT(60), <1>3, <1>4, <3>1 DEF Dropped
    <2> QED BY <2>1 DEF TooOld
  <1>9. InOrder(d, now)
    BY <1>1, <1>6, DroppedInOrder
  <1>10. ASSUME NEW k \in 1..Len(d) PROVE d[k] >= cutoff
    <2>0. d \in Seq(Int) /\ Len(d) \in Nat /\ o2 \in 0..Len(b) /\ Len(d) = Len(b) - o2
      BY <1>4 DEF Dropped
    <2>1. o2 < Len(b) /\ 1 \in 1..Len(d)
      BY <2>0
    <2>2. b[o2 + 1] = d[1] /\ d[1] >= cutoff
      BY <1>4, <2>1 DEF Dropped
    <2>3. CASE k = 1
      BY <2>2, <2>3
    <2>4. CASE k # 1
      <3>1. d[1] <= d[k] /\ d[1] \in Int /\ d[k] \in Int
        BY <1>9, <2>1, <2>4 DEF InOrder
      <3> QED BY <1>1, <2>2, <3>1
    <2> QED BY <2>3, <2>4
  <1>11. ASSUME NEW n \in 1..M, NEW c \in Int, c >= cutoff
         PROVE  Reaches(d, n, c) <=> now >= c /\ (n = 1 \/ Reaches(times, n - 1, c))
    <2>1. Reaches(d, n, c) <=> Reaches(a, n, c)
      BY <1>1, <1>2, <1>6, <1>7, <1>8, <1>11, DroppedReaches
    <2>2. n \in Nat \ {0}
      BY <1>1
    <2> QED BY <1>1, <2>1, <2>2
  <1> QED BY <1>9, <1>10, <1>11
-----------------------------------------------------------------------------
(* The transactions counted. *)

Transactions == "banking.transactions"

Retained(i) == IF i \in DOMAIN profiles THEN profiles[i].transactions ELSE <<>>

(* The transactions of an identity scored since time c. *)
Counted(e, i, c) == e.topic = Transactions /\ e.identity = i /\ e.time >= c
Since(log, i, c) == {k \in 1..Len(log) : Counted(log[k], i, c)}

(* The times retained tell whether there were n transactions since c, for  *)
(* every n up to the limit and every c that may still be asked for.        *)
Counts(times, log, i, now) ==
    \A n \in 1..MaxRetained, c \in Int :
        c >= now - VelocityWindow =>
            (Cardinality(Since(log, i, c)) >= n <=> Reaches(times, n, c))

(* The time a transaction is scored with that is next: no earlier than     *)
(* those scored, for one thread scores them all.                           *)
Clock ==
    IF threads[Transactions].pc \in {"resolve", "enter"} THEN threads[Transactions].now ELSE wall

Timely(log, now) ==
    \A k \in 1..Len(log) :
        log[k].topic = Transactions => log[k].time \in Int /\ log[k].time <= now

(* A transaction was found to violate the velocity if and only if it did.  *)
Window(log, n) ==
    {k \in 1..n : /\ log[k].topic = Transactions /\ log[k].identity = log[n].identity
                  /\ log[n].time - log[k].time <= VelocityWindow}

Exact(log, n) ==
    log[n].topic = Transactions =>
        ("VELOCITY_VIOLATION" \in log[n].indicators
            <=> Cardinality(Window(log, n)) >= VelocityThreshold)

TimesKept ==
    /\ \E S : scored \in Seq(S)
    /\ Clock <= wall
    /\ Timely(scored, Clock)
    /\ \A i \in Identities : /\ InOrder(Retained(i), Clock)
                             /\ Counts(Retained(i), scored, i, Clock)
    /\ \A n \in 1..Len(scored) : Exact(scored, n)

VInv == IInv /\ TimesKept

(* What holds up to a time holds up to a later one. *)
LEMMA LaterCounts ==
    ASSUME NEW times, NEW log, NEW i, NEW now \in Int, NEW now2 \in Int, now <= now2,
           InOrder(times, now), Counts(times, log, i, now)
    PROVE  InOrder(times, now2) /\ Counts(times, log, i, now2)
  <1>1. VelocityWindow \in Nat
    BY VelocityAssumption
  <1>2. InOrder(times, now2)
    <2>1. ASSUME NEW k \in 1..Len(times) PROVE times[k] <= now2
      BY DEF InOrder
    <2> QED BY <2>1 DEF InOrder
  <1>3. \A c \in Int : c >= now2 - VelocityWindow => c >= now - VelocityWindow
    BY <1>1
  <1> QED BY <1>2, <1>3 DEF Counts

LEMMA LaterTimely ==
    ASSUME NEW log, NEW now \in Int, NEW now2 \in Int, now <= now2, Timely(log, now)
    PROVE  Timely(log, now2)
  BY DEF Timely

LEMMA SinceFinite ==
    ASSUME NEW S, NEW log \in Seq(S), NEW i, NEW c
    PROVE  IsFiniteSet(Since(log, i, c)) /\ Cardinality(Since(log, i, c)) \in Nat
  <1>1. IsFiniteSet(1..Len(log))
    BY FS_Interval
  <1>2. Since(log, i, c) \in SUBSET (1..Len(log))
    BY DEF Since
  <1> QED BY <1>1, <1>2, FS_Subset, FS_CardinalityType

(* Whoever is counted and whatever is scored next. *)
LEMMA SinceSame ==
    ASSUME NEW S, NEW log \in Seq(S), NEW e, NEW i, NEW c, ~Counted(e, i, c)
    PROVE  Since(Append(log, e), i, c) = Since(log, i, c)
  <1> PICK log2 : log2 = Append(log, e)
    OBVIOUS
  <1>1. /\ Len(log2) = Len(log) + 1 /\ log2[Len(log) + 1] = e /\ Len(log) \in Nat
        /\ \A k \in 1..Len(log) : log2[k] = log[k]
    BY AppendedElements
  <1> QED BY <1>1 DEF Since

LEMMA SinceGrows ==
    ASSUME NEW S, NEW log \in Seq(S), NEW e, NEW i, NEW c, Counted(e, i, c)
    PROVE  Cardinality(Since(Append(log, e), i, c)) = Cardinality(Since(log, i, c)) + 1
  <1> PICK log2, n, X : log2 = Append(log, e) /\ n = Len(log) + 1 /\ X = Since(log, i, c)
    OBVIOUS
  <1>1. /\ Len(log2) = n /\ log2[n] = e /\ Len(log) \in Nat
        /\ \A k \in 1..Len(log) : log2[k] = log[k]
    BY AppendedElements
  <1>2. Since(log2, i, c) = X \cup {n} /\ n \notin X
    BY <1>1 DEF Since
  <1>3. IsFiniteSet(X)
    BY SinceFinite
  <1>4. Cardinality(X \cup {n}) = Cardinality(X) + 1
    BY <1>2, <1>3, FS_AddElement
  <1> QED BY <1>2, <1>4

LEMMA SinceNone ==
    ASSUME NEW S, NEW log \in Seq(S), NEW now \in Int, Timely(log, now), NEW i, NEW c \in Int, c > now
    PROVE  Cardinality(Since(log, i, c)) = 0
  <1>1. Since(log, i, c) = {}
    BY DEF Since, Counted, Timely
  <1> QED BY <1>1, FS_EmptySet

(* Nothing too old is retained. *)
Recent(times, now) == \A k \in 1..Len(times) : times[k] >= now - VelocityWindow

(* A transaction is scored: the times retained count it, too. *)
LEMMA CountsAppended ==
    ASSUME NEW S, NEW log \in Seq(S), NEW now \in Int, Timely(log, now), NEW i,
           NEW times, InOrder(times, now), Counts(times, log, i, now),
           NEW e, \A c \in Int : Counted(e, i, c) <=> now >= c,
           NEW d, d = Recorded(times, now, VelocityWindow)
    PROVE  InOrder(d, now) /\ Recent(d, now) /\ Counts(d, Append(log, e), i, now)
  <1> PICK log2 : log2 = Append(log, e)
    OBVIOUS
  <1>0. VelocityWindow \in Int
    BY VelocityAssumption
  <1>1. /\ InOrder(d, now) /\ \A k \in 1..Len(d) : d[k] >= now - VelocityWindow
        /\ \A n \in 1..MaxRetained, c \in Int :
             c >= now - VelocityWindow =>
               (Reaches(d, n, c) <=> now >= c /\ (n = 1 \/ Reaches(times, n - 1, c)))
    BY <1>0, RecordedReaches
  <1>2. ASSUME NEW n \in 1..MaxRetained, NEW c \in Int, c >= now - VelocityWindow
        PROVE  Cardinality(Since(log2, i, c)) >= n <=> Reaches(d, n, c)
    <2> PICK x, y : x = Cardinality(Since(log, i, c)) /\ y = Cardinality(Since(log2, i, c))
      OBVIOUS
    <2>1. x \in Nat
      BY SinceFinite
    <2>2. CASE now >= c
      <3>1. y = x + 1
        <4>1. Counted(e, i, c)
          BY <2>2
        <4>2. Cardinality(Since(log2, i, c)) = Cardinality(Since(log, i, c)) + 1
          BY <4>1, SinceGrows
        <4> QED BY <4>2
      <3>2. n # 1 => (x >= n - 1 <=> Reaches(times, n - 1, c))
        <4>1. n # 1 => n - 1 \in 1..MaxRetained
          BY BoundsAssumption
        <4> QED BY <1>2, <4>1 DEF Counts
      <3>3. y >= n <=> n = 1 \/ x >= n - 1
        BY <2>1, <3>1, BoundsAssumption
      <3> QED BY <1>1, <1>2, <2>2, <3>2, <3>3
    <2>3. CASE ~(now >= c)
      <3>1. Since(log2, i, c) = Since(log, i, c)
        <4>1. ~Counted(e, i, c)
          BY <2>3
        <4> QED BY <4>1, SinceSame
      <3>2. y = 0
        BY <2>3, <3>1, SinceNone
      <3> QED BY <1>1, <1>2, <2>3, <3>2, BoundsAssumption
    <2> QED BY <2>2, <2>3
  <1> QED BY <1>1, <1>2 DEF Counts, Recent

-----------------------------------------------------------------------------
(* What a message does to the times and whether it violates the velocity. *)

LEMMA ScoredTransactions ==
    ASSUME NEW p, DOMAIN p = Fields, NEW m, m.topic \in ScoringTopics, NEW now,
           NEW before, before = Decayed(p, now), NEW q, q = Scored(before, m, now)
    PROVE  /\ before.transactions = p.transactions
           /\ q.transactions = IF m.topic = Transactions
                               THEN Recorded(p.transactions, now, VelocityWindow)
                               ELSE p.transactions
  <1> PICK seen, added : seen = Observed(before, m, now) /\ added = Indicators(before, m, now)
    OBVIOUS
  <1>1. DOMAIN before = Fields /\ before.transactions = p.transactions
    BY DEF Decayed, Fields
  <1>2. DOMAIN seen = Fields
        /\ seen.transactions = IF m.topic = Transactions
                               THEN Recorded(p.transactions, now, VelocityWindow)
                               ELSE p.transactions
    BY <1>1 DEF Observed, Fields, ScoringTopics, Topics, Transactions
  <1>3. q = [seen EXCEPT !.score = @ + Total(added),
                         !.indicators = LastN(@ \o added, MaxIndicators)]
    BY DEF Scored
  <1> QED BY <1>1, <1>2, <1>3 DEF Fields

Names(s) == {s[k] : k \in 1..Len(s)}

LEMMA NamesJoined ==
    ASSUME NEW u \in Seq(IndicatorNames), NEW v \in Seq(IndicatorNames), NEW s, s = u \o v
    PROVE  Names(s) = Names(u) \cup Names(v)
  <1> PICK m, n : m = Len(u) /\ n = Len(v)
    OBVIOUS
  <1>1. /\ m \in Nat /\ n \in Nat /\ Len(s) = m + n
        /\ \A k \in 1..m + n : s[k] = IF k <= m THEN u[k] ELSE v[k - m]
    BY Joined
  <1>2. ASSUME NEW k \in 1..m PROVE k \in 1..m + n /\ u[k] = s[k]
    BY <1>1
  <1>3. ASSUME NEW k \in 1..n PROVE m + k \in 1..m + n /\ v[k] = s[m + k]
    <2> PICK l : l = m + k
      OBVIOUS
    <2>1. l \in 1..m + n /\ ~(l <= m) /\ l - m = k
      BY <1>1
    <2> QED BY <1>1, <2>1
  <1>4. ASSUME NEW k \in 1..m + n, ~(k <= m) PROVE k - m \in 1..n /\ s[k] = v[k - m]
    BY <1>1, <1>4
  <1>5. Names(s) \subseteq Names(u) \cup Names(v)
    BY <1>1, <1>4 DEF Names
  <1>6. Names(u) \subseteq Names(s)
    BY <1>1, <1>2 DEF Names
  <1>7. Names(v) \subseteq Names(s)
    BY <1>1, <1>3 DEF Names
  <1> QED BY <1>5, <1>6, <1>7

LEMMA NamesIf ==
    ASSUME NEW condition, NEW name \in IndicatorNames
    PROVE  /\ If(condition, name) \in Seq(IndicatorNames)
           /\ Names(If(condition, name)) = IF condition THEN {name} ELSE {}
  <1>1. CASE condition
    <2> PICK s : s = <<name>>
      OBVIOUS
    <2>1. Len(s) = 1 /\ s[1] = name /\ s \in Seq(IndicatorNames)
      OBVIOUS
    <2>2. Names(s) = {name}
      BY <2>1 DEF Names
    <2> QED BY <1>1, <2>1, <2>2 DEF If
  <1>2. CASE ~condition
    <2>1. Len(<<>>) = 0 /\ <<>> \in Seq(IndicatorNames)
      OBVIOUS
    <2>2. Names(<<>>) = {}
      BY <2>1 DEF Names
    <2> QED BY <1>2, <2>1, <2>2 DEF If
  <1> QED BY <1>1, <1>2

LEMMA Violates ==
    ASSUME NEW p, DOMAIN p = Fields, NEW m, m.topic = Transactions, NEW now,
           NEW d, d = Recorded(p.transactions, now, VelocityWindow)
    PROVE  "VELOCITY_VIOLATION" \in Names(Indicators(p, m, now)) <=> Len(d) >= VelocityThreshold
  <1> PICK u, v : /\ u = If(m.large, "LARGE_TRANSFER_AMOUNT")
                  /\ v = If(Len(d) >= VelocityThreshold, "VELOCITY_VIOLATION")
    OBVIOUS
  <1>1. Observed(p, m, now).transactions = d
    BY DEF Observed, Fields, Transactions
  <1>2. Indicators(p, m, now) = u \o v
    BY <1>1 DEF Indicators, Transactions
  <1>3. {"LARGE_TRANSFER_AMOUNT", "VELOCITY_VIOLATION"} \subseteq IndicatorNames
    BY DEF IndicatorNames
  <1>4. /\ u \in Seq(IndicatorNames) /\ v \in Seq(IndicatorNames)
        /\ Names(u) \subseteq {"LARGE_TRANSFER_AMOUNT"}
        /\ Names(v) = IF Len(d) >= VelocityThreshold THEN {"VELOCITY_VIOLATION"} ELSE {}
    BY <1>3, NamesIf
  <1>5. Names(u \o v) = Names(u) \cup Names(v)
    <2>1. u \in Seq(IndicatorNames) /\ v \in Seq(IndicatorNames)
      BY <1>4
    <2> QED BY ZenonT(60), <2>1, NamesJoined
  <1>6. Names(Indicators(p, m, now)) = Names(u \o v)
    BY <1>2
  <1> QED BY <1>4, <1>5, <1>6

(* What is scored of others changes nothing. *)
LEMMA CountsOthers ==
    ASSUME NEW S, NEW log \in Seq(S), NEW now \in Int, NEW i, NEW times, Counts(times, log, i, now),
           NEW e, \A c \in Int : ~Counted(e, i, c)
    PROVE  Counts(times, Append(log, e), i, now)
  <1>1. ASSUME NEW c \in Int PROVE Since(Append(log, e), i, c) = Since(log, i, c)
    BY SinceSame
  <1> QED BY <1>1 DEF Counts

LEMMA TimelyAppended ==
    ASSUME NEW S, NEW log \in Seq(S), NEW now \in Int, Timely(log, now),
           NEW e, e.topic = Transactions => e.time \in Int /\ e.time <= now
    PROVE  Timely(Append(log, e), now)
  <1> PICK log2 : log2 = Append(log, e)
    OBVIOUS
  <1>1. /\ Len(log2) = Len(log) + 1 /\ log2[Len(log) + 1] = e /\ Len(log) \in Nat
        /\ \A k \in 1..Len(log) : log2[k] = log[k]
    BY AppendedElements
  <1> QED BY <1>1 DEF Timely

LEMMA ExactKept ==
    ASSUME NEW S, NEW log \in Seq(S), NEW n \in 1..Len(log), Exact(log, n), NEW e
    PROVE  Exact(Append(log, e), n)
  <1> PICK log2 : log2 = Append(log, e)
    OBVIOUS
  <1>1. Len(log) \in Nat /\ \A k \in 1..Len(log) : log2[k] = log[k]
    BY AppendedElements
  <1>2. log2[n] = log[n]
    BY <1>1
  <1>3. Window(log2, n) = Window(log, n)
    BY <1>1, <1>2 DEF Window
  <1> QED BY <1>2, <1>3 DEF Exact

(* The velocity is violated if the times retained are as many as that. *)
LEMMA ExactAppended ==
    ASSUME NEW S, NEW log \in Seq(S), NEW now \in Int, Timely(log, now),
           NEW i, NEW e, e.topic = Transactions, e.identity = i, e.time = now,
           NEW d, InOrder(d, now), Recent(d, now),
           NEW log2, log2 = Append(log, e), Counts(d, log2, i, now),
           "VELOCITY_VIOLATION" \in e.indicators <=> Len(d) >= VelocityThreshold
    PROVE  Exact(log2, Len(log) + 1)
  <1> PICK n, c, T : n = Len(log) + 1 /\ c = now - VelocityWindow /\ T = VelocityThreshold
    OBVIOUS
  <1>1. /\ Len(log2) = n /\ log2[n] = e /\ Len(log) \in Nat
        /\ \A k \in 1..Len(log) : log2[k] = log[k]
    BY AppendedElements
  <1>2. c \in Int /\ T \in 1..MaxRetained /\ T \in Nat \ {0} /\ VelocityWindow \in Nat
    BY VelocityAssumption, BoundsAssumption
  <1>3. ASSUME NEW k \in 1..n, log2[k].topic = Transactions PROVE log2[k].time \in Int
    <2>1. CASE k = n
      BY <1>1, <2>1
    <2>2. CASE k # n
      BY <1>1, <1>3, <2>2 DEF Timely
    <2> QED BY <2>1, <2>2
  <1>4. Window(log2, n) = Since(log2, i, c)
    <2>1. ASSUME NEW k \in 1..n, log2[k].topic = Transactions
          PROVE  now - log2[k].time <= VelocityWindow <=> log2[k].time >= c
      BY <1>2, <1>3, <2>1
    <2> QED BY <1>1, <2>1 DEF Window, Since, Counted
  <1>5. Cardinality(Since(log2, i, c)) >= T <=> Reaches(d, T, c)
    BY <1>2 DEF Counts
  <1>6. Reaches(d, T, c) <=> Len(d) >= T
    <2>1. Len(d) \in Nat
      BY DEF InOrder
    <2>2. Len(d) >= T => Len(d) - T + 1 \in 1..Len(d)
      BY <1>2, <2>1
    <2> QED BY <2>2 DEF Reaches, Recent
  <1> QED BY <1>1, <1>4, <1>5, <1>6 DEF Exact

-----------------------------------------------------------------------------
(* The clock of the transactions goes forward. *)

LEMMA ClockTyped == ASSUME IInv PROVE Transactions \in Topics /\ Clock \in Int /\ wall \in Int
  <1>1. Transactions \in Topics
    BY DEF Transactions, Topics
  <1>2. InHand(Transactions) /\ wall \in Nat
    BY <1>1 DEF IInv
  <1> QED BY <1>1, <1>2 DEF Clock, InHand

Forward == Clock' \in Int /\ Clock <= Clock' /\ Clock' <= wall'

LEMMA ClockForward ==
    ASSUME IInv, IInv', Clock <= wall, wall <= wall',
           \/ threads'[Transactions] = threads[Transactions]
           \/ threads'[Transactions].pc \notin {"resolve", "enter"}
           \/ threads'[Transactions].now = Clock
    PROVE  Forward
  <1>1. Transactions \in Topics /\ Clock \in Int /\ wall \in Int
    BY ClockTyped
  <1>2. InHand(Transactions)' /\ wall' \in Nat
    BY <1>1 DEF IInv
  <1>3. Clock' \in Int
    BY <1>2 DEF Clock, InHand
  <1> QED BY <1>1, <1>2, <1>3 DEF Clock, Forward

LEMMA ThreadForward ==
    ASSUME IInv, IInv', Clock <= wall, wall' = wall, NEW t \in Topics, NEW h,
           threads' = [threads EXCEPT ![t] = h],
           t = Transactions => h.pc \notin {"resolve", "enter"} \/ h.now = Clock
    PROVE  Forward
  <1>1. DOMAIN threads = Topics /\ Transactions \in Topics /\ wall \in Int
    BY ClockTyped DEF IInv
  <1>2. wall <= wall'
    BY <1>1
  <1>3. CASE t = Transactions
    BY <1>1, <1>2, <1>3, ClockForward
  <1>4. CASE t # Transactions
    BY <1>1, <1>2, <1>4, ClockForward
  <1> QED BY <1>3, <1>4

(* A step that scores nothing. *)
LEMMA TimesCarried ==
    ASSUME IInv, TimesKept, Forward, scored' = scored,
           \A i \in Identities : Retained(i)' = Retained(i)
    PROVE  TimesKept'
  <1>1. Clock \in Int /\ Clock' \in Int /\ Clock <= Clock'
    BY ClockTyped DEF Forward
  <1>2. Timely(scored, Clock) /\ \A i \in Identities : InOrder(Retained(i), Clock)
                                                  /\ Counts(Retained(i), scored, i, Clock)
    BY DEF TimesKept
  <1>3. Timely(scored, Clock')
    BY <1>1, <1>2, LaterTimely
  <1>4. ASSUME NEW i \in Identities
        PROVE  InOrder(Retained(i), Clock') /\ Counts(Retained(i), scored, i, Clock')
    BY <1>1, <1>2, LaterCounts
  <1> QED BY <1>3, <1>4 DEF TimesKept, Forward

LEMMA NothingCounted ==
    ASSUME NEW now \in Int
    PROVE  /\ Timely(<<>>, now) /\ InOrder(<<>>, now)
           /\ \A i : Counts(<<>>, <<>>, i, now)
  <1>1. Timely(<<>>, now) /\ InOrder(<<>>, now)
    BY DEF Timely, InOrder
  <1>2. ASSUME NEW i, NEW c PROVE Cardinality(Since(<<>>, i, c)) = 0
    <2>1. Since(<<>>, i, c) = {}
      BY DEF Since
    <2> QED BY <2>1, FS_EmptySet
  <1>3. \A n \in 1..MaxRetained : ~(0 >= n)
    BY BoundsAssumption
  <1>4. ASSUME NEW n \in 1..MaxRetained, NEW c PROVE ~Reaches(<<>>, n, c)
    <2>1. Len(<<>>) = 0
      OBVIOUS
    <2> QED BY <1>3, <2>1 DEF Reaches
  <1> QED BY <1>1, <1>2, <1>3, <1>4 DEF Counts

LEMMA InitTimes == ASSUME Init PROVE VInv
  <1>1. IInv
    BY InitOK
  <1>2. DOMAIN profiles = {} /\ scored = <<>> /\ threads[Transactions].pc = "poll"
    BY DEF Init, Polling, Transactions, Topics
  <1>3. Clock = wall /\ wall \in Int
    BY <1>1, <1>2, ClockTyped DEF Clock
  <1>4. \A i : Retained(i) = <<>>
    BY <1>2 DEF Retained
  <1>5. Timely(<<>>, Clock) /\ InOrder(<<>>, Clock) /\ \A i : Counts(<<>>, <<>>, i, Clock)
    BY <1>3, NothingCounted
  <1>6. (\E S : scored \in Seq(S)) /\ Clock <= wall /\ 1..Len(scored) = {}
    BY <1>2, <1>3
  <1> QED BY <1>1, <1>2, <1>4, <1>5, <1>6 DEF VInv, TimesKept

LEMMA RestartTimes == ASSUME VInv, IInv', Restart PROVE TimesKept'
  <1>1. /\ DOMAIN profiles' = {} /\ scored' = <<>> /\ threads'[Transactions].pc = "poll"
        /\ wall' = wall
    BY DEF Restart, Polling, Transactions, Topics
  <1>2. Clock' = wall' /\ wall' \in Int
    BY <1>1, ClockTyped DEF Clock, VInv
  <1>3. \A i : Retained(i)' = <<>>
    BY <1>1 DEF Retained
  <1>4. Timely(<<>>, Clock') /\ InOrder(<<>>, Clock') /\ \A i : Counts(<<>>, <<>>, i, Clock')
    BY <1>2, NothingCounted
  <1>5. (\E S : scored' \in Seq(S)) /\ Clock' <= wall' /\ 1..Len(scored') = {}
    BY <1>1, <1>2
  <1> QED BY <1>1, <1>3, <1>4, <1>5 DEF TimesKept

LEMMA ReleaseTimes ==
    ASSUME VInv, IInv', NEW t \in Topics, threads[t].pc = "flush", Release(t),
           scored' = scored, wall' = wall
    PROVE  TimesKept'
  <1> PICK x, p : x = threads[t].identity /\ p = Silenced(profiles[x], threads[t].now)
    OBVIOUS
  <1>1. x \in DOMAIN profiles /\ DOMAIN profiles[x] = Fields
    BY DEF VInv, IInv, InHand, ProfilesOK
  <1>2. profiles' = [profiles EXCEPT ![x] = p] /\ threads' = [threads EXCEPT ![t] = Polling]
    BY Zenon DEF Release
  <1>3. p.transactions = profiles[x].transactions
    BY <1>1 DEF Silenced, Fields
  <1>4. ASSUME NEW i \in Identities PROVE Retained(i)' = Retained(i)
    BY <1>1, <1>2, <1>3 DEF Retained
  <1>5. Polling.pc = "poll" /\ Clock <= wall
    BY DEF Polling, VInv, TimesKept
  <1>6. Forward
    BY <1>2, <1>5, ThreadForward DEF VInv
  <1> QED BY <1>4, <1>6, TimesCarried DEF VInv

LEMMA TransactionScored ==
    ASSUME VInv, NEW i \in Identities, NEW d, d = Recorded(Retained(i), Clock, VelocityWindow),
           NEW e, e.topic = Transactions, e.identity = i, e.time = Clock,
           "VELOCITY_VIOLATION" \in e.indicators <=> Len(d) >= VelocityThreshold
    PROVE  /\ InOrder(d, Clock) /\ Counts(d, Append(scored, e), i, Clock)
           /\ Exact(Append(scored, e), Len(Append(scored, e)))
  <1>1. PICK S : scored \in Seq(S)
    BY DEF VInv, TimesKept
  <1>2. /\ Clock \in Int /\ Timely(scored, Clock)
        /\ InOrder(Retained(i), Clock) /\ Counts(Retained(i), scored, i, Clock)
    BY ClockTyped DEF VInv, TimesKept
  <1>3. \A c \in Int : Counted(e, i, c) <=> Clock >= c
    BY DEF Counted
  <1>4. InOrder(d, Clock) /\ Recent(d, Clock) /\ Counts(d, Append(scored, e), i, Clock)
    BY <1>1, <1>2, <1>3, CountsAppended
  <1>5. Exact(Append(scored, e), Len(scored) + 1)
    BY <1>1, <1>2, <1>4, ExactAppended
  <1>6. Len(Append(scored, e)) = Len(scored) + 1
    BY <1>1, AppendedElements
  <1> QED BY <1>4, <1>5, <1>6

(* The thread of the transactions scores with the clock of the lemmas      *)
(* above, and the others do not touch the times.                           *)
LEMMA ScoreTimes == ASSUME VInv, IInv', NEW t \in Topics, Score(t) PROVE TimesKept'
  <1> PICK i, m, now, old, before, added, p, h, e :
        /\ i = threads[t].identity /\ m = threads[t].message /\ now = threads[t].now
        /\ old = IF i \in DOMAIN profiles THEN profiles[i] ELSE NewProfile
        /\ before = Decayed(old, now)
        /\ added = Indicators(before, m, now)
        /\ p = Scored(before, m, now)
        /\ h = IF Alerting(p, now)
               THEN [pc |-> "flush", identity |-> i, now |-> now,
                     alert |-> Alert(i, p, now), carried |-> Len(owed'[i])]
               ELSE Polling
        /\ e = [topic |-> t, identity |-> i, time |-> now, indicators |-> Names(added)]
    OBVIOUS
  <1>1. /\ profiles' = [j \in DOMAIN profiles \cup {i} |-> IF j = i THEN p ELSE profiles[j]]
        /\ threads' = [threads EXCEPT ![t] = h] /\ scored' = Append(scored, e) /\ wall' = wall
    BY Zenon DEF Score, Names
  <1>2. /\ t \in ScoringTopics /\ m.topic = t /\ now \in Nat /\ i \in Identities
        /\ threads[t].pc = "enter"
    BY DEF VInv, IInv, InHand, Score
  <1>3. DOMAIN old = Fields /\ old.transactions = Retained(i)
    <2>1. CASE i \in DOMAIN profiles
      BY <2>1 DEF VInv, IInv, ProfilesOK, Retained
    <2>2. CASE i \notin DOMAIN profiles
      <3>1. old = NewProfile
        BY <2>2
      <3> QED BY <2>2, <3>1 DEF NewProfile, Fields, Retained
    <2> QED BY <2>1, <2>2
  <1>4. /\ before.transactions = Retained(i) /\ DOMAIN before = Fields
        /\ p.transactions = IF t = Transactions THEN Recorded(Retained(i), now, VelocityWindow)
                            ELSE Retained(i)
    <2>1. DOMAIN before = Fields
      BY <1>3 DEF Decayed, Fields
    <2> QED BY <1>2, <1>3, <2>1, ScoredTransactions
  <1>5. Retained(i)' = p.transactions /\ \A j \in Identities \ {i} : Retained(j)' = Retained(j)
    BY <1>1 DEF Retained
  <1>6. PICK S : scored \in Seq(S)
    BY DEF VInv, TimesKept
  <1>7. /\ Clock \in Int /\ Clock <= wall /\ Timely(scored, Clock)
        /\ \A j \in Identities : InOrder(Retained(j), Clock)
                                 /\ Counts(Retained(j), scored, j, Clock)
        /\ \A n \in 1..Len(scored) : Exact(scored, n)
    BY ClockTyped DEF VInv, TimesKept
  <1>8. t = Transactions => now = Clock
    BY <1>2 DEF Clock
  <1>9. h.pc \notin {"resolve", "enter"}
    BY DEF Polling
  <1>10. Forward
    BY <1>1, <1>7, <1>9, ThreadForward DEF VInv
  <1>11. /\ e.topic = t /\ e.identity = i /\ e.time = now /\ e.indicators = Names(added)
    OBVIOUS
  <1>12. Timely(scored', Clock)
    BY <1>1, <1>2, <1>6, <1>7, <1>8, <1>11, TimelyAppended
  <1>13. ASSUME NEW j \in Identities, ~(t = Transactions /\ j = i)
         PROVE  InOrder(Retained(j)', Clock) /\ Counts(Retained(j)', scored', j, Clock)
    <2>1. Retained(j)' = Retained(j)
      BY <1>4, <1>5, <1>13
    <2>2. \A c \in Int : ~Counted(e, j, c)
      BY <1>11, <1>13 DEF Counted
    <2>3. InOrder(Retained(j), Clock) /\ Counts(Retained(j), scored, j, Clock)
      BY <1>7
    <2>4. Counts(Retained(j), Append(scored, e), j, Clock)
      BY <1>6, <1>7, <2>2, <2>3, CountsOthers
    <2> QED BY <1>1, <2>1, <2>3, <2>4
  <1>14. ASSUME t = Transactions
         PROVE  /\ InOrder(Retained(i)', Clock) /\ Counts(Retained(i)', scored', i, Clock)
                /\ Exact(scored', Len(scored) + 1)
    <2> PICK d, log2 : d = Retained(i)' /\ log2 = Append(scored, e)
      OBVIOUS
    <2>1. d = Recorded(Retained(i), Clock, VelocityWindow)
      BY <1>4, <1>5, <1>8, <1>14
    <2>5. "VELOCITY_VIOLATION" \in e.indicators <=> Len(d) >= VelocityThreshold
      <3>1. d = Recorded(before.transactions, now, VelocityWindow)
        BY <1>4, <1>8, <1>14, <2>1
      <3> QED BY <1>2, <1>4, <1>11, <1>14, <3>1, Violates
    <2>6. e.topic = Transactions /\ e.identity = i /\ e.time = Clock
      BY <1>8, <1>11, <1>14
    <2>7. /\ InOrder(d, Clock) /\ Counts(d, log2, i, Clock) /\ Exact(log2, Len(log2))
      BY <1>2, <2>1, <2>5, <2>6, TransactionScored
    <2>8. Len(log2) = Len(scored) + 1
      BY <1>6, AppendedElements
    <2> QED BY <1>1, <2>7, <2>8
  <1>15. \A j \in Identities : InOrder(Retained(j)', Clock)
                               /\ Counts(Retained(j)', scored', j, Clock)
    BY <1>13, <1>14
  <1>16. ASSUME NEW n \in 1..Len(scored') PROVE Exact(scored', n)
    <2>1. Len(scored') = Len(scored) + 1 /\ Len(scored) \in Nat
      BY <1>1, <1>6, AppendedElements
    <2>2. CASE n \in 1..Len(scored)
      <3>1. Exact(scored, n)
        BY <1>7, <2>2
      <3>2. Exact(Append(scored, e), n)
        BY <1>6, <2>2, <3>1, ExactKept
      <3> QED BY <1>1, <3>2
    <2>3. CASE n = Len(scored) + 1 /\ t = Transactions
      BY <1>14, <2>3
    <2>4. CASE n = Len(scored) + 1 /\ t # Transactions
      <3>1. scored'[n] = e
        BY <1>1, <1>6, <2>4, AppendedElements
      <3> QED BY <1>11, <2>4, <3>1 DEF Exact
    <2> QED BY <2>1, <2>2, <2>3, <2>4
  <1>17. Timely(scored', Clock') /\ Clock' \in Int /\ Clock <= Clock' /\ Clock' <= wall'
    BY <1>7, <1>10, <1>12, LaterTimely DEF Forward
  <1>18. ASSUME NEW j \in Identities
         PROVE  InOrder(Retained(j)', Clock') /\ Counts(Retained(j)', scored', j, Clock')
    BY <1>7, <1>15, <1>17, LaterCounts
  <1>19. \E U : scored' \in Seq(U)
    <2>1. Append(scored, e) \in Seq(S \cup {e})
      BY <1>6, AppendedElements
    <2> QED BY <1>1, <2>1
  <1> QED BY <1>16, <1>17, <1>18, <1>19 DEF TimesKept

LEMMA StepTimes == VInv /\ [Next]_vars => VInv'
  <1> SUFFICES ASSUME VInv, [Next]_vars, IInv' PROVE TimesKept'
    BY StepOK DEF VInv
  <1>0. /\ Polling.pc = "poll" /\ IInv /\ TimesKept /\ Clock <= wall
        /\ Transactions \in Topics /\ Clock \in Int /\ wall \in Int
    BY ClockTyped DEF Polling, VInv, TimesKept
  <1>1. ASSUME NEW m \in Messages, Receive(m) PROVE TimesKept'
    <2> PICK h : h = [pc |-> "resolve", message |-> m, now |-> wall]
      OBVIOUS
    <2>1. m.topic \in Topics /\ h.now = wall /\ threads' = [threads EXCEPT ![m.topic] = h]
      BY <1>1, MessagesAssumption DEF Receive
    <2>2. m.topic = Transactions => h.now = Clock
      BY <1>1, <2>1 DEF Receive, Clock
    <2>3. wall' = wall /\ scored' = scored /\ profiles' = profiles
      BY <1>1 DEF Receive
    <2>4. Forward
      BY <1>0, <2>1, <2>2, <2>3, ThreadForward
    <2> QED BY <1>0, <2>3, <2>4, TimesCarried DEF Retained
  <1>2. CASE MapAccount
    <2>1. /\ "banking.accounts" \in Topics /\ "banking.accounts" # Transactions
          /\ threads' = [threads EXCEPT !["banking.accounts"] = Polling]
          /\ wall' = wall /\ scored' = scored /\ profiles' = profiles
      BY <1>2 DEF MapAccount, Topics, Transactions
    <2>2. Forward
      BY <1>0, <2>1, ThreadForward
    <2> QED BY <1>0, <2>1, <2>2, TimesCarried DEF Retained
  <1>3. ASSUME NEW t \in Topics, Resolve(t) PROVE TimesKept'
    <2> PICK h : h = IF Ignored(threads[t].message) THEN Polling
                     ELSE [pc |-> "enter", message |-> threads[t].message,
                           now |-> threads[t].now, identity |-> IdentityOf(threads[t].message)]
      OBVIOUS
    <2>1. threads' = [threads EXCEPT ![t] = h] /\ threads[t].pc = "resolve"
          /\ wall' = wall /\ scored' = scored /\ profiles' = profiles
      BY <1>3 DEF Resolve
    <2>2. t = Transactions => h.pc \notin {"resolve", "enter"} \/ h.now = Clock
      BY <1>0, <2>1 DEF Clock
    <2>3. Forward
      BY <1>0, <2>1, <2>2, ThreadForward
    <2> QED BY <1>0, <2>1, <2>3, TimesCarried DEF Retained
  <1>4. ASSUME NEW t \in Topics, Score(t) PROVE TimesKept'
    BY <1>4, ScoreTimes
  <1>5. ASSUME NEW t \in Topics, Flush(t) PROVE TimesKept'
    BY <1>5, ReleaseTimes DEF Flush
  <1>6. ASSUME NEW t \in Topics, FlushLost(t) PROVE TimesKept'
    BY <1>6, ReleaseTimes DEF FlushLost
  <1>7. ASSUME NEW t \in Topics, ProduceRaises(t) PROVE TimesKept'
    <2>1. /\ threads' = [threads EXCEPT ![t] = Polling]
          /\ wall' = wall /\ scored' = scored /\ profiles' = profiles
      BY <1>7 DEF ProduceRaises
    <2>2. Polling.pc \notin {"resolve", "enter"}
      BY <1>0
    <2>3. Forward
      BY <1>0, <2>1, <2>2, ThreadForward
    <2> QED BY <1>0, <2>1, <2>3, TimesCarried DEF Retained
  <1>8. CASE Restart
    BY <1>8, RestartTimes
  <1>9. CASE Tick \/ UNCHANGED vars
    <2>1. /\ threads' = threads /\ scored' = scored /\ profiles' = profiles
          /\ wall' = wall + 1 \/ wall' = wall
      BY <1>9 DEF Tick, vars
    <2>2. wall <= wall' /\ threads'[Transactions] = threads[Transactions]
      BY <1>0, <2>1
    <2>3. Forward
      BY <1>0, <2>2, ClockForward
    <2> QED BY <1>0, <2>1, <2>3, TimesCarried DEF Retained
  <1> QED BY <1>1, <1>2, <1>3, <1>4, <1>5, <1>6, <1>7, <1>8, <1>9 DEF Next, Work

(* VELOCITY_VIOLATION is raised exactly by the transaction that has        *)
(* VelocityThreshold transactions of its identity within the window: the   *)
(* deque drops what is over its limit and what is too old, and the lock    *)
(* makes threads wait, but one thread scores the transactions in the order *)
(* of the times it read.                                                   *)
THEOREM VelocityIsExact == Spec => []VelocityExact
  <1>1. Init => VInv
    BY InitTimes
  <1>2. VInv => VelocityExact
    <2>1. ASSUME NEW n \in 1..Len(scored)
          PROVE  Window(scored, n)
                   = {k \in ScoredOf("banking.transactions", scored[n].identity, n) :
                        scored[n].time - scored[k].time <= VelocityWindow}
      BY DEF Window, ScoredOf, Transactions
    <2>2. VInv => \A n \in 1..Len(scored) : Exact(scored, n)
      BY DEF VInv, TimesKept
    <2> QED BY <2>1, <2>2 DEF VelocityExact, Exact, Transactions
  <1> QED BY <1>1, <1>2, StepTimes, PTL DEF Spec

-----------------------------------------------------------------------------
(* An alert and the reset that follows it. *)

(* The time a thread read has come, and the alert a thread waits with      *)
(* tells what stands against its identity now: nobody else has the lock.   *)
HandCurrent(t) ==
    LET h == threads[t]
    IN  /\ h.pc \in {"resolve", "enter", "flush"} => h.now \in 0..wall
        /\ h.pc = "flush" =>
             /\ h.alert = Alert(h.identity, profiles[h.identity], h.now)
             /\ Alerting(profiles[h.identity], h.now)

HInv == IInv /\ \A t \in Topics : HandCurrent(t)

(* A thread goes on, and no other has the lock if it touches a profile.    *)
LEMMA OneHandMoves ==
    ASSUME HInv, NEW t \in Topics, NEW h, threads' = [threads EXCEPT ![t] = h],
           UNCHANGED <<wall, crashes>>,
           \A u \in Topics \ {t} : threads[u].pc = "flush" => profiles' = profiles,
           HandCurrent(t)'
    PROVE  \A u \in Topics : HandCurrent(u)'
  <1>1. \A u \in Topics \ {t} : threads'[u] = threads[u]
    BY DEF HInv, IInv
  <1>2. ASSUME NEW u \in Topics \ {t} PROVE HandCurrent(u)'
    <2>1. HandCurrent(u) /\ threads'[u] = threads[u]
      BY <1>1 DEF HInv
    <2>2. CASE threads[u].pc # "flush"
      BY <2>1, <2>2 DEF HandCurrent
    <2>3. CASE threads[u].pc = "flush"
      BY <2>1, <2>3 DEF HandCurrent, Alert
    <2> QED BY <2>2, <2>3
  <1> QED BY <1>2

(* What a thread does that reports nothing and scores nothing. *)
Quiet == UNCHANGED <<wall, crashes, profiles, alerts>>

LEMMA QuietUnseen == ASSUME Quiet PROVE UNCHANGED Engine!vars
  BY DEF Quiet, Engine!vars, Standing

LEMMA QuietKeeps ==
    ASSUME HInv, NEW t \in Topics, NEW h, threads' = [threads EXCEPT ![t] = h], Quiet,
           h.pc # "flush", h.pc \in {"resolve", "enter"} => h.now \in 0..wall
    PROVE  \A u \in Topics : HandCurrent(u)'
  <1>1. threads'[t] = h
    BY DEF HInv, IInv
  <1>2. HandCurrent(t)'
    BY <1>1 DEF HandCurrent, Quiet
  <1> QED BY <1>2, OneHandMoves DEF Quiet

LEMMA ScoreSeen ==
    ASSUME HInv, NEW t \in Topics, Score(t)
    PROVE  (\A u \in Topics : HandCurrent(u)') /\ \E i \in Identities : Engine!Assess(i)
  <1> PICK i, m, now, old, p, h :
        /\ i = threads[t].identity /\ m = threads[t].message /\ now = threads[t].now
        /\ old = IF i \in DOMAIN profiles THEN profiles[i] ELSE NewProfile
        /\ p = Scored(Decayed(old, now), m, now)
        /\ h = IF Alerting(p, now)
               THEN [pc |-> "flush", identity |-> i, now |-> now,
                     alert |-> Alert(i, p, now), carried |-> Len(owed'[i])]
               ELSE Polling
    OBVIOUS
  <1>1. /\ profiles' = [j \in DOMAIN profiles \cup {i} |-> IF j = i THEN p ELSE profiles[j]]
        /\ threads' = [threads EXCEPT ![t] = h]
        /\ LockFree /\ threads[t].pc = "enter" /\ UNCHANGED <<wall, alerts, crashes>>
    BY Zenon DEF Score
  <1>2. /\ t \in ScoringTopics /\ m.topic = t /\ now \in 0..wall /\ i \in Identities
        /\ threads'[t] = h
    BY <1>1 DEF HInv, IInv, InHand, HandCurrent
  <1>3. DOMAIN old = Fields /\ (i \notin DOMAIN profiles => old.lastAlert = 0)
    BY <1>2 DEF HInv, IInv, ProfilesOK, NewProfile, Fields
  <1>4. p.lastAlert = old.lastAlert
    BY <1>2, <1>3, ScoredKeeps
  <1>5. i \in DOMAIN profiles' /\ profiles'[i] = p
    BY <1>1
  <1>6. HandCurrent(t)'
    <2>1. CASE Alerting(p, now)
      <3>1. h = [pc |-> "flush", identity |-> i, now |-> now,
                 alert |-> Alert(i, p, now), carried |-> Len(owed'[i])]
        BY <2>1
      <3>2. /\ h.pc = "flush" /\ h.identity = i /\ h.now = now /\ h.alert = Alert(i, p, now)
        BY SMTT(30), <3>1
      <3>3. Alert(h.identity, profiles[h.identity], h.now)' = Alert(i, p, now)
        BY <1>1, <1>5, <3>2 DEF Alert
      <3>4. Alerting(profiles[h.identity], h.now)'
        BY <1>5, <2>1, <3>2 DEF Alerting
      <3>5. now \in 0..wall'
        BY <1>1, <1>2
      <3> QED BY <1>2, <3>2, <3>3, <3>4, <3>5 DEF HandCurrent
    <2>2. CASE ~Alerting(p, now)
      <3>1. h.pc = "poll"
        BY <2>2 DEF Polling
      <3> QED BY <1>2, <3>1 DEF HandCurrent
    <2> QED BY <2>1, <2>2
  <1>7. \A u \in Topics : HandCurrent(u)'
    BY <1>1, <1>6, OneHandMoves DEF LockFree
  <1>8. ASSUME NEW j \in Identities \ {i} PROVE Standing(j)' = Standing(j)
    BY <1>1 DEF Standing
  <1>9. Standing(i)'.lastAlert = Standing(i).lastAlert
    BY <1>3, <1>4, <1>5 DEF Standing
  <1>10. Engine!Assess(i)
    BY <1>1, <1>2, <1>8, <1>9 DEF Engine!Assess
  <1> QED BY <1>2, <1>7, <1>10

(* The alert a thread waits with is the one the engine promises. *)
LEMMA AlertTells ==
    ASSUME HInv, NEW t \in Topics, threads[t].pc = "flush"
    PROVE  /\ threads[t].identity \in Identities /\ threads[t].now \in 0..wall
           /\ Engine!Due(threads[t].identity, threads[t].now)
           /\ Engine!Alert(threads[t].identity, threads[t].now) = threads[t].alert
  <1> PICK i, now, p : /\ i = threads[t].identity /\ now = threads[t].now /\ p = profiles[i]
    OBVIOUS
  <1>1. /\ i \in DOMAIN profiles /\ i \in Identities /\ now \in 0..wall
        /\ threads[t].alert = Alert(i, p, now) /\ Alerting(p, now)
    BY DEF HInv, IInv, InHand, ProfilesOK, HandCurrent
  <1>2. Standing(i).score = p.score /\ Standing(i).indicators = p.indicators
        /\ Standing(i).lastAlert = p.lastAlert
    BY <1>1 DEF Standing
  <1>3. Engine!Due(i, now)
    BY <1>1, <1>2 DEF Engine!Due, Alerting
  <1>4. Engine!Alert(i, now) = Alert(i, p, now)
    BY <1>1, <1>2 DEF Engine!Alert, Alert
  <1> QED BY <1>1, <1>3, <1>4

LEMMA ReleaseSeen ==
    ASSUME HInv, NEW t \in Topics, threads[t].pc = "flush", Release(t),
           UNCHANGED <<wall, crashes>>,
           alerts' \in {alerts, Append(alerts, threads[t].alert)}
    PROVE  /\ \A u \in Topics : HandCurrent(u)'
           /\ \E i \in Identities, now \in 0..wall : Engine!Report(i, now)
  <1> PICK i, now, p : /\ i = threads[t].identity /\ now = threads[t].now
                       /\ p = Silenced(profiles[i], now)
    OBVIOUS
  <1>1. /\ i \in DOMAIN profiles /\ DOMAIN profiles[i] = Fields
        /\ profiles' = [profiles EXCEPT ![i] = p]
        /\ threads' = [threads EXCEPT ![t] = Polling] /\ Polling.pc = "poll"
    BY DEF HInv, IInv, InHand, ProfilesOK, Release, Polling
  <1>2. p.score = 0 /\ p.indicators = <<>> /\ p.lastAlert = now
    BY <1>1 DEF Silenced, Fields
  <1>3. \A u \in Topics : HandCurrent(u)'
    <2>1. HandCurrent(t)'
      BY <1>1 DEF HandCurrent, HInv, IInv
    <2>2. \A u \in Topics \ {t} : threads[u].pc # "flush"
      BY DEF HInv, IInv, OneHolder
    <2> QED BY <1>1, <2>1, <2>2, OneHandMoves
  <1>4. Standing(i)' = [score |-> 0, indicators |-> <<>>, lastAlert |-> now]
    BY <1>1, <1>2 DEF Standing
  <1>5. ASSUME NEW j \in Identities \ {i} PROVE Standing(j)' = Standing(j)
    BY <1>1 DEF Standing
  <1>6. i \in Identities /\ now \in 0..wall /\ Engine!Due(i, now)
        /\ Engine!Alert(i, now) = threads[t].alert
    BY AlertTells
  <1>7. Engine!Goes(i, now) \/ (Engine!Due(i, now) /\ UNCHANGED alerts)
    BY <1>6 DEF Engine!Goes
  <1>8. [j \in Identities |-> Standing(j)]'
          = [[j \in Identities |-> Standing(j)]
               EXCEPT ![i] = [Engine!Clean EXCEPT !.lastAlert = now]]
    BY <1>4, <1>5, <1>6 DEF Engine!Clean
  <1>9. Engine!Report(i, now)
    BY <1>7, <1>8 DEF Engine!Report
  <1> QED BY <1>3, <1>6, <1>9

LEMMA RestartSeen ==
    ASSUME HInv, Restart
    PROVE  (\A u \in Topics : HandCurrent(u)') /\ Engine!Restart
  <1>1. DOMAIN profiles' = {} /\ \A t \in Topics : threads'[t].pc = "poll"
    BY DEF Restart, Polling
  <1>2. \/ alerts' = alerts
        \/ \E t \in Topics : threads[t].pc = "flush" /\ alerts' = Append(alerts, threads[t].alert)
    BY DEF Restart
  <1>3. (\E i \in Identities, now \in 0..wall : Engine!Goes(i, now)) \/ UNCHANGED alerts
    BY <1>2, AlertTells DEF Engine!Goes
  <1>4. \A i \in Identities : Standing(i)' = Engine!Clean
    BY <1>1 DEF Standing, Engine!Clean
  <1> QED BY <1>1, <1>3, <1>4 DEF HandCurrent, Engine!Restart, Restart

LEMMA StepSeen ==
    HInv /\ [Next]_vars => HInv' /\ [Engine!Next]_(Engine!vars)
  <1> DEFINE Seen == (\A u \in Topics : HandCurrent(u)') /\ (Engine!Next \/ UNCHANGED Engine!vars)
  <1> SUFFICES ASSUME HInv, [Next]_vars PROVE Seen
    BY StepOK DEF HInv
  <1>0. Polling.pc = "poll" /\ wall \in Nat
    BY DEF Polling, HInv, IInv
  <1>1. ASSUME NEW m \in Messages, Receive(m) PROVE Seen
    <2> PICK h : h = [pc |-> "resolve", message |-> m, now |-> wall]
      OBVIOUS
    <2>1. /\ m.topic \in Topics /\ h.pc = "resolve" /\ h.now \in 0..wall /\ Quiet
          /\ threads' = [threads EXCEPT ![m.topic] = h]
      BY <1>0, <1>1, MessagesAssumption DEF Receive, Quiet
    <2> QED BY <2>1, QuietKeeps, QuietUnseen
  <1>2. CASE MapAccount
    <2>1. /\ "banking.accounts" \in Topics /\ Quiet
          /\ threads' = [threads EXCEPT !["banking.accounts"] = Polling]
      BY <1>2 DEF MapAccount, Topics, Quiet
    <2> QED BY <1>0, <2>1, QuietKeeps, QuietUnseen
  <1>3. ASSUME NEW t \in Topics, Resolve(t) PROVE Seen
    <2> PICK h : h = IF Ignored(threads[t].message) THEN Polling
                     ELSE [pc |-> "enter", message |-> threads[t].message,
                           now |-> threads[t].now, identity |-> IdentityOf(threads[t].message)]
      OBVIOUS
    <2>1. threads' = [threads EXCEPT ![t] = h] /\ h.pc # "flush" /\ Quiet
      BY <1>0, <1>3 DEF Resolve, Quiet
    <2>2. threads[t].now \in 0..wall
      BY <1>3 DEF Resolve, HInv, HandCurrent
    <2>3. h.pc \in {"resolve", "enter"} => h.now \in 0..wall
      BY <1>0, <2>2
    <2> QED BY <2>1, <2>3, QuietKeeps, QuietUnseen
  <1>4. ASSUME NEW t \in Topics, Score(t) PROVE Seen
    BY <1>4, ScoreSeen DEF Engine!Next
  <1>5. ASSUME NEW t \in Topics, Flush(t) PROVE Seen
    BY <1>5, ReleaseSeen DEF Flush, Engine!Next
  <1>6. ASSUME NEW t \in Topics, FlushLost(t) PROVE Seen
    BY <1>6, ReleaseSeen DEF FlushLost, Engine!Next
  <1>7. ASSUME NEW t \in Topics, ProduceRaises(t) PROVE Seen
    BY <1>0, <1>7, QuietKeeps, QuietUnseen DEF ProduceRaises, Quiet
  <1>8. CASE Restart
    BY <1>8, RestartSeen DEF Engine!Next
  <1>9. CASE Tick
    <2>1. wall' = wall + 1 /\ UNCHANGED <<profiles, threads, alerts, crashes>>
      BY <1>9 DEF Tick
    <2>2. ASSUME NEW u \in Topics PROVE HandCurrent(u)'
      <3>1. HandCurrent(u)
        BY DEF HInv
      <3> QED BY <1>0, <2>1, <3>1 DEF HandCurrent, Alert
    <2>3. Engine!Tick
      BY <1>0, <2>1 DEF Engine!Tick, Standing
    <2> QED BY <2>2, <2>3 DEF Engine!Next
  <1>10. CASE UNCHANGED vars
    <2>1. Quiet /\ UNCHANGED threads
      BY <1>10 DEF vars, Quiet
    <2>2. ASSUME NEW u \in Topics PROVE HandCurrent(u)'
      <3>1. HandCurrent(u)
        BY DEF HInv
      <3> QED BY <2>1, <3>1 DEF HandCurrent, Alert, Quiet
    <2> QED BY <2>1, <2>2, QuietUnseen
  <1> QED BY <1>1, <1>2, <1>3, <1>4, <1>5, <1>6, <1>7, <1>8, <1>9, <1>10 DEF Next, Work

(* ImplementsAtomicAlerts: an alert that went out told what stood against  *)
(* its identity at that moment, however long flush() kept the thread, and  *)
(* left a clean profile, also when the producer lost it.                   *)
THEOREM AlertsAreAtomic == Spec => ImplementsAtomicAlerts
  <1>1. Init => HInv /\ Engine!Init
    <2> SUFFICES ASSUME Init PROVE (\A t \in Topics : HandCurrent(t)) /\ Engine!Init
      BY InitOK DEF HInv
    <2>1. \A t \in Topics : threads[t].pc = "poll"
      BY DEF Init, Polling
    <2>2. \A i \in Identities : Standing(i) = Engine!Clean
      BY DEF Init, Standing, Engine!Clean
    <2> QED BY <2>1, <2>2 DEF HandCurrent, Init, Engine!Init
  <1> QED BY <1>1, StepSeen, PTL DEF Spec, ImplementsAtomicAlerts, Engine!Spec
=============================================================================
