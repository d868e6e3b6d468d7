-------------------------- MODULE SimulatorProofs --------------------------
(***************************************************************************)
(* Theorems about Simulator, for any customers, scenarios, periods, faults *)
(* and bounds: what the engine says of the traffic of the simulator.       *)
(***************************************************************************)
EXTENDS Simulator, SequenceTheorems, FiniteSetTheorems, WellFoundedInduction, TLAPS

LEMMA NatOrder == IsWellFoundedOn({ss \in Nat \X Nat : ss[1] < ss[2]}, Nat)
  BY NatLessThanWellFounded, Zenon DEF OpToRel

(* A set of numbers has a least one.                                       *)
LEMMA LeastNatural ==
    ASSUME NEW T \in SUBSET Nat, T # {}
    PROVE  \E x \in T : \A y \in T : x <= y
  <1> PICK R : R = {ss \in Nat \X Nat : ss[1] < ss[2]}
    OBVIOUS
  <1>1. PICK x \in T : \A y \in T : <<y, x>> \notin R
    BY NatOrder, WFMin
  <1>2. ASSUME NEW y \in T PROVE x <= y
    <2>1. <<y, x>> \in Nat \X Nat /\ <<y, x>>[1] = y /\ <<y, x>>[2] = x
      OBVIOUS
    <2>2. ~(y < x)
      BY <1>1, <2>1
    <2> QED BY <1>2, <2>2
  <1> QED BY <1>2

-----------------------------------------------------------------------------
(* The requests of the simulator. *)

HighThreat == <<"high-threat">>

OwnDevices == {OwnDevice(c, g) : c \in Seeded, g \in Nat}
Devices    == OwnDevices \cup {Uuid(t) : t \in Nat} \cup {UnknownDevice, HighThreat}
CountryNames == Countries \cup Botnet \cup {"CN", "RU", "UA", "US"}

LoginOk(r) == r.user \in Everyone /\ r.device \in Devices /\ r.country \in CountryNames

TransferOk(r) ==
    r.user \in Customers /\ r.from \in Accounts /\ r.to \in Accounts /\ r.amount \in Int

RequestOk(r) == (r.op = "login" => LoginOk(r)) /\ (r.op = "transfer" => TransferOk(r))

(* An attack logs in from a device of its own, or one of two others.       *)
Attack(r, t) == r.op = "login" => r.device \in {Uuid(t), UnknownDevice, HighThreat}

DrawOk(draw, t) == \A r \in draw : RequestOk(r) /\ Attack(r, t)

Elements(s) == {s[k] : k \in 1..Len(s)}

Draws(s, t) ==
    /\ s \in Seq(Elements(s))
    /\ \A k \in 1..Len(s) : DrawOk(s[k], t)

LEMMA ItsElements ==
    ASSUME NEW S, NEW s \in Seq(S)
    PROVE  s \in Seq(Elements(s))
  BY DEF Elements

LEMMA TimesDraws ==
    ASSUME NEW n \in Nat, NEW draw, NEW t, DrawOk(draw, t)
    PROVE  Draws(Times(n, draw), t)
  <1> PICK s : s = Times(n, draw)
    OBVIOUS
  <1>1. s \in Seq({draw}) /\ Len(s) = n /\ \A k \in 1..n : s[k] = draw
    BY DEF Times
  <1>2. s \in Seq(Elements(s))
    BY <1>1, ItsElements
  <1> QED BY <1>1, <1>2 DEF Draws

LEMMA ConcatDraws ==
    ASSUME NEW a, NEW b, NEW t, Draws(a, t), Draws(b, t)
    PROVE  Draws(a \o b, t)
  <1> PICK S, T : S = Elements(a) /\ T = Elements(b)
    OBVIOUS
  <1>1. a \in Seq(S) /\ b \in Seq(T) /\ \A d \in S \cup T : DrawOk(d, t)
    BY DEF Draws, Elements
  <1>2. a \in Seq(S \cup T) /\ b \in Seq(S \cup T)
    BY <1>1
  <1>3. a \o b \in Seq(S \cup T)
    BY <1>2, ConcatProperties
  <1> PICK s : s = a \o b
    OBVIOUS
  <1>4. \A k \in 1..Len(s) : s[k] \in S \cup T
    BY <1>3
  <1>5. s \in Seq(Elements(s))
    BY <1>3, ItsElements
  <1> QED BY <1>1, <1>4, <1>5 DEF Draws

LEMMA OtherDraw ==
    ASSUME NEW op, op \notin {"login", "transfer"}, NEW user, NEW t
    PROVE  RequestOk(Other(op, user)) /\ Attack(Other(op, user), t)
  BY DEF RequestOk, Attack, Other

LEMMA ViewDraw ==
    ASSUME NEW employee, NEW customer, NEW t
    PROVE  RequestOk(View(employee, customer)) /\ Attack(View(employee, customer), t)
  BY DEF RequestOk, Attack, View

LEMMA LoginDraw ==
    ASSUME NEW user \in Everyone, NEW password, NEW t \in Nat,
           NEW device \in {Uuid(t), UnknownDevice, HighThreat}, NEW country \in CountryNames
    PROVE  /\ RequestOk(Login(user, password, device, country))
           /\ Attack(Login(user, password, device, country), t)
  BY DEF RequestOk, Attack, Login, LoginOk, Devices

LEMMA TransferDraw ==
    ASSUME NEW user \in Customers, NEW from \in Accounts, NEW to \in Accounts,
           NEW amount \in Int, NEW t
    PROVE  /\ RequestOk(Transfer(user, from, to, amount))
           /\ Attack(Transfer(user, from, to, amount), t)
  BY DEF RequestOk, Attack, Transfer, TransferOk

LEMMA AccountFacts ==
    /\ Everyone \subseteq Customers /\ Customers \subseteq Identities /\ Accounts \subseteq Identities
    /\ MuleOperator \in Customers /\ ExternalMule \in Customers
    /\ CentralMule \in Accounts
    /\ \A c \in Everyone : AccountOf(c) \in Accounts
    /\ \A d \in {"MULE-ERR9", "MULE-nnn", "MULE-SOCENG", "MULE-DEVICE-DROP",
                 "MULE-MALWARE-DROP", "nnnnnn"} : Drop(d) \in Accounts
  BY DEF Customers, Identities, Accounts, Drops

(* A task of the simulator.                                                *)
TaskType ==
    {task \in [scenario : AllScenarios, users : SUBSET Everyone,
               target : Everyone \cup Employees \cup {Rogue, Nobody}, next : Nat \ {0}] :
        task.target \in Targets(task.scenario, task.users)}

LEMMA TaskVictim ==
    ASSUME NEW task \in TaskType, task.scenario \in OnCustomer
    PROVE  task.target \in Everyone
  <1>1. task.users \subseteq Everyone
    BY DEF TaskType
  <1>2. task.target \in Targets(task.scenario, task.users)
    BY DEF TaskType
  <1>3. task.scenario \notin OnEmployee /\ task.scenario \notin Untargeted
    BY DEF OnCustomer, OnEmployee, Untargeted
  <1>4. task.scenario \in DOMAIN DefaultVictim => DefaultVictim[task.scenario] \in Everyone
    BY PopulationAssumption DEF Everyone
  <1>5. Targets(task.scenario, task.users)
          = IF task.scenario \in DOMAIN DefaultVictim /\ task.users = Triggered
            THEN {DefaultVictim[task.scenario]} ELSE task.users
    BY <1>3 DEF Targets
  <1> QED BY <1>1, <1>2, <1>4, <1>5

LEMMA FunctionDraws ==
    ASSUME NEW n \in Nat, NEW f, NEW t, f = [i \in 1..n |-> f[i]],
           \A i \in 1..n : DrawOk(f[i], t)
    PROVE  Draws(f, t)
  <1> PICK S : S = {f[i] : i \in 1..n}
    OBVIOUS
  <1>1. f \in [1..n -> S]
    OBVIOUS
  <1>2. f \in Seq(S) /\ Len(f) = n
    BY <1>1
  <1> QED BY <1>2, ItsElements DEF Draws

LEMMA OneDraw ==
    ASSUME NEW a, NEW t, DrawOk(a, t)
    PROVE  Draws(<<a>>, t)
  <1> PICK s : s = <<a>>
    OBVIOUS
  <1>1. s \in Seq({a}) /\ Len(s) = 1
    OBVIOUS
  <1>2. \A k \in 1..1 : s[k] \in {a}
    OBVIOUS
  <1> QED BY <1>1, <1>2, ItsElements DEF Draws

LEMMA TwoDraws ==
    ASSUME NEW a, NEW b, NEW t, DrawOk(a, t), DrawOk(b, t)
    PROVE  Draws(<<a, b>>, t)
  <1> PICK s : s = <<a, b>>
    OBVIOUS
  <1>1. s \in Seq({a, b}) /\ Len(s) = 2
    OBVIOUS
  <1>2. \A k \in 1..2 : s[k] \in {a, b}
    OBVIOUS
  <1> QED BY <1>1, <1>2, ItsElements DEF Draws

LEMMA ThreeDraws ==
    ASSUME NEW a, NEW b, NEW c, NEW t, DrawOk(a, t), DrawOk(b, t), DrawOk(c, t)
    PROVE  Draws(<<a, b, c>>, t)
  <1> PICK s : s = <<a, b, c>>
    OBVIOUS
  <1>1. s \in Seq({a, b, c}) /\ Len(s) = 3
    OBVIOUS
  <1>2. \A k \in 1..3 : s[k] \in {a, b, c}
    OBVIOUS
  <1> QED BY <1>1, <1>2, ItsElements DEF Draws

(* The draws of each script. *)
LEMMA LoginDrawOk ==
    ASSUME NEW users \in SUBSET Everyone, NEW password, NEW t \in Nat,
           NEW device \in {Uuid(t), UnknownDevice, HighThreat}, NEW country \in CountryNames
    PROVE  DrawOk({Login(c, password, device, country) : c \in users}, t)
  BY LoginDraw DEF DrawOk

LEMMA OtherDrawOk ==
    ASSUME NEW op, op \notin {"login", "transfer"}, NEW user, NEW t
    PROVE  DrawOk({Other(op, user)}, t)
  BY OtherDraw DEF DrawOk

LEMMA TransferDrawOk ==
    ASSUME NEW user \in Customers, NEW from \in Accounts, NEW to \in Accounts,
           NEW amount \in Int, NEW t
    PROVE  DrawOk({Transfer(user, from, to, amount)}, t)
  BY TransferDraw DEF DrawOk

LEMMA TakeoverDraws ==
    ASSUME NEW t \in Nat, NEW victim \in Everyone
    PROVE  Draws(AccountTakeover(t, victim), t)
  <1>1. DrawOk({Login(victim, "SecurePassword", Uuid(t), "RU")}, t)
    BY LoginDraw DEF DrawOk, CountryNames
  <1>2. DrawOk({Other("beneficiary", victim)}, t)
    BY OtherDrawOk
  <1>3. DrawOk({Transfer(victim, AccountOf(victim), Drop("MULE-ERR9"), 980)}, t)
    BY AccountFacts, TransferDrawOk
  <1> QED BY <1>1, <1>2, <1>3, ThreeDraws DEF AccountTakeover

LEMMA StuffingDraws ==
    ASSUME NEW t \in Nat
    PROVE  Draws(CredentialStuffing(t), t)
  <1>1. DrawOk({Login(c, "WrongPasswordAttempt", Uuid(t), "CN") : c \in Everyone}, t)
    BY LoginDrawOk DEF CountryNames
  <1>2. Repeat["stuffing"] \in Nat
    BY RepeatAssumption DEF Loops
  <1> QED BY <1>1, <1>2, TimesDraws DEF CredentialStuffing

LEMMA WireDraws ==
    ASSUME NEW t \in Nat, NEW victim \in Everyone
    PROVE  Draws(WireFraud(victim), t)
  <1>1. DrawOk({Other("beneficiary", victim)}, t)
    BY OtherDrawOk
  <1>2. DrawOk({Transfer(victim, AccountOf(victim), Drop("MULE-nnn"), 25000)}, t)
    BY AccountFacts, TransferDrawOk
  <1> QED BY <1>1, <1>2, TwoDraws DEF WireFraud

LEMMA ScrapingDraws ==
    ASSUME NEW t, NEW employee
    PROVE  Draws(InsiderScraping(employee), t)
  <1>1. DrawOk({View(employee, c) : c \in Everyone}, t)
    BY ViewDraw DEF DrawOk
  <1>2. Repeat["views"] \in Nat
    BY RepeatAssumption DEF Loops
  <1> QED BY <1>1, <1>2, TimesDraws DEF InsiderScraping

LEMMA AbuseDraws ==
    ASSUME NEW t \in Nat, NEW users \in SUBSET Everyone, NEW victim
    PROVE  Draws(AuthAbuse(t, users, victim), t)
  <1>1. DrawOk({Login(c, "Spring2026", Uuid(t), "UA") : c \in users}, t)
    BY LoginDrawOk DEF CountryNames
  <1>2. DrawOk({Other("mfa", victim)}, t)
    BY OtherDrawOk
  <1>3. Repeat["spray"] \in Nat /\ Repeat["mfa"] \in Nat
    BY RepeatAssumption DEF Loops
  <1> QED BY <1>1, <1>2, <1>3, TimesDraws, ConcatDraws DEF AuthAbuse

LEMMA StructuringDraws ==
    ASSUME NEW t, NEW users \in SUBSET Everyone, NEW victim \in Everyone
    PROVE  Draws(MuleAndStructuring(users, victim), t)
  <1>1. DrawOk({Transfer(c, AccountOf(c), CentralMule, 1000) : c \in users}, t)
    BY AccountFacts, TransferDraw DEF DrawOk
  <1>2. DrawOk({Transfer(MuleOperator, CentralMule, AccountOf(victim), 9500)}, t)
    BY AccountFacts, TransferDrawOk
  <1>3. Repeat["fan_in"] \in Nat /\ Repeat["smurf"] \in Nat
    BY RepeatAssumption DEF Loops
  <1> QED BY <1>1, <1>2, <1>3, TimesDraws, ConcatDraws DEF MuleAndStructuring

LEMMA SocialDraws ==
    ASSUME NEW t, NEW victim \in Everyone
    PROVE  Draws(SocialEngineering(victim), t)
  <1>1. DrawOk({Other("update-profile", victim)}, t) /\ DrawOk({Other("reset-password", victim)}, t)
    BY OtherDrawOk
  <1>2. DrawOk({Transfer(victim, AccountOf(victim), Drop("MULE-SOCENG"), 4850)}, t)
    BY AccountFacts, TransferDrawOk
  <1> QED BY <1>1, <1>2, ThreeDraws DEF SocialEngineering

LEMMA StrikeDraws ==
    ASSUME NEW t \in Nat
    PROVE  Draws(InfrastructureAttack, t)
  <1>1. DrawOk({Login(c, "BruteForceAttackStrikes", UnknownDevice, country) :
                  c \in Everyone, country \in Botnet}, t)
    BY LoginDraw DEF DrawOk, CountryNames
  <1>2. Repeat["strikes"] \in Nat
    BY RepeatAssumption DEF Loops
  <1> QED BY <1>1, <1>2, TimesDraws DEF InfrastructureAttack

LEMMA ThreatDraws ==
    ASSUME NEW t \in Nat, NEW victim \in Everyone
    PROVE  Draws(KnownDeviceThreat(victim), t)
  <1>1. DrawOk({Login(victim, "ValidOrGuessedPassword", HighThreat, "US")}, t)
    BY LoginDraw DEF DrawOk, CountryNames
  <1>2. DrawOk({Transfer(victim, AccountOf(victim), Drop("MULE-DEVICE-DROP"), 2500)}, t)
    BY AccountFacts, TransferDrawOk
  <1> QED BY <1>1, <1>2, TwoDraws DEF KnownDeviceThreat, HighThreat

LEMMA PrivilegeDraws ==
    ASSUME NEW t, NEW employee
    PROVE  Draws(PrivilegeAbuse(employee), t)
  BY ViewDraw, TwoDraws DEF PrivilegeAbuse, DrawOk

LEMMA MalwareDraws ==
    ASSUME NEW t, NEW victim \in Everyone
    PROVE  Draws(MalwareInfected(victim), t)
  <1>1. DrawOk({Other("get-account", victim)}, t)
    BY OtherDrawOk
  <1>2. DrawOk({Transfer(victim, AccountOf(victim), Drop("MULE-MALWARE-DROP"), 2999)}, t)
    BY AccountFacts, TransferDrawOk
  <1> QED BY <1>1, <1>2, TwoDraws DEF MalwareInfected

LEMMA MemberFacts ==
    /\ Len(LaunderingChain) \in Nat /\ Len(RingMembers) \in Nat
    /\ \A i \in 1..Len(LaunderingChain) : LaunderingChain[i] \in Everyone
    /\ \A i \in 1..Len(RingMembers) : RingMembers[i] \in Everyone
  BY MembersAssumption DEF Everyone

LEMMA LaunderingDraws ==
    ASSUME NEW t
    PROVE  Draws(MoneyLaundering, t)
  <1> PICK n : n = IF Len(LaunderingChain) = 0 THEN 0 ELSE Len(LaunderingChain) - 1
    OBVIOUS
  <1>1. n \in Nat /\ 1..n = 1..Len(LaunderingChain) - 1
        /\ \A i \in 1..n : i \in 1..Len(LaunderingChain) /\ i + 1 \in 1..Len(LaunderingChain)
    BY MemberFacts
  <1> PICK f : f = MoneyLaundering
    OBVIOUS
  <1>2. f = [i \in 1..n |-> f[i]]
    BY <1>1 DEF MoneyLaundering
  <1>3. ASSUME NEW i \in 1..n PROVE DrawOk(f[i], t)
    <2>1. /\ LaunderingChain[i] \in Everyone /\ LaunderingChain[i + 1] \in Everyone
      BY <1>1, MemberFacts
    <2>3. 9500 - 125 * (i - 1) \in Int
      OBVIOUS
    <2>2. f[i] = {Transfer(LaunderingChain[i], AccountOf(LaunderingChain[i]),
                           AccountOf(LaunderingChain[i + 1]), 9500 - 125 * (i - 1))}
      BY <1>1 DEF MoneyLaundering
    <2> QED BY <2>1, <2>2, <2>3, AccountFacts, TransferDrawOk
  <1> QED BY <1>1, <1>2, <1>3, FunctionDraws

LEMMA RingDraws ==
    ASSUME NEW t \in Nat
    PROVE  Draws(FraudRing(t), t)
  <1> PICK n : n = Len(RingMembers)
    OBVIOUS
  <1> PICK f, g :
        /\ f = [i \in 1..n |-> {Login(RingMembers[i], "StandardSecure", Uuid(t), "US")}]
        /\ g = [i \in 1..n |-> {Transfer(RingMembers[i], AccountOf(RingMembers[i]),
                                         AccountOf(RingMembers[(i % n) + 1]), 1200)}]
    OBVIOUS
  <1>1. n \in Nat /\ \A i \in 1..n : RingMembers[i] \in Everyone
    BY MemberFacts
  <1>2. Draws(f, t)
    <2>1. ASSUME NEW i \in 1..n PROVE DrawOk(f[i], t)
      BY <1>1, LoginDraw DEF DrawOk, CountryNames
    <2> QED BY <1>1, <2>1, FunctionDraws
  <1>3. Draws(g, t)
    <2>1. ASSUME NEW i \in 1..n PROVE DrawOk(g[i], t)
      <3>1. (i % n) + 1 \in 1..n
        BY <1>1
      <3>2. RingMembers[i] \in Everyone /\ RingMembers[(i % n) + 1] \in Everyone
        BY <1>1, <3>1
      <3> QED BY <3>2, AccountFacts, TransferDrawOk
    <2> QED BY <1>1, <2>1, FunctionDraws
  <1>4. FraudRing(t) = f \o g
    BY DEF FraudRing
  <1> QED BY <1>2, <1>3, <1>4, ConcatDraws

LEMMA ProbeDraws ==
    ASSUME NEW t
    PROVE  Draws(ApiEnumeration, t) /\ Draws(Ransomware, t)
  <1>1. DrawOk({Other("get-account", Nobody)}, t) /\ DrawOk({Other("delete-session", Nobody)}, t)
    BY OtherDrawOk
  <1>2. Repeat["probes"] \in Nat /\ Repeat["deletes"] \in Nat
    BY RepeatAssumption DEF Loops
  <1> QED BY <1>1, <1>2, TimesDraws DEF ApiEnumeration, Ransomware

LEMMA ScriptDraws ==
    ASSUME NEW task \in TaskType, NEW t \in Nat
    PROVE  Draws(Script(task.scenario, t, task.users, task.target), t)
  <1> PICK s, users, target : s = task.scenario /\ users = task.users /\ target = task.target
    OBVIOUS
  <1>1. /\ users \in SUBSET Everyone /\ s \in AllScenarios
        /\ s \in OnCustomer => target \in Everyone
    BY TaskVictim DEF TaskType
  <1>2. ASSUME s \in OnCustomer PROVE Draws(Script(s, t, users, target), t)
    <2>1. CASE s = "account_takeover"
      BY <1>1, <1>2, <2>1, TakeoverDraws DEF Script
    <2>2. CASE s = "wire_fraud"
      BY <1>1, <1>2, <2>2, WireDraws DEF Script
    <2>3. CASE s = "auth_abuse"
      BY <1>1, <1>2, <2>3, AbuseDraws DEF Script
    <2>4. CASE s = "aml_smurfing"
      BY <1>1, <1>2, <2>4, StructuringDraws DEF Script
    <2>5. CASE s = "social_engineering"
      BY <1>1, <1>2, <2>5, SocialDraws DEF Script
    <2>6. CASE s = "known_threat_device"
      BY <1>1, <1>2, <2>6, ThreatDraws DEF Script
    <2>7. CASE s = "malware_hijack"
      BY <1>1, <1>2, <2>7, MalwareDraws DEF Script
    <2> QED BY <1>2, <2>1, <2>2, <2>3, <2>4, <2>5, <2>6, <2>7 DEF OnCustomer
  <1>3. ASSUME s \in OnEmployee \cup Untargeted PROVE Draws(Script(s, t, users, target), t)
    <2>1. CASE s = "insider_scraping"
      BY <2>1, ScrapingDraws DEF Script
    <2>2. CASE s = "privilege_abuse"
      BY <2>2, PrivilegeDraws DEF Script
    <2>3. CASE s = "credential_stuffing"
      BY <2>3, StuffingDraws DEF Script
    <2>4. CASE s = "api_enumeration"
      BY <2>4, ProbeDraws DEF Script
    <2>5. CASE s = "ddos_flood"
      BY <2>5, StrikeDraws DEF Script
    <2>6. CASE s = "money_laundering"
      BY <2>6, LaunderingDraws DEF Script
    <2>7. CASE s = "fraud_ring"
      BY <2>7, RingDraws DEF Script
    <2>8. CASE s = "ransomware"
      BY <2>8, ProbeDraws DEF Script
    <2> QED BY <1>3, <2>1, <2>2, <2>3, <2>4, <2>5, <2>6, <2>7, <2>8 DEF OnEmployee, Untargeted
  <1> QED BY <1>1, <1>2, <1>3 DEF AllScenarios

-----------------------------------------------------------------------------
(* Types. *)

LoginRows == [at : Nat \ {0}, table : {"login_events"}, user : Everyone, device : Devices,
              country : CountryNames, success : BOOLEAN]
PaymentRows == [at : Nat \ {0}, table : {"transactions"}, from : Accounts, amount : Int]
AccountEntries == [table : {"accounts"}, account : Accounts, customer : Customers]

ScoredLogins == [table : {"login_events"}, at : Nat \ {0}, raised : SUBSET IndicatorNames,
                 device : Devices, country : CountryNames, success : BOOLEAN]
ScoredPayments == [table : {"transactions"}, at : Nat \ {0}, raised : SUBSET IndicatorNames,
                   from : Accounts]

ActorType == [loggedIn : BOOLEAN, generation : Nat, country : Countries]

(* A behaviour memory, whatever its values. *)
IsMemory(m) ==
    m = [lastDevice |-> m.lastDevice, lastCountry |-> m.lastCountry,
         lastLoginTs |-> m.lastLoginTs, failedLogins |-> m.failedLogins,
         transactions |-> m.transactions, apiRequests |-> m.apiRequests, ring |-> m.ring]

TasksOk == tasks \in Seq(TaskType)
ActorsOk == actor \in [Seeded -> ActorType] /\ now \in Nat \ {0} /\ faults \in Nat
OwnersOk == /\ owner \in [Accounts -> Customers \cup {None}]
            /\ accountMap \in [Accounts -> Customers \cup {None}]
TopicsOk ==
    /\ topics = [t \in Topics |-> topics[t]]
    /\ topics["login_events"] \in Seq(LoginRows)
    /\ topics["transactions"] \in Seq(PaymentRows)
    /\ topics["accounts"] \in Seq(AccountEntries)
EngineOk ==
    /\ memory = [i \in Identities |-> memory[i]]
    /\ \A i \in Identities : IsMemory(memory[i])
    /\ scored \in [Identities -> Seq(ScoredLogins \cup ScoredPayments)]

TypeOK == TasksOk /\ ActorsOk /\ OwnersOk /\ TopicsOk /\ EngineOk

LEMMA TaskTargets ==
    ASSUME NEW s \in AllScenarios, NEW users \in {Scheduled, Triggered},
           NEW target \in Targets(s, users)
    PROVE  NewTask(s, users, target) \in TaskType
  <1>1. users \in SUBSET Everyone
    BY DEF Scheduled, Triggered, Everyone
  <1>2. target \in Everyone \cup Employees \cup {Rogue, Nobody}
    <2>1. CASE s \in OnEmployee
      <3>1. s \notin OnCustomer /\ s \notin Untargeted /\ s \notin DOMAIN DefaultVictim
        BY <2>1, PopulationAssumption DEF OnCustomer, OnEmployee, Untargeted
      <3>2. Targets(s, users) = IF users = Triggered THEN {Rogue} ELSE Employees
        BY <2>1, <3>1 DEF Targets
      <3> QED BY <3>2
    <2>2. CASE s \in OnCustomer
      <3>1. s \notin OnEmployee /\ s \notin Untargeted
        BY <2>2 DEF OnCustomer, OnEmployee, Untargeted
      <3>2. s \in DOMAIN DefaultVictim => DefaultVictim[s] \in Everyone
        BY PopulationAssumption DEF Everyone
      <3>3. Targets(s, users)
              = IF s \in DOMAIN DefaultVictim /\ users = Triggered THEN {DefaultVictim[s]} ELSE users
        BY <2>2, <3>1 DEF Targets
      <3>4. CASE s \in DOMAIN DefaultVictim /\ users = Triggered
        BY <3>2, <3>3, <3>4
      <3>5. CASE ~(s \in DOMAIN DefaultVictim /\ users = Triggered)
        BY <1>1, <3>3, <3>5
      <3> QED BY <3>4, <3>5
    <2>3. CASE s \in Untargeted
      <3>1. s \notin OnEmployee /\ s \notin OnCustomer /\ s \notin DOMAIN DefaultVictim
        BY <2>3, PopulationAssumption DEF OnCustomer, OnEmployee, Untargeted
      <3>2. Targets(s, users) = {Nobody}
        BY <2>3, <3>1 DEF Targets
      <3> QED BY <3>2
    <2> QED BY <2>1, <2>2, <2>3 DEF AllScenarios
  <1> QED BY <1>1, <1>2 DEF NewTask, TaskType

LEMMA ThreeMore ==
    ASSUME NEW S, IsFiniteSet(S), NEW a, NEW b, NEW c
    PROVE  IsFiniteSet(S \cup {a, b, c})
  <1>1. IsFiniteSet(S \cup {a})
    BY FS_AddElement
  <1>2. IsFiniteSet((S \cup {a}) \cup {b})
    BY <1>1, FS_AddElement
  <1>3. IsFiniteSet(((S \cup {a}) \cup {b}) \cup {c})
    BY <1>2, FS_AddElement
  <1>4. ((S \cup {a}) \cup {b}) \cup {c} = S \cup {a, b, c}
    OBVIOUS
  <1> QED BY <1>3, <1>4

LEMMA ScenariosFinite == IsFiniteSet(AllScenarios)
  <1>1. IsFiniteSet({} \cup {"account_takeover", "wire_fraud", "auth_abuse"})
    BY FS_EmptySet, ThreeMore
  <1>2. IsFiniteSet(({} \cup {"account_takeover", "wire_fraud", "auth_abuse"})
                      \cup {"aml_smurfing", "social_engineering", "known_threat_device"})
    BY <1>1, ThreeMore
  <1>3. IsFiniteSet(OnCustomer)
    <2>1. OnCustomer = (({} \cup {"account_takeover", "wire_fraud", "auth_abuse"})
                         \cup {"aml_smurfing", "social_engineering", "known_threat_device"})
                       \cup {"malware_hijack", "malware_hijack", "malware_hijack"}
      BY DEF OnCustomer
    <2> QED BY <1>2, <2>1, ThreeMore
  <1>4. IsFiniteSet(OnCustomer \cup OnEmployee)
    <2>1. OnCustomer \cup OnEmployee
            = OnCustomer \cup {"insider_scraping", "privilege_abuse", "privilege_abuse"}
      BY DEF OnEmployee
    <2> QED BY <1>3, <2>1, ThreeMore
  <1>5. IsFiniteSet((OnCustomer \cup OnEmployee)
                      \cup {"credential_stuffing", "api_enumeration", "ddos_flood"})
    BY <1>4, ThreeMore
  <1>6. AllScenarios = ((OnCustomer \cup OnEmployee)
                          \cup {"credential_stuffing", "api_enumeration", "ddos_flood"})
                       \cup {"money_laundering", "fraud_ring", "ransomware"}
    BY DEF AllScenarios, Untargeted
  <1> QED BY <1>5, <1>6, ThreeMore

LEMMA OrderOf ==
    ASSUME NEW S, NEW g \in [1..Cardinality(S) -> S],
           \A a, b \in DOMAIN g : g[a] = g[b] => a = b
    PROVE  SE!SetToSeq(S) \in [1..Cardinality(S) -> S]
  <1>1. SE!Cardinality(S) = Cardinality(S)
    BY DEF SE!Cardinality, Cardinality
  <1>2. SE!SetToSeq(S) = CHOOSE f \in [1..SE!Cardinality(S) -> S] :
                           \A a, b \in DOMAIN f : f[a] = f[b] => a = b
    BY Zenon DEF SE!SetToSeq, SE!IsInjective
  <1> QED BY <1>1, <1>2

(* The scenarios that are due, in some order. *)
LEMMA LaunchOrder ==
    ASSUME NEW due \in SUBSET AllScenarios
    PROVE  SE!SetToSeq(due) \in Seq(due)
  <1> PICK n : n = Cardinality(due)
    OBVIOUS
  <1>1. IsFiniteSet(due) /\ n \in Nat
    BY ScenariosFinite, FS_Subset, FS_CardinalityType
  <1>2. PICK g : g \in Bijection(1..n, due)
    <2>1. PICK m \in Nat : ExistsBijection(1..m, due)
      BY <1>1, FS_NatBijection
    <2>2. m = n
      BY <2>1, FS_CountingElements
    <2> QED BY <2>1, <2>2 DEF ExistsBijection
  <1>3. g \in [1..n -> due] /\ \A a, b \in 1..n : g[a] = g[b] => a = b
    BY <1>2 DEF Bijection, Injection, Surjection, IsInjective
  <1>4. SE!SetToSeq(due) \in [1..n -> due]
    BY <1>3, OrderOf
  <1> QED BY <1>1, <1>4

LEMMA LaunchesTyped ==
    ASSUME NEW due \in SUBSET AllScenarios, NEW launched \in Launches(due)
    PROVE  launched \in Seq(TaskType)
  <1> PICK order : order = SE!SetToSeq(due)
    OBVIOUS
  <1>1. order \in Seq(due)
    BY LaunchOrder
  <1>2. PICK target \in {f \in [due -> Seeded \cup Employees \cup {Nobody}] :
                           \A s \in due : f[s] \in Targets(s, Scheduled)} :
          launched = [i \in 1..Len(order) |-> NewTask(order[i], Scheduled, target[order[i]])]
    BY DEF Launches
  <1>3. \A i \in 1..Len(order) : NewTask(order[i], Scheduled, target[order[i]]) \in TaskType
    BY <1>1, <1>2, TaskTargets
  <1>4. Len(order) \in Nat
    BY <1>1
  <1> QED BY <1>2, <1>3, <1>4

-----------------------------------------------------------------------------
(* What a request leaves behind. *)

LEMMA RemoveAtOf ==
    ASSUME NEW S, NEW s \in Seq(S), NEW k \in 1..Len(s)
    PROVE  SE!RemoveAt(s, k) = SubSeq(s, 1, k - 1) \o SubSeq(s, k + 1, Len(s))
  BY DEF SE!RemoveAt

LEMMA RemoveAtFacts ==
    ASSUME NEW S, NEW s \in Seq(S), NEW k \in 1..Len(s)
    PROVE  /\ SE!RemoveAt(s, k) \in Seq(S) /\ Len(SE!RemoveAt(s, k)) = Len(s) - 1
           /\ \A j \in 1..Len(s) - 1 : SE!RemoveAt(s, k)[j] = s[IF j < k THEN j ELSE j + 1]
  <1> DEFINE a == SubSeq(s, 1, k - 1)
             b == SubSeq(s, k + 1, Len(s))
  <1>1. a \in Seq(S) /\ Len(a) = k - 1 /\ \A j \in 1..k - 1 : a[j] = s[j]
    OBVIOUS
  <1>2. b \in Seq(S) /\ Len(b) = Len(s) - k /\ \A j \in 1..Len(s) - k : b[j] = s[j + k]
    OBVIOUS
  <1>3. SE!RemoveAt(s, k) = a \o b
    BY RemoveAtOf
  <1> HIDE DEF a, b
  <1>4. Len(s) \in Nat /\ k \in Nat /\ k <= Len(s) /\ k >= 1
    OBVIOUS
  <1> PICK n, la, lb : n = Len(s) /\ la = Len(a) /\ lb = Len(b)
    OBVIOUS
  <1>5. n \in Nat /\ la = k - 1 /\ lb = n - k /\ la \in Nat /\ lb \in Nat
    BY <1>1, <1>2, <1>4
  <1>6. a \o b \in Seq(S) /\ Len(a \o b) = la + lb
    <2>1. a \o b \in Seq(S) /\ Len(a \o b) = Len(a) + Len(b)
      BY <1>1, <1>2, ConcatProperties
    <2> QED BY <2>1
  <1>7. \A j \in 1..la : (a \o b)[j] = a[j]
    BY <1>1, <1>2
  <1>8. \A j \in la + 1..la + lb : (a \o b)[j] = b[j - la]
    BY <1>1, <1>2
  <1>9. ASSUME NEW j \in 1..n - 1 PROVE (a \o b)[j] = s[IF j < k THEN j ELSE j + 1]
    <2>1. CASE j < k
      BY <1>1, <1>5, <1>7, <2>1
    <2>2. CASE ~(j < k)
      <3>1. j \in la + 1..la + lb /\ j - la \in 1..n - k /\ j - la + k = j + 1
        BY <1>5, <2>2
      <3> QED BY <1>2, <1>8, <2>2, <3>1
    <2> QED BY <2>1, <2>2
  <1>10. Len(a \o b) = n - 1
    BY <1>5, <1>6
  <1>11. \A j \in 1..n - 1 : (a \o b)[j] = s[IF j < k THEN j ELSE j + 1]
    BY <1>9
  <1> QED BY Zenon, <1>3, <1>6, <1>10, <1>11

LEMMA LoginRowTyped ==
    ASSUME ActorsOk, NEW r, LoginOk(r)
    PROVE  LoginRow(r) \in LoginRows
  BY DEF ActorsOk, LoginOk, LoginRow, LoginRows, Accepted

LEMMA TransferRowTyped ==
    ASSUME ActorsOk, NEW r, TransferOk(r)
    PROVE  TransferRow(r) \in PaymentRows
  BY DEF ActorsOk, TransferOk, TransferRow, PaymentRows

LEMMA OpenedTyped ==
    ASSUME OwnersOk, NEW r, TransferOk(r)
    PROVE  /\ Opened(r) \in [Accounts -> Customers \cup {None}]
           /\ Opened(r)[r.from] \in Customers /\ Opened(r)[r.to] \in Customers
  <1>1. ExternalMule \in Customers
    BY AccountFacts
  <1> QED BY <1>1 DEF OwnersOk, TransferOk, Opened

LEMMA AccountRowsTyped ==
    ASSUME OwnersOk, NEW r, TransferOk(r)
    PROVE  AccountRows(r) \in Seq(AccountEntries)
  <1>1. r.from \in Accounts /\ r.to \in Accounts
    BY DEF TransferOk
  <1>2. ASSUME NEW a \in {r.from, r.to} PROVE AccountRow(r, a) \in Seq(AccountEntries)
    <2>1. [table |-> "accounts", account |-> a, customer |-> Opened(r)[a]] \in AccountEntries
      BY <1>1, OpenedTyped DEF AccountEntries
    <2> QED BY <2>1 DEF AccountRow
  <1>3. AccountRow(r, r.from) \in Seq(AccountEntries) /\ AccountRow(r, r.to) \in Seq(AccountEntries)
    BY <1>2
  <1> QED BY <1>3, ConcatProperties DEF AccountRows

(* What a request adds to the topics and the accounts.                     *)
LoginAdded(r) ==
    /\ r.op = "login"
    /\ topics' = [topics EXCEPT !["login_events"] = Append(@, LoginRow(r))]
    /\ owner' = owner
TransferAdded(r) ==
    /\ r.op = "transfer"
    /\ topics' = [topics EXCEPT !["transactions"] = Append(@, TransferRow(r)),
                                !["accounts"] = @ \o AccountRows(r)]
    /\ owner' = Opened(r)
NothingAdded == topics' = topics /\ owner' = owner

Sent(r) == LoginAdded(r) \/ TransferAdded(r) \/ NothingAdded

LEMMA SendEffect ==
    ASSUME TypeOK, NEW r, NEW outcome, Send(r, outcome)
    PROVE  Sent(r) /\ faults' \in Nat /\ faults' >= faults
  <1>1. faults' \in Nat /\ faults' >= faults
    BY DEF TypeOK, ActorsOk, Send
  <1>2. Sent(r)
    BY DEF Send, Handle, Sent, LoginAdded, TransferAdded, NothingAdded, api
  <1> QED BY <1>1, <1>2

LEMMA SentTyped ==
    ASSUME TypeOK, NEW r, RequestOk(r), Sent(r), accountMap' = accountMap
    PROVE  OwnersOk' /\ TopicsOk'
  <1>1. CASE NothingAdded
    BY <1>1 DEF NothingAdded, TypeOK, OwnersOk, TopicsOk
  <1>2. CASE LoginAdded(r)
    <2>1. LoginRow(r) \in LoginRows
      BY <1>2, LoginRowTyped DEF LoginAdded, RequestOk, TypeOK
    <2> PICK row : row = LoginRow(r)
      OBVIOUS
    <2>2. /\ topics'["login_events"] = Append(topics["login_events"], row)
          /\ topics'["transactions"] = topics["transactions"]
          /\ topics'["accounts"] = topics["accounts"]
          /\ topics' = [t \in Topics |-> topics'[t]]
      BY <1>2 DEF LoginAdded, TypeOK, TopicsOk, Topics
    <2>3. topics'["login_events"] \in Seq(LoginRows)
      BY <2>1, <2>2 DEF TypeOK, TopicsOk
    <2> QED BY <1>2, <2>2, <2>3 DEF LoginAdded, TypeOK, OwnersOk, TopicsOk, Topics
  <1>3. CASE TransferAdded(r)
    <2>1. TransferRow(r) \in PaymentRows /\ AccountRows(r) \in Seq(AccountEntries)
      BY <1>3, TransferRowTyped, AccountRowsTyped DEF TransferAdded, RequestOk, TypeOK
    <2> PICK row, entries : row = TransferRow(r) /\ entries = AccountRows(r)
      OBVIOUS
    <2>2. /\ topics'["login_events"] = topics["login_events"]
          /\ topics'["transactions"] = Append(topics["transactions"], row)
          /\ topics'["accounts"] = topics["accounts"] \o entries
          /\ topics' = [t \in Topics |-> topics'[t]]
      BY <1>3 DEF TransferAdded, TypeOK, TopicsOk, Topics
    <2>3. topics'["transactions"] \in Seq(PaymentRows)
      BY <2>1, <2>2 DEF TypeOK, TopicsOk
    <2>4. topics'["accounts"] \in Seq(AccountEntries)
      BY <2>1, <2>2, ConcatProperties DEF TypeOK, TopicsOk
    <2>5. owner' \in [Accounts -> Customers \cup {None}]
      BY <1>3, OpenedTyped DEF TransferAdded, RequestOk, TypeOK
    <2> QED BY <2>2, <2>3, <2>4, <2>5 DEF TypeOK, OwnersOk, TopicsOk, Topics
  <1> QED BY <1>1, <1>2, <1>3 DEF Sent

-----------------------------------------------------------------------------
(* What the engine makes of a row. *)

LEMMA DevicesNamed == None \notin Devices /\ None \notin CountryNames
  <1>1. ASSUME NEW d \in Devices PROVE d # None
    <2>1. CASE d \in OwnDevices
      <3>1. PICK c \in Seeded, g \in Nat : d = OwnDevice(c, g)
        BY <2>1 DEF OwnDevices
      <3>2. OwnDevice(c, g) \in {"dv"} \X Seeded \X Nat
        BY DEF OwnDevice
      <3> QED BY <3>1, <3>2, NamesAssumption
    <2>2. CASE d \in {Uuid(t) : t \in Nat}
      <3>1. PICK t \in Nat : d = Uuid(t)
        BY <2>2
      <3>2. Uuid(t) \in {"uuid"} \X Nat
        BY DEF Uuid
      <3> QED BY <3>1, <3>2, NamesAssumption
    <2>3. CASE d \in {UnknownDevice, HighThreat}
      BY <2>3, NamesAssumption DEF HighThreat
    <2> QED BY <2>1, <2>2, <2>3 DEF Devices
  <1> QED BY <1>1, NamesAssumption DEF CountryNames

(* One event of an identity, from memory to memory.                        *)
LoginJudged(m, e, m2) ==
    /\ e.raised = LoginIndicators(e, e.at, m)
    /\ m2.lastDevice = e.device /\ m2.lastCountry = e.country /\ m2.lastLoginTs = e.at
    /\ m2.failedLogins = FailedLoginsAfter(e, e.at, m)
    /\ m2.transactions = m.transactions

PaymentJudged(m, e, m2) ==
    /\ "VELOCITY_VIOLATION" \in e.raised <=> Len(m2.transactions) >= VelocityThreshold
    /\ m2.transactions = RecordAndPrune(m.transactions, e.at, VelocityWindow)
    /\ m2.lastDevice = m.lastDevice /\ m2.lastCountry = m.lastCountry
    /\ m2.lastLoginTs = m.lastLoginTs /\ m2.failedLogins = m.failedLogins

Judged(m, e, m2) ==
    /\ e.table = "login_events" => LoginJudged(m, e, m2)
    /\ e.table = "transactions" => PaymentJudged(m, e, m2)

LEMMA LoginScored ==
    ASSUME NEW row \in LoginRows, NEW m, IsMemory(m), NEW m2, NEW e,
           m2 = MemoryAfter(Seen(row), row.at, m),
           e = Remembered(row, DeriveIndicators(Seen(row), row.at, m))
    PROVE  /\ e \in ScoredLogins /\ IsMemory(m2) /\ Judged(m, e, m2)
           /\ e.device = row.device /\ e.country = row.country /\ e.success = row.success
  <1> PICK seen : seen = Seen(row)
    OBVIOUS
  <1>1. /\ row.table = "login_events" /\ row.at \in Nat \ {0} /\ row.device \in Devices
        /\ row.country \in CountryNames /\ row.success \in BOOLEAN
    BY DEF LoginRows
  <1>2. /\ seen.table = "login_events" /\ seen.indicator = None /\ seen.device = row.device
        /\ seen.country = row.country /\ seen.success = row.success
    BY <1>1 DEF Seen
  <1> PICK raised, fails : /\ raised = LoginIndicators(seen, row.at, m)
                           /\ fails = FailedLoginsAfter(seen, row.at, m)
    OBVIOUS
  <1>3. DeriveIndicators(seen, row.at, m) = raised
    BY <1>2 DEF DeriveIndicators
  <1>4. e = [table |-> row.table, at |-> row.at, raised |-> raised, device |-> row.device,
             country |-> row.country, success |-> row.success]
    BY <1>1, <1>3 DEF Remembered
  <1>5. raised \subseteq IndicatorNames
    BY DEF LoginIndicators
  <1>6. e \in ScoredLogins
    BY <1>1, <1>4, <1>5 DEF ScoredLogins
  <1>7. Observe(seen, row.at, m) = ObserveLogin(seen, row.at, m)
    BY <1>2 DEF Observe
  <1>8. /\ m2.lastDevice = Known(m.lastDevice, row.device)
        /\ m2.lastCountry = Known(m.lastCountry, row.country)
        /\ m2.lastLoginTs = row.at /\ m2.failedLogins = fails
        /\ m2.transactions = m.transactions /\ IsMemory(m2)
    BY <1>2, <1>3, <1>7 DEF MemoryAfter, ObserveLogin, IsMemory
  <1>9. raised = LoginIndicators(e, e.at, m) /\ fails = FailedLoginsAfter(e, e.at, m)
    BY <1>2, <1>4 DEF LoginIndicators, FailedLoginsAfter, CountryChanged
  <1>10. Known(m.lastDevice, row.device) = row.device /\ Known(m.lastCountry, row.country) = row.country
    BY <1>1, DevicesNamed DEF Known
  <1> QED BY <1>1, <1>4, <1>6, <1>8, <1>9, <1>10 DEF Judged, LoginJudged

LEMMA PaymentScored ==
    ASSUME NEW row \in PaymentRows, NEW m, IsMemory(m), NEW m2, NEW e,
           m2 = MemoryAfter(Seen(row), row.at, m),
           e = Remembered(row, DeriveIndicators(Seen(row), row.at, m))
    PROVE  /\ e \in ScoredPayments /\ IsMemory(m2) /\ Judged(m, e, m2) /\ e.from = row.from
  <1> PICK seen : seen = Seen(row)
    OBVIOUS
  <1>1. row.table = "transactions" /\ row.at \in Nat \ {0} /\ row.from \in Accounts
    BY DEF PaymentRows
  <1>2. seen.table = "transactions" /\ seen.indicator = None
    BY <1>1 DEF Seen
  <1> PICK raised, times : /\ raised = TransactionIndicators(seen, row.at, m)
                           /\ times = RecordAndPrune(m.transactions, row.at, VelocityWindow)
    OBVIOUS
  <1>3. DeriveIndicators(seen, row.at, m) = raised
    BY <1>2 DEF DeriveIndicators
  <1>4. e = [table |-> row.table, at |-> row.at, raised |-> raised, from |-> row.from]
    BY <1>1, <1>3 DEF Remembered
  <1>5. raised \subseteq IndicatorNames
    BY DEF TransactionIndicators
  <1>6. e \in ScoredPayments
    BY <1>1, <1>4, <1>5 DEF ScoredPayments
  <1>7. Observe(seen, row.at, m)
          = [m EXCEPT !.transactions = RecordAndPrune(@, row.at, VelocityWindow)]
    BY <1>2 DEF Observe
  <1>8. /\ m2.lastDevice = m.lastDevice /\ m2.lastCountry = m.lastCountry
        /\ m2.lastLoginTs = m.lastLoginTs /\ m2.failedLogins = m.failedLogins
        /\ m2.transactions = times /\ IsMemory(m2)
    BY <1>2, <1>3, <1>7 DEF MemoryAfter, IsMemory
  <1>9. "VELOCITY_VIOLATION" \in raised <=> Len(times) >= VelocityThreshold
    BY DEF TransactionIndicators, IndicatorNames
  <1> QED BY <1>1, <1>4, <1>6, <1>8, <1>9 DEF Judged, PaymentJudged

(* The memory of an identity is what its scored events make of it, one     *)
(* after the other.                                                        *)
IsReplay(ms, s) ==
    /\ ms[0] = NoMemory
    /\ \A n \in 1..Len(s) : Judged(ms[n - 1], s[n], ms[n])

LEMMA ReplayExtends ==
    ASSUME NEW S, NEW s \in Seq(S), NEW e \in S, NEW ms, IsReplay(ms, s), NEW m, ms[Len(s)] = m,
           NEW m2, Judged(m, e, m2)
    PROVE  \E ms2 : /\ IsReplay(ms2, Append(s, e)) /\ ms2[Len(s) + 1] = m2
                    /\ \A n \in 0..Len(s) : ms2[n] = ms[n]
  <1> PICK n, s2 : n = Len(s) /\ s2 = Append(s, e)
    OBVIOUS
  <1> PICK ms2 : ms2 = [k \in 0..n + 1 |-> IF k = n + 1 THEN m2 ELSE ms[k]]
    OBVIOUS
  <1>1. n \in Nat /\ Len(s2) = n + 1 /\ s2[n + 1] = e /\ \A k \in 1..n : s2[k] = s[k]
    OBVIOUS
  <1>2. ms2[n + 1] = m2 /\ \A k \in 0..n : ms2[k] = ms[k]
    BY <1>1
  <1>3. ms2[0] = NoMemory
    BY <1>1, <1>2 DEF IsReplay
  <1>4. ASSUME NEW k \in 1..n + 1 PROVE Judged(ms2[k - 1], s2[k], ms2[k])
    <2>1. CASE k = n + 1
      <3>1. k - 1 = n /\ n \in 0..n
        BY <1>1, <2>1
      <3> QED BY <1>1, <1>2, <2>1, <3>1
    <2>2. CASE k # n + 1
      <3>1. k \in 1..n /\ k - 1 \in 0..n /\ k \in 0..n
        BY <1>1, <2>2
      <3> QED BY <1>1, <1>2, <3>1 DEF IsReplay
    <2> QED BY <2>1, <2>2
  <1>5. IsReplay(ms2, s2)
    BY <1>1, <1>3, <1>4 DEF IsReplay
  <1> QED BY <1>2, <1>5

(* A row leaves its topic and becomes an event of an identity.             *)
Moved(topic, k, row, i, e, m2) ==
    /\ topic \in {"login_events", "transactions"}
    /\ k \in 1..Len(topics[topic]) /\ row = topics[topic][k] /\ i \in Identities
    /\ memory' = [memory EXCEPT ![i] = m2] /\ scored' = [scored EXCEPT ![i] = Append(@, e)]
    /\ topics' = [topics EXCEPT ![topic] = SE!RemoveAt(@, k)]
    /\ IsMemory(m2) /\ Judged(memory[i], e, m2)
    /\ topic = "login_events" =>
         /\ row \in LoginRows /\ i = row.user /\ e \in ScoredLogins
         /\ e.device = row.device /\ e.country = row.country /\ e.success = row.success
    /\ topic = "transactions" =>
         /\ row \in PaymentRows /\ e \in ScoredPayments /\ e.from = row.from
         /\ i = IF accountMap[row.from] # None THEN accountMap[row.from] ELSE row.from

LEMMA ScoreMoves ==
    ASSUME TypeOK, NEW topic \in {"login_events", "transactions"}, NEW k \in 1..MaxInFlight,
           Score(topic, k)
    PROVE  \E row, i, e, m2 : Moved(topic, k, row, i, e, m2)
  <1> PICK row, i, m, seen : /\ row = topics[topic][k] /\ i = Enriched(row)
                             /\ m = memory[i] /\ seen = Seen(row)
    OBVIOUS
  <1> PICK m2, e : /\ m2 = MemoryAfter(seen, row.at, m)
                   /\ e = Remembered(row, DeriveIndicators(seen, row.at, m))
    OBVIOUS
  <1>1. k \in 1..Len(topics[topic])
    <2>1. MaxInFlight \in Nat /\ k <= Len(topics[topic])
      BY BoundsAssumption DEF Score
    <2>2. Len(topics[topic]) \in Nat
      BY DEF TypeOK, TopicsOk
    <2> QED BY <2>1, <2>2
  <1>2. /\ memory' = [memory EXCEPT ![i] = m2] /\ scored' = [scored EXCEPT ![i] = Append(@, e)]
        /\ topics' = [topics EXCEPT ![topic] = SE!RemoveAt(@, k)]
    BY DEF Score
  <1>3. CASE topic = "login_events"
    <2>1. row \in LoginRows
      BY SMTT(30), <1>1, <1>3 DEF TypeOK, TopicsOk
    <2>2. i = row.user /\ i \in Everyone
      BY <2>1 DEF Enriched, LoginRows
    <2>3. i \in Identities
      BY <2>2, AccountFacts
    <2>4. IsMemory(m)
      BY <2>3 DEF TypeOK, EngineOk
    <2>5. /\ e \in ScoredLogins /\ IsMemory(m2) /\ Judged(m, e, m2)
          /\ e.device = row.device /\ e.country = row.country /\ e.success = row.success
      BY <2>1, <2>4, LoginScored
    <2>6. Moved(topic, k, row, i, e, m2)
      BY <1>1, <1>2, <1>3, <2>1, <2>2, <2>3, <2>5 DEF Moved
    <2> QED BY <2>6
  <1>4. CASE topic = "transactions"
    <2>1. row \in PaymentRows
      BY <1>1, <1>4 DEF TypeOK, TopicsOk
    <2>2. row.from \in Accounts /\ row.table = "transactions"
      BY <2>1 DEF PaymentRows
    <2>3. i = IF accountMap[row.from] # None THEN accountMap[row.from] ELSE row.from
      BY <2>2 DEF Enriched
    <2>4. i \in Identities
      BY <2>2, <2>3, AccountFacts DEF TypeOK, OwnersOk
    <2>5. IsMemory(m)
      BY <2>4 DEF TypeOK, EngineOk
    <2>6. e \in ScoredPayments /\ IsMemory(m2) /\ Judged(m, e, m2) /\ e.from = row.from
      BY <2>1, <2>5, PaymentScored
    <2>7. Moved(topic, k, row, i, e, m2)
      BY <1>1, <1>2, <1>4, <2>1, <2>3, <2>4, <2>6 DEF Moved
    <2> QED BY <2>7
  <1> QED BY <1>3, <1>4

LEMMA MovedTyped ==
    ASSUME TypeOK, NEW topic, NEW k, NEW row, NEW i, NEW e, NEW m2, Moved(topic, k, row, i, e, m2)
    PROVE  TopicsOk' /\ EngineOk'
  <1>1. topic \in {"login_events", "transactions"} /\ k \in 1..Len(topics[topic])
    BY DEF Moved
  <1>2. /\ topics' = [t \in Topics |-> topics'[t]]
        /\ topics'[topic] = SE!RemoveAt(topics[topic], k)
        /\ \A t \in Topics \ {topic} : topics'[t] = topics[t]
    BY <1>1 DEF Moved, TypeOK, TopicsOk, Topics
  <1>3. topics'["login_events"] \in Seq(LoginRows)
    <2>1. topics["login_events"] \in Seq(LoginRows) /\ "login_events" \in Topics
      BY DEF TypeOK, TopicsOk, Topics
    <2>2. CASE topic = "login_events"
      BY <1>1, <1>2, <2>1, <2>2, RemoveAtFacts
    <2>3. CASE topic # "login_events"
      BY <1>2, <2>1, <2>3
    <2> QED BY <2>2, <2>3
  <1>4. topics'["transactions"] \in Seq(PaymentRows)
    <2>1. topics["transactions"] \in Seq(PaymentRows) /\ "transactions" \in Topics
      BY DEF TypeOK, TopicsOk, Topics
    <2>2. CASE topic = "transactions"
      BY <1>1, <1>2, <2>1, <2>2, RemoveAtFacts
    <2>3. CASE topic # "transactions"
      BY <1>2, <2>1, <2>3
    <2> QED BY <2>2, <2>3
  <1>5. topics'["accounts"] \in Seq(AccountEntries)
    BY <1>1, <1>2 DEF TypeOK, TopicsOk, Topics
  <1>6. e \in ScoredLogins \cup ScoredPayments /\ i \in Identities
    BY <1>1 DEF Moved
  <1>7. scored' \in [Identities -> Seq(ScoredLogins \cup ScoredPayments)]
    <2>1. Append(scored[i], e) \in Seq(ScoredLogins \cup ScoredPayments)
      BY <1>6 DEF TypeOK, EngineOk
    <2> QED BY <1>6, <2>1 DEF Moved, TypeOK, EngineOk
  <1>8. memory' = [j \in Identities |-> memory'[j]] /\ \A j \in Identities : IsMemory(memory'[j])
    BY DEF Moved, TypeOK, EngineOk
  <1> QED BY <1>2, <1>3, <1>4, <1>5, <1>7, <1>8 DEF TopicsOk, EngineOk

(* The tasks launched and the script of a request. *)
LEMMA TaskRequest ==
    ASSUME TypeOK, NEW t \in DOMAIN tasks, ~Ended(t), NEW r \in ScriptOf(t)[tasks[t].next]
    PROVE  RequestOk(r) /\ Attack(r, t) /\ t \in Nat
  <1>1. t \in Nat /\ tasks[t] \in TaskType
    BY DEF TypeOK, TasksOk
  <1> PICK script, n : script = ScriptOf(t) /\ n = tasks[t].next
    OBVIOUS
  <1>2. Draws(script, t)
    BY <1>1, ScriptDraws DEF ScriptOf
  <1>3. Len(script) \in Nat
    BY <1>2 DEF Draws
  <1>4. n \in Nat \ {0} /\ ~(n > Len(script))
    BY <1>1 DEF Ended, TaskType
  <1>5. n \in 1..Len(script)
    BY <1>3, <1>4
  <1> QED BY <1>1, <1>2, <1>5 DEF Draws, DrawOk

LEMMA CustomerRequest ==
    ASSUME TypeOK, NEW c \in Seeded
    PROVE  /\ RequestOk(CustomerLogin(c, actor[c].generation, actor[c].country))
           /\ \A r \in CustomerTurn(c) : RequestOk(r) /\ r.op # "login"
  <1>1. actor[c].generation \in Nat /\ actor[c].country \in Countries /\ c \in Everyone
    BY DEF TypeOK, ActorsOk, ActorType, Everyone
  <1>2. OwnDevice(c, actor[c].generation) \in Devices /\ actor[c].country \in CountryNames
    BY <1>1 DEF Devices, OwnDevices, CountryNames
  <1>3. RequestOk(CustomerLogin(c, actor[c].generation, actor[c].country))
    BY <1>1, <1>2 DEF CustomerLogin, Login, RequestOk, LoginOk
  <1>4. RequestOk(Other("balance", c)) /\ RequestOk(Other("beneficiary", c))
    BY OtherDraw
  <1>5. RequestOk(Transfer(c, AccountOf(c), Drop("nnnnnn"), 8500))
    BY <1>1, AccountFacts, TransferDraw
  <1> QED BY <1>3, <1>4, <1>5 DEF CustomerTurn, Other, Transfer

LEMMA EmployeeRequest ==
    ASSUME NEW e, NEW r \in EmployeeTurn(e)
    PROVE  RequestOk(r) /\ r.op \notin {"login", "transfer"}
  BY DEF EmployeeTurn, View, RequestOk

-----------------------------------------------------------------------------
(* The types, and the memories. *)

Replays(s, m) == \E ms : IsReplay(ms, s) /\ ms[Len(s)] = m

Replayed == \A i \in Identities : Replays(scored[i], memory[i])

IInv == TypeOK /\ Replayed

LEMMA ReplaysExtended ==
    ASSUME NEW S, NEW s \in Seq(S), NEW e \in S, NEW m, Replays(s, m), NEW m2, Judged(m, e, m2)
    PROVE  Replays(Append(s, e), m2)
  <1>1. PICK ms : IsReplay(ms, s) /\ ms[Len(s)] = m
    BY DEF Replays
  <1>2. \E ms2 : /\ IsReplay(ms2, Append(s, e)) /\ ms2[Len(s) + 1] = m2
                 /\ \A n \in 0..Len(s) : ms2[n] = ms[n]
    BY <1>1, ReplayExtends
  <1>3. Len(Append(s, e)) = Len(s) + 1
    OBVIOUS
  <1> QED BY <1>2, <1>3 DEF Replays

LEMMA MovedReplayed ==
    ASSUME IInv, NEW topic, NEW k, NEW row, NEW i, NEW e, NEW m2, Moved(topic, k, row, i, e, m2)
    PROVE  Replayed'
  <1> PICK S : S = ScoredLogins \cup ScoredPayments
    OBVIOUS
  <1>1. i \in Identities /\ e \in S /\ Judged(memory[i], e, m2)
    BY DEF Moved
  <1>2. /\ memory'[i] = m2 /\ scored'[i] = Append(scored[i], e)
        /\ \A j \in Identities \ {i} : memory'[j] = memory[j] /\ scored'[j] = scored[j]
    BY <1>1 DEF Moved, IInv, TypeOK, EngineOk
  <1>3. Replays(scored'[i], m2)
    <2>1. scored[i] \in Seq(S) /\ Replays(scored[i], memory[i])
      BY <1>1 DEF IInv, TypeOK, EngineOk, Replayed
    <2> QED BY <1>1, <1>2, <2>1, ReplaysExtended
  <1>4. \A j \in Identities \ {i} : Replays(scored'[j], memory'[j])
    BY <1>2 DEF IInv, Replayed
  <1> QED BY <1>2, <1>3, <1>4 DEF Replayed

LEMMA InitTyped == Init => IInv
  <1> SUFFICES ASSUME Init PROVE IInv
    OBVIOUS
  <1>1. TasksOk
    <2>1. <<>> \in Seq(TaskType)
      OBVIOUS
    <2> QED BY <2>1 DEF Init, TasksOk
  <1>2. ActorsOk
    <2>1. ASSUME NEW a \in [loggedIn : {FALSE}, generation : {0}, country : Countries]
          PROVE  a \in ActorType
      <3>1. a = [loggedIn |-> a.loggedIn, generation |-> a.generation, country |-> a.country]
        OBVIOUS
      <3>2. a.loggedIn \in BOOLEAN
        OBVIOUS
      <3>3. a.generation \in Nat /\ a.country \in Countries
        OBVIOUS
      <3> QED BY <3>1, <3>2, <3>3 DEF ActorType
    <2>2. actor \in [Seeded -> ActorType]
      BY <2>1 DEF Init
    <2> QED BY <2>2 DEF Init, ActorsOk
  <1>3. OwnersOk
    <2>1. ASSUME NEW a \in Accounts PROVE owner[a] \in Customers \cup {None}
      <3>1. CASE \E c \in Seeded : a = AccountOf(c)
        <4>1. (CHOOSE c \in Seeded : a = AccountOf(c)) \in Seeded
          BY <3>1
        <4>2. owner[a] = CHOOSE c \in Seeded : a = AccountOf(c)
          BY <3>1 DEF Init
        <4> QED BY <4>1, <4>2 DEF Customers, Everyone
      <3>2. CASE ~\E c \in Seeded : a = AccountOf(c)
        <4>1. owner[a] = ExternalMule \/ owner[a] = None
          BY <3>2 DEF Init
        <4> QED BY <4>1, AccountFacts
      <3> QED BY <3>1, <3>2
    <2>2. DOMAIN owner = Accounts /\ owner = [a \in Accounts |-> owner[a]] /\ accountMap = owner
      BY DEF Init
    <2>3. owner \in [Accounts -> Customers \cup {None}]
      BY <2>1, <2>2
    <2> QED BY <2>2, <2>3 DEF OwnersOk
  <1>4. TopicsOk
    <2>1. <<>> \in Seq(LoginRows) /\ <<>> \in Seq(PaymentRows) /\ <<>> \in Seq(AccountEntries)
      OBVIOUS
    <2> QED BY <2>1 DEF Init, TopicsOk, Topics
  <1>5. EngineOk
    <2>1. <<>> \in Seq(ScoredLogins \cup ScoredPayments)
      OBVIOUS
    <2>2. IsMemory(NoMemory)
      BY DEF IsMemory, NoMemory
    <2> QED BY <2>1, <2>2 DEF Init, EngineOk
  <1>6. Replayed
    <2>1. ASSUME NEW i \in Identities PROVE Replays(scored[i], memory[i])
      <3> PICK ms : ms = [n \in 0..0 |-> NoMemory]
        OBVIOUS
      <3>1. scored[i] = <<>> /\ memory[i] = NoMemory /\ ms[0] = NoMemory
        BY DEF Init
      <3>2. IsReplay(ms, <<>>) /\ ms[Len(<<>>)] = NoMemory
        BY <3>1 DEF IsReplay
      <3> QED BY <3>1, <3>2 DEF Replays
    <2> QED BY <2>1 DEF Replayed
  <1> QED BY <1>1, <1>2, <1>3, <1>4, <1>5, <1>6 DEF IInv, TypeOK

Quiet == UNCHANGED engine
LEMMA EngineQuiet == IInv /\ Quiet => EngineOk' /\ Replayed'
  BY DEF IInv, Quiet, engine, TypeOK, EngineOk, Replayed

LEMMA SentKeeps ==
    ASSUME IInv, NEW r, NEW outcome, RequestOk(r), Send(r, outcome), Quiet, TasksOk', now' = now,
           actor' \in [Seeded -> ActorType]
    PROVE  IInv'
  <1>1. Sent(r) /\ faults' \in Nat
    BY SendEffect DEF IInv
  <1>2. OwnersOk' /\ TopicsOk'
    BY <1>1, SentTyped DEF IInv, Quiet, engine
  <1>3. ActorsOk'
    BY <1>1 DEF IInv, TypeOK, ActorsOk
  <1> QED BY <1>2, <1>3, EngineQuiet DEF IInv, TypeOK

LEMMA TickKeeps == IInv /\ Tick => IInv'
  <1> SUFFICES ASSUME IInv, Tick PROVE IInv'
    OBVIOUS
  <1>1. PICK launched \in Launches({s \in AllScenarios : Due(s)}) : tasks' = tasks \o launched
    BY DEF Tick
  <1>2. launched \in Seq(TaskType) /\ tasks \in Seq(TaskType)
    BY <1>1, LaunchesTyped DEF IInv, TypeOK, TasksOk
  <1>3. TasksOk'
    BY <1>1, <1>2, ConcatProperties DEF TasksOk
  <1>4. ActorsOk'
    BY DEF Tick, IInv, TypeOK, ActorsOk, counters
  <1>5. OwnersOk' /\ TopicsOk'
    BY DEF Tick, IInv, TypeOK, OwnersOk, TopicsOk, api, engine
  <1>6. Quiet
    BY DEF Tick, Quiet
  <1> QED BY <1>3, <1>4, <1>5, <1>6, EngineQuiet DEF IInv, TypeOK

LEMMA TriggerKeeps == ASSUME IInv, NEW s \in AllScenarios, Trigger(s) PROVE IInv'
  <1>1. PICK target \in Targets(s, Triggered) :
          tasks' = Append(tasks, NewTask(s, Triggered, target))
    BY DEF Trigger
  <1>2. NewTask(s, Triggered, target) \in TaskType
    BY <1>1, TaskTargets
  <1>3. TasksOk'
    BY <1>1, <1>2 DEF IInv, TypeOK, TasksOk
  <1>4. ActorsOk'
    BY DEF Trigger, IInv, TypeOK, ActorsOk
  <1>5. OwnersOk' /\ TopicsOk'
    BY DEF Trigger, IInv, TypeOK, OwnersOk, TopicsOk, api, engine
  <1>6. Quiet
    BY DEF Trigger, Quiet
  <1> QED BY <1>3, <1>4, <1>5, <1>6, EngineQuiet DEF IInv, TypeOK

LEMMA NextPositive ==
    ASSUME TypeOK, NEW t \in DOMAIN tasks, NEW outcome, ~Ended(t)
    PROVE  NextAfter(t, outcome) \in Nat \ {0} /\ NextAfter(t, outcome) > 1
  <1>1. t \in Nat /\ tasks[t] \in TaskType
    BY DEF TypeOK, TasksOk
  <1>2. Len(ScriptOf(t)) \in Nat
    BY <1>1, ScriptDraws DEF ScriptOf, Draws
  <1>3. tasks[t].next \in Nat \ {0}
    BY <1>1 DEF TaskType
  <1> QED BY <1>2, <1>3 DEF NextAfter, Ended

LEMMA TaskMoves ==
    ASSUME NEW task \in TaskType, NEW n \in Nat \ {0}
    PROVE  [task EXCEPT !.next = n] \in TaskType
  BY DEF TaskType

LEMMA TaskStepKeeps == ASSUME IInv, NEW t \in DOMAIN tasks, TaskStep(t) PROVE IInv'
  <1>1. PICK r \in ScriptOf(t)[tasks[t].next], outcome \in Outcomes :
          /\ Send(r, outcome)
          /\ tasks' = [tasks EXCEPT ![t].next = NextAfter(t, outcome)]
    BY DEF TaskStep
  <1>2. RequestOk(r)
    BY <1>1, TaskRequest DEF TaskStep, IInv
  <1>3. TasksOk'
    <2>1. NextAfter(t, outcome) \in Nat \ {0}
      BY NextPositive DEF TaskStep, IInv
    <2>2. tasks[t] \in TaskType /\ tasks \in Seq(TaskType)
      BY DEF IInv, TypeOK, TasksOk
    <2>3. [tasks[t] EXCEPT !.next = NextAfter(t, outcome)] \in TaskType
      BY <2>1, <2>2, TaskMoves
    <2> QED BY <1>1, <2>2, <2>3 DEF TasksOk
  <1> QED BY <1>1, <1>2, <1>3, SentKeeps DEF TaskStep, Quiet, IInv, TypeOK, ActorsOk

LEMMA CustomerKeeps == ASSUME IInv, NEW c \in Active, CustomerActs(c) PROVE IInv'
  <1>1. c \in Seeded
    BY ActiveAssumption
  <1>2. TasksOk' /\ now' = now /\ Quiet
    BY DEF CustomerActs, IInv, TypeOK, TasksOk, Quiet
  <1>3. PICK r, outcome : /\ RequestOk(r) /\ Send(r, outcome)
                          /\ actor' \in [Seeded -> ActorType]
    <2>1. PICK outcome \in Outcomes :
            \/ /\ \E r \in CustomerTurn(c) : Send(r, outcome)
               /\ UNCHANGED actor
            \/ /\ Send(CustomerLogin(c, actor[c].generation, actor[c].country), outcome)
               /\ actor' = [actor EXCEPT ![c].loggedIn = outcome = "answered"]
      BY DEF CustomerActs
    <2>2. CASE (\E r \in CustomerTurn(c) : Send(r, outcome)) /\ UNCHANGED actor
      BY <1>1, <2>2, CustomerRequest DEF IInv, TypeOK, ActorsOk
    <2>3. CASE /\ Send(CustomerLogin(c, actor[c].generation, actor[c].country), outcome)
               /\ actor' = [actor EXCEPT ![c].loggedIn = outcome = "answered"]
      <3>1. [actor[c] EXCEPT !.loggedIn = outcome = "answered"] \in ActorType
        BY <1>1 DEF IInv, TypeOK, ActorsOk, ActorType
      <3>2. actor' \in [Seeded -> ActorType]
        BY <1>1, <2>3, <3>1 DEF IInv, TypeOK, ActorsOk
      <3> QED BY <1>1, <2>3, <3>2, CustomerRequest DEF IInv
    <2> QED BY <2>1, <2>2, <2>3
  <1> QED BY <1>2, <1>3, SentKeeps

LEMMA EmployeeKeeps == ASSUME IInv, NEW e \in Employees, EmployeeActs(e) PROVE IInv'
  <1>1. PICK r \in EmployeeTurn(e), outcome \in Outcomes : Send(r, outcome)
    BY DEF EmployeeActs
  <1>2. RequestOk(r)
    BY EmployeeRequest
  <1>3. TasksOk' /\ now' = now /\ Quiet /\ actor' \in [Seeded -> ActorType]
    BY DEF EmployeeActs, simulator, IInv, TypeOK, TasksOk, ActorsOk, Quiet
  <1> QED BY <1>1, <1>2, <1>3, SentKeeps

LEMMA RestartKeeps == IInv /\ Restart => IInv'
  <1> SUFFICES ASSUME IInv, Restart PROVE IInv'
    OBVIOUS
  <1>1. TasksOk'
    <2>1. ASSUME NEW t \in DOMAIN tasks PROVE tasks'[t] \in TaskType
      <3>1. t \in Nat /\ tasks[t] \in TaskType
        BY DEF IInv, TypeOK, TasksOk
      <3>2. Len(ScriptOf(t)) + 1 \in Nat \ {0}
        BY <3>1, ScriptDraws DEF ScriptOf, Draws
      <3> PICK n : n = Len(ScriptOf(t)) + 1
        OBVIOUS
      <3>3. [tasks[t] EXCEPT !.next = n] \in TaskType
        BY <3>1, <3>2, TaskMoves
      <3>4. tasks'[t] = IF tasks[t].users = Triggered THEN tasks[t] ELSE [tasks[t] EXCEPT !.next = n]
        BY DEF Restart
      <3> QED BY <3>1, <3>3, <3>4
    <2>2. tasks' = [t \in DOMAIN tasks |-> tasks'[t]] /\ DOMAIN tasks = 1..Len(tasks) /\ Len(tasks) \in Nat
      BY DEF Restart, IInv, TypeOK, TasksOk
    <2>3. tasks' \in [1..Len(tasks) -> TaskType]
      BY <2>1, <2>2
    <2> QED BY <2>2, <2>3 DEF TasksOk
  <1>2. ActorsOk'
    <2>1. faults \in Nat /\ faults + 1 \in Nat /\ faults' = faults + 1 /\ now' = now /\ now \in Nat \ {0}
      BY DEF Restart, IInv, TypeOK, ActorsOk
    <2>2. [loggedIn : {FALSE}, generation : {faults + 1}, country : Countries] \subseteq ActorType
      BY <2>1 DEF ActorType
    <2>3. actor' \in [Seeded -> ActorType]
      BY <2>2 DEF Restart
    <2> QED BY <2>1, <2>3 DEF ActorsOk
  <1>3. OwnersOk' /\ TopicsOk'
    BY DEF Restart, IInv, TypeOK, OwnersOk, TopicsOk, api, engine
  <1>4. Quiet
    BY DEF Restart, Quiet
  <1> QED BY <1>1, <1>2, <1>3, <1>4, EngineQuiet DEF IInv, TypeOK

LEMMA ReadAccountKeeps == IInv /\ ReadAccount => IInv'
  <1> SUFFICES ASSUME IInv, ReadAccount PROVE IInv'
    OBVIOUS
  <1> PICK log, row : log = topics["accounts"] /\ row = Head(log)
    OBVIOUS
  <1>1. log \in Seq(AccountEntries) /\ log # <<>> /\ row \in AccountEntries
    BY DEF ReadAccount, IInv, TypeOK, TopicsOk
  <1>2. accountMap' \in [Accounts -> Customers \cup {None}]
    BY <1>1 DEF ReadAccount, AccountEntries, IInv, TypeOK, OwnersOk
  <1>3. OwnersOk'
    BY <1>2 DEF ReadAccount, IInv, TypeOK, OwnersOk
  <1>4. TopicsOk'
    <2>1. Tail(log) \in Seq(AccountEntries)
      BY <1>1
    <2>2. topics' = [topics EXCEPT !["accounts"] = Tail(log)]
      BY DEF ReadAccount
    <2> QED BY <2>1, <2>2 DEF IInv, TypeOK, TopicsOk, Topics
  <1>5. EngineOk' /\ Replayed'
    BY DEF ReadAccount, IInv, TypeOK, EngineOk, Replayed
  <1>6. TasksOk' /\ ActorsOk'
    BY DEF ReadAccount, simulator, counters, IInv, TypeOK, TasksOk, ActorsOk
  <1> QED BY <1>3, <1>4, <1>5, <1>6 DEF IInv, TypeOK

LEMMA ScoreKeeps ==
    ASSUME IInv, NEW topic \in {"login_events", "transactions"}, NEW k \in 1..MaxInFlight,
           Score(topic, k)
    PROVE  IInv'
  <1>1. PICK row, i, e, m2 : Moved(topic, k, row, i, e, m2)
    BY ScoreMoves DEF IInv
  <1>2. TopicsOk' /\ EngineOk' /\ Replayed'
    BY <1>1, MovedTyped, MovedReplayed DEF IInv
  <1>3. TasksOk' /\ ActorsOk' /\ OwnersOk'
    BY DEF Score, simulator, counters, IInv, TypeOK, TasksOk, ActorsOk, OwnersOk
  <1> QED BY <1>2, <1>3 DEF IInv, TypeOK

LEMMA StepTyped == IInv /\ [Next]_vars => IInv'
  <1> SUFFICES ASSUME IInv, [Next]_vars PROVE IInv'
    OBVIOUS
  <1>1. CASE Next
    BY <1>1, TickKeeps, TriggerKeeps, TaskStepKeeps, CustomerKeeps, EmployeeKeeps, RestartKeeps,
       ReadAccountKeeps, ScoreKeeps DEF Next
  <1>2. CASE UNCHANGED vars
    BY <1>2 DEF vars, simulator, api, engine, counters, IInv, TypeOK, TasksOk, ActorsOk, OwnersOk,
                TopicsOk, EngineOk, Replayed
  <1> QED BY <1>1, <1>2

-----------------------------------------------------------------------------
(* The logins of a user, on their way to the engine or scored.             *)

Arrivals == topics["login_events"]
LoginAt(s, n) == n \in 1..Len(s) /\ s[n].table = "login_events"

IsLogin(e, d, country, success) == e.device = d /\ e.country = country /\ e.success = success

SomeLogin(u, d, country, success) ==
    \/ \E k \in 1..Len(Arrivals) :
         Arrivals[k].user = u /\ IsLogin(Arrivals[k], d, country, success)
    \/ \E n : LoginAt(scored[u], n) /\ IsLogin(scored[u][n], d, country, success)

(* The login a request may add.                                            *)
NewLogin(r, u, d, country, success) ==
    /\ r.op = "login" /\ r.user = u /\ r.device = d /\ r.country = country
    /\ success = Accepted(r)

LEMMA LoginTopic ==
    ASSUME TypeOK
    PROVE  /\ Arrivals \in Seq(LoginRows) /\ Len(Arrivals) \in Nat
           /\ \A k \in 1..Len(Arrivals) : /\ Arrivals[k].user \in Everyone
                                          /\ Arrivals[k].device \in Devices
                                          /\ Arrivals[k] \in LoginRows
  <1>1. Arrivals \in Seq(LoginRows)
    BY DEF TypeOK, TopicsOk, Arrivals
  <1>2. \A k \in 1..Len(Arrivals) : Arrivals[k] \in LoginRows
    BY <1>1
  <1> QED BY <1>1, <1>2 DEF LoginRows

LEMMA ScoredFacts ==
    ASSUME TypeOK, NEW u \in Identities
    PROVE  /\ scored[u] \in Seq(ScoredLogins \cup ScoredPayments) /\ Len(scored[u]) \in Nat
           /\ \A n : LoginAt(scored[u], n) => scored[u][n] \in ScoredLogins
           /\ \A n : n \in In(u, "login_events") <=> LoginAt(scored[u], n)
  <1>1. scored[u] \in Seq(ScoredLogins \cup ScoredPayments)
    BY DEF TypeOK, EngineOk
  <1>2. \A n \in 1..Len(scored[u]) : scored[u][n] \in ScoredLogins \cup ScoredPayments
    BY <1>1
  <1>3. \A e \in ScoredPayments : e.table # "login_events"
    BY DEF ScoredPayments
  <1> QED BY <1>1, <1>2, <1>3 DEF In, LoginAt

(* What a request, or the engine, does to the logins there are.            *)
LEMMA SentLogins ==
    ASSUME TypeOK, NEW r, Sent(r), scored' = scored
    PROVE  \A u, d, country, success :
             SomeLogin(u, d, country, success)'
               => SomeLogin(u, d, country, success) \/ NewLogin(r, u, d, country, success)
  <1>1. CASE LoginAdded(r)
    <2> PICK log, log2, row : log = Arrivals /\ log2 = Arrivals' /\ row = LoginRow(r)
      OBVIOUS
    <2>1. log \in Seq(LoginRows) /\ log2 = Append(log, row)
      BY <1>1, LoginTopic DEF LoginAdded, TypeOK, TopicsOk, Topics, Arrivals
    <2>2. Len(log2) = Len(log) + 1 /\ log2[Len(log) + 1] = row /\ \A k \in 1..Len(log) : log2[k] = log[k]
      BY <2>1
    <2>3. \A k \in 1..Len(log2) : k \in 1..Len(log) \/ k = Len(log) + 1
      BY <2>1, <2>2
    <2>4. /\ row.user = r.user /\ row.device = r.device /\ row.country = r.country
          /\ row.success = Accepted(r) /\ r.op = "login"
      BY <1>1 DEF LoginAdded, LoginRow
    <2> QED BY <2>2, <2>3, <2>4 DEF SomeLogin, NewLogin, IsLogin
  <1>2. CASE ~LoginAdded(r)
    <2>1. Arrivals' = Arrivals
      BY <1>2 DEF Sent, TransferAdded, NothingAdded, TypeOK, TopicsOk, Topics, Arrivals
    <2> QED BY <2>1 DEF SomeLogin
  <1> QED BY <1>1, <1>2

LEMMA SameLogins ==
    ASSUME Arrivals' = Arrivals, scored' = scored
    PROVE  \A u, d, country, success :
             SomeLogin(u, d, country, success)' => SomeLogin(u, d, country, success)
  BY DEF SomeLogin

(* How a row's way from topic to identity changes both. *)
Shift(k, j) == IF j < k THEN j ELSE j + 1

LEMMA MovedLogin ==
    ASSUME TypeOK, NEW k, NEW row, NEW i, NEW e, NEW m2,
           Moved("login_events", k, row, i, e, m2)
    PROVE  /\ k \in 1..Len(Arrivals) /\ i \in Identities
           /\ Arrivals[k].user = i /\ e.table = "login_events"
           /\ \A d, country, success :
                IsLogin(e, d, country, success) <=> IsLogin(Arrivals[k], d, country, success)
           /\ e.device = Arrivals[k].device
           /\ Len(Arrivals') = Len(Arrivals) - 1
           /\ \A j \in 1..Len(Arrivals') :
                Arrivals'[j] = Arrivals[Shift(k, j)] /\ Shift(k, j) \in 1..Len(Arrivals) \ {k}
           /\ scored'[i] = Append(scored[i], e)
           /\ \A u \in Identities \ {i} : scored'[u] = scored[u]
  <1>1. k \in 1..Len(Arrivals) /\ i \in Identities /\ row = Arrivals[k]
    BY DEF Moved, Arrivals
  <1>2. Arrivals[k].user = i /\ e.device = row.device /\ e.country = row.country
        /\ e.success = row.success /\ e \in ScoredLogins
    BY <1>1 DEF Moved
  <1>3. Arrivals' = SE!RemoveAt(Arrivals, k)
    BY DEF Moved, Arrivals, TypeOK, TopicsOk, Topics
  <1> PICK log, log2, n : log = Arrivals /\ log2 = Arrivals' /\ n = Len(Arrivals)
    OBVIOUS
  <1>4. log \in Seq(LoginRows) /\ n \in Nat /\ k \in 1..n
    BY <1>1, LoginTopic
  <1>5. Len(log2) = n - 1 /\ \A j \in 1..n - 1 : log2[j] = log[Shift(k, j)]
    BY <1>3, <1>4, RemoveAtFacts DEF Shift
  <1>6. \A j \in 1..n - 1 : Shift(k, j) \in 1..n \ {k}
    BY <1>4 DEF Shift
  <1>7. scored'[i] = Append(scored[i], e) /\ \A u \in Identities \ {i} : scored'[u] = scored[u]
    BY <1>1 DEF Moved, TypeOK, EngineOk
  <1>8. e.table = "login_events"
    BY <1>2 DEF ScoredLogins
  <1> QED BY <1>1, <1>2, <1>5, <1>6, <1>7, <1>8 DEF IsLogin

LEMMA MovedPayment ==
    ASSUME TypeOK, NEW k, NEW row, NEW i, NEW e, NEW m2,
           Moved("transactions", k, row, i, e, m2)
    PROVE  /\ Arrivals' = Arrivals /\ i \in Identities /\ e.table # "login_events"
           /\ scored'[i] = Append(scored[i], e)
           /\ \A u \in Identities \ {i} : scored'[u] = scored[u]
  <1>1. i \in Identities /\ e \in ScoredPayments
    BY DEF Moved
  <1>2. Arrivals' = Arrivals
    BY DEF Moved, Arrivals, TypeOK, TopicsOk, Topics
  <1>3. scored'[i] = Append(scored[i], e) /\ \A u \in Identities \ {i} : scored'[u] = scored[u]
    BY <1>1 DEF Moved, TypeOK, EngineOk
  <1> QED BY <1>1, <1>2, <1>3 DEF ScoredPayments

Extends(s2, s, e) ==
    /\ \A n : LoginAt(s2, n) <=> (LoginAt(s, n) \/ (n = Len(s) + 1 /\ e.table = "login_events"))
    /\ \A n : LoginAt(s, n) => s2[n] = s[n]
    /\ s2[Len(s) + 1] = e

LEMMA AppendedLogins ==
    ASSUME NEW S, NEW s \in Seq(S), NEW e \in S
    PROVE  Extends(Append(s, e), s, e)
  <1> PICK m, s2 : m = Len(s) /\ s2 = Append(s, e)
    OBVIOUS
  <1>1. m \in Nat /\ Len(s2) = m + 1 /\ s2[m + 1] = e /\ \A n \in 1..m : s2[n] = s[n]
    OBVIOUS
  <1>2. \A n : n \in 1..m + 1 <=> n \in 1..m \/ n = m + 1
    BY <1>1
  <1>3. Extends(s2, s, e)
    BY <1>1, <1>2 DEF LoginAt, Extends
  <1> QED BY <1>3

LEMMA MovedLogins ==
    ASSUME TypeOK, NEW topic, NEW k, NEW row, NEW i, NEW e, NEW m2, Moved(topic, k, row, i, e, m2)
    PROVE  \A u \in Identities : \A d, country, success :
             SomeLogin(u, d, country, success)' => SomeLogin(u, d, country, success)
  <1>1. topic \in {"login_events", "transactions"} /\ i \in Identities
        /\ e \in ScoredLogins \cup ScoredPayments
    BY DEF Moved
  <1> SUFFICES ASSUME NEW u \in Identities, NEW d, NEW country, NEW success,
                      SomeLogin(u, d, country, success)'
               PROVE  SomeLogin(u, d, country, success)
    OBVIOUS
  <1> PICK s, s2 : s = scored[u] /\ s2 = scored'[u]
    OBVIOUS
  <1>2. s \in Seq(ScoredLogins \cup ScoredPayments)
    BY ScoredFacts
  <1>3. CASE topic = "login_events"
    <2>1. CASE \E j \in 1..Len(Arrivals') :
                 Arrivals'[j].user = u /\ IsLogin(Arrivals'[j], d, country, success)
      BY <1>3, <2>1, MovedLogin DEF SomeLogin
    <2>2. CASE \E n : LoginAt(s2, n) /\ IsLogin(s2[n], d, country, success)
      <3>1. CASE u # i
        BY <1>3, <2>2, <3>1, MovedLogin DEF SomeLogin
      <3>2. CASE u = i
        <4>1. s2 = Append(s, e) /\ Arrivals[k].user = u /\ k \in 1..Len(Arrivals)
              /\ (IsLogin(e, d, country, success) => IsLogin(Arrivals[k], d, country, success))
          BY <1>3, <3>2, MovedLogin
        <4>2. PICK n : LoginAt(s2, n) /\ IsLogin(s2[n], d, country, success)
          BY <2>2
        <4>4. Extends(s2, s, e)
          BY <1>1, <1>2, <4>1, AppendedLogins
        <4>3. (LoginAt(s, n) /\ s2[n] = s[n]) \/ s2[n] = e
          BY <4>2, <4>4 DEF Extends
        <4> QED BY <4>1, <4>2, <4>3 DEF SomeLogin
      <3> QED BY <3>1, <3>2
    <2> QED BY <2>1, <2>2 DEF SomeLogin
  <1>4. CASE topic = "transactions"
    <2>1. Arrivals' = Arrivals /\ e.table # "login_events"
          /\ (IF u = i THEN s2 = Append(s, e) ELSE s2 = s)
      BY <1>4, MovedPayment
    <2>3. u = i => Extends(s2, s, e)
      BY <1>1, <1>2, <2>1, AppendedLogins
    <2>2. \A n : LoginAt(s2, n) => LoginAt(s, n) /\ s2[n] = s[n]
      BY <2>1, <2>3 DEF Extends
    <2> QED BY <2>1, <2>2 DEF SomeLogin
  <1> QED BY <1>1, <1>3, <1>4

-----------------------------------------------------------------------------
(* A customer's own devices. *)

LEMMA DeviceFacts ==
    /\ \A c, g, c2, g2 : OwnDevice(c, g) = OwnDevice(c2, g2) => c = c2 /\ g = g2
    /\ \A c, g, t : OwnDevice(c, g) # Uuid(t)
    /\ \A c, g : OwnDevice(c, g) \notin {UnknownDevice, HighThreat}
    /\ \A t, u : Uuid(t) = Uuid(u) => t = u
    /\ \A t : Uuid(t) \notin {UnknownDevice, HighThreat}
  BY DEF OwnDevice, Uuid, UnknownDevice, HighThreat

(* A login from a customer's own device succeeds, and comes from where the *)
(* customer of that generation lives.                                      *)
OwnKnown ==
    \A u \in Identities, g \in Nat : \A country, success :
        SomeLogin(u, OwnDevice(u, g), country, success) =>
            /\ u \in Seeded /\ g <= actor[u].generation /\ success = TRUE
            /\ g = actor[u].generation => country = actor[u].country
            /\ \A other, s2 : SomeLogin(u, OwnDevice(u, g), other, s2) => other = country

Generations == \A c \in Seeded : actor[c].generation <= faults

QInv == IInv /\ OwnKnown /\ Generations

(* The device of a request is nobody's own, or that of the customer who    *)
(* sends it.                                                               *)
Foreign(r) == r.op = "login" => \A u, g : r.device # OwnDevice(u, g)
Home(r) ==
    r.op = "login" =>
      /\ r.user \in Seeded /\ r.device = OwnDevice(r.user, actor[r.user].generation)
      /\ r.country = actor[r.user].country /\ Accepted(r) = TRUE

SamePersona ==
    \A c \in Seeded : /\ actor'[c].generation = actor[c].generation
                      /\ actor'[c].country = actor[c].country

LEMMA OwnKept ==
    ASSUME OwnKnown, SamePersona,
           \A u \in Identities : \A d, country, success :
             SomeLogin(u, d, country, success)' => SomeLogin(u, d, country, success)
    PROVE  OwnKnown'
  BY DEF OwnKnown, SamePersona

LEMMA OwnAdded ==
    ASSUME IInv, OwnKnown, SamePersona, NEW r, Foreign(r) \/ Home(r),
           \A u, d, country, success :
             SomeLogin(u, d, country, success)'
               => SomeLogin(u, d, country, success) \/ NewLogin(r, u, d, country, success)
    PROVE  OwnKnown'
  <1>1. CASE Foreign(r)
    <2>1. \A u, g, country, success : ~NewLogin(r, u, OwnDevice(u, g), country, success)
      BY <1>1 DEF Foreign, NewLogin
    <2>2. \A u, g, country, success :
            SomeLogin(u, OwnDevice(u, g), country, success)'
              => SomeLogin(u, OwnDevice(u, g), country, success)
      BY <2>1
    <2> QED BY <2>2 DEF OwnKnown, SamePersona
  <1>2. CASE Home(r)
    <2>1. \A u, g, country, success : NewLogin(r, u, OwnDevice(u, g), country, success) =>
            /\ u \in Seeded /\ g = actor[u].generation /\ success = TRUE
            /\ country = actor[u].country
      BY <1>2, DeviceFacts DEF Home, NewLogin
    <2>2. \A u \in Identities, g \in Nat : \A country, success :
            SomeLogin(u, OwnDevice(u, g), country, success)' =>
              /\ u \in Seeded /\ g <= actor[u].generation /\ success = TRUE
              /\ g = actor[u].generation => country = actor[u].country
      BY <2>1 DEF OwnKnown, IInv, TypeOK, ActorsOk, ActorType
    <2>3. ASSUME NEW u \in Identities, NEW g \in Nat, NEW country, NEW success, NEW other, NEW s2,
                 SomeLogin(u, OwnDevice(u, g), country, success)',
                 SomeLogin(u, OwnDevice(u, g), other, s2)'
          PROVE  other = country
      <3>1. CASE g = actor[u].generation
        BY <2>2, <2>3, <3>1
      <3>2. CASE g # actor[u].generation
        <4>1. SomeLogin(u, OwnDevice(u, g), country, success) /\ SomeLogin(u, OwnDevice(u, g), other, s2)
          BY <2>1, <2>3, <3>2
        <4> QED BY <4>1 DEF OwnKnown
      <3> QED BY <3>1, <3>2
    <2> QED BY <2>2, <2>3 DEF OwnKnown, SamePersona
  <1> QED BY <1>1, <1>2

(* The simulator starts anew: the next generation has logged in nowhere.   *)
LEMMA OwnRestarted == QInv /\ Restart => OwnKnown' /\ Generations'
  <1> SUFFICES ASSUME QInv, Restart PROVE OwnKnown' /\ Generations'
    OBVIOUS
  <1>1. faults \in Nat /\ faults' = faults + 1 /\ \A c \in Seeded : actor[c].generation \in Nat
    BY DEF Restart, QInv, IInv, TypeOK, ActorsOk, ActorType
  <1>2. \A c \in Seeded : actor'[c].generation = faults + 1
    BY DEF Restart
  <1>3. Generations'
    BY <1>1, <1>2 DEF Generations
  <1>4. Arrivals' = Arrivals /\ scored' = scored
    BY DEF Restart, api, engine, Arrivals
  <1>5. \A u, d, country, success :
          SomeLogin(u, d, country, success)' => SomeLogin(u, d, country, success)
    BY <1>4, SameLogins
  <1>6. \A c \in Seeded, g \in Nat :
          g <= actor[c].generation => g <= actor'[c].generation /\ g # actor'[c].generation
    BY <1>1, <1>2 DEF QInv, Generations
  <1> QED BY <1>3, <1>5, <1>6 DEF QInv, OwnKnown

LEMMA GenerationsKept ==
    ASSUME IInv, Generations, SamePersona, faults' >= faults, faults' \in Nat
    PROVE  Generations'
  BY DEF Generations, SamePersona, IInv, TypeOK, ActorsOk, ActorType

LEMMA OwnSent ==
    ASSUME QInv, NEW r, NEW outcome, Send(r, outcome), Quiet, SamePersona, Foreign(r) \/ Home(r)
    PROVE  OwnKnown' /\ Generations'
  <1>1. Sent(r) /\ faults' \in Nat /\ faults' >= faults
    BY SendEffect DEF QInv, IInv
  <1>2. \A u, d, country, success :
          SomeLogin(u, d, country, success)'
            => SomeLogin(u, d, country, success) \/ NewLogin(r, u, d, country, success)
    BY <1>1, SentLogins DEF QInv, IInv, Quiet, engine
  <1> QED BY <1>1, <1>2, OwnAdded, GenerationsKept DEF QInv

LEMMA OwnStep == QInv /\ [Next]_vars => QInv'
  <1> SUFFICES ASSUME QInv, [Next]_vars PROVE QInv'
    OBVIOUS
  <1>1. IInv'
    BY StepTyped DEF QInv
  <1>2. CASE Tick \/ (\E s \in AllScenarios : Trigger(s)) \/ ReadAccount \/ UNCHANGED vars
    <2>1. Arrivals' = Arrivals /\ scored' = scored /\ actor' = actor /\ faults' = faults
      BY <1>2 DEF Tick, Trigger, ReadAccount, vars, simulator, api, engine, counters, Arrivals,
                  QInv, IInv, TypeOK, TopicsOk, Topics
    <2>2. SamePersona /\ faults \in Nat
      BY <2>1 DEF SamePersona, QInv, IInv, TypeOK, ActorsOk
    <2>3. Generations'
      BY <2>1 DEF QInv, Generations
    <2> QED BY <1>1, <2>1, <2>2, <2>3, SameLogins, OwnKept DEF QInv
  <1>3. CASE \E t \in DOMAIN tasks : TaskStep(t)
    <2>1. PICK t \in DOMAIN tasks : TaskStep(t)
      BY <1>3
    <2>2. PICK r \in ScriptOf(t)[tasks[t].next], outcome \in Outcomes : Send(r, outcome)
      BY <2>1 DEF TaskStep
    <2>3. Foreign(r)
      BY <2>1, <2>2, TaskRequest, DeviceFacts DEF TaskStep, Attack, Foreign, QInv, IInv
    <2>4. Quiet /\ SamePersona
      BY <2>1 DEF TaskStep, Quiet, SamePersona
    <2> QED BY <1>1, <2>2, <2>3, <2>4, OwnSent DEF QInv
  <1>4. CASE \E c \in Active : CustomerActs(c)
    <2>1. PICK c \in Seeded : CustomerActs(c)
      BY <1>4, ActiveAssumption
    <2>2. PICK outcome \in Outcomes :
            \/ /\ actor[c].loggedIn
               /\ \E r \in CustomerTurn(c) : Send(r, outcome)
               /\ UNCHANGED actor
            \/ /\ ~actor[c].loggedIn
               /\ Send(CustomerLogin(c, actor[c].generation, actor[c].country), outcome)
               /\ actor' = [actor EXCEPT ![c].loggedIn = outcome = "answered"]
      BY <2>1 DEF CustomerActs
    <2>3. Quiet /\ SamePersona
      BY <2>1, <2>2 DEF CustomerActs, Quiet, SamePersona, QInv, IInv, TypeOK, ActorsOk, ActorType
    <2>4. \A r \in CustomerTurn(c) : Foreign(r)
      BY CustomerRequest DEF QInv, IInv, Foreign
    <2>5. Home(CustomerLogin(c, actor[c].generation, actor[c].country))
      BY DEF CustomerLogin, Login, Home, Accepted
    <2>6. PICK r : Send(r, outcome) /\ (Foreign(r) \/ Home(r))
      BY <2>2, <2>4, <2>5
    <2> QED BY <1>1, <2>3, <2>6, OwnSent DEF QInv
  <1>5. CASE \E e \in Employees : EmployeeActs(e)
    <2>1. PICK e \in Employees : EmployeeActs(e)
      BY <1>5
    <2>2. PICK r \in EmployeeTurn(e), outcome \in Outcomes : Send(r, outcome)
      BY <2>1 DEF EmployeeActs
    <2>3. Foreign(r)
      BY EmployeeRequest DEF Foreign
    <2>4. Quiet /\ SamePersona
      BY <2>1 DEF EmployeeActs, simulator, Quiet, SamePersona
    <2> QED BY <1>1, <2>2, <2>3, <2>4, OwnSent DEF QInv
  <1>6. CASE Restart
    BY <1>1, <1>6, OwnRestarted DEF QInv
  <1>7. CASE \E topic \in {"login_events", "transactions"}, k \in 1..MaxInFlight : Score(topic, k)
    <2>1. PICK topic \in {"login_events", "transactions"}, k \in 1..MaxInFlight : Score(topic, k)
      BY <1>7
    <2>2. PICK row, i, e, m2 : Moved(topic, k, row, i, e, m2)
      BY <2>1, ScoreMoves DEF QInv, IInv
    <2>3. SamePersona /\ faults' = faults /\ actor' = actor
      BY <2>1 DEF Score, simulator, counters, SamePersona
    <2>4. OwnKnown'
      BY <2>2, <2>3, MovedLogins, OwnKept DEF QInv, IInv
    <2>5. Generations'
      BY <2>3 DEF QInv, Generations
    <2> QED BY <1>1, <2>4, <2>5 DEF QInv
  <1> QED BY <1>2, <1>3, <1>4, <1>5, <1>6, <1>7 DEF Next

LEMMA OwnInit == Init => QInv
  <1> SUFFICES ASSUME Init PROVE QInv
    OBVIOUS
  <1>1. IInv
    BY InitTyped
  <1>2. Arrivals = <<>> /\ \A u \in Identities : scored[u] = <<>>
    BY DEF Init, Arrivals, Topics
  <1>3. \A u \in Identities : \A d, country, success : ~SomeLogin(u, d, country, success)
    BY <1>2 DEF SomeLogin, LoginAt
  <1>4. \A c \in Seeded : actor[c].generation = 0 /\ faults = 0
    BY DEF Init
  <1> QED BY <1>1, <1>3, <1>4 DEF QInv, OwnKnown, Generations

-----------------------------------------------------------------------------
(* What the memory of an identity knows of its last login. *)

Events == ScoredLogins \cup ScoredPayments

LastLogin(s, n, k) ==
    LoginAt(s, k) /\ k <= n /\ \A j : LoginAt(s, j) /\ j <= n => j <= k

NoLogin(s, n) == \A k : LoginAt(s, k) => k > n

Tracks(m, s, n) ==
    \/ \E k : /\ LastLogin(s, n, k)
              /\ m.lastDevice = s[k].device /\ m.lastCountry = s[k].country
              /\ m.lastLoginTs = s[k].at
    \/ /\ NoLogin(s, n)
       /\ m.lastDevice = None /\ m.lastCountry = None /\ m.lastLoginTs = 0

LEMMA TracksNext ==
    ASSUME NEW s \in Seq(Events), NEW n \in 1..Len(s), NEW m, Tracks(m, s, n - 1),
           NEW e, e = s[n], NEW m2, Judged(m, e, m2)
    PROVE  Tracks(m2, s, n)
  <1>1. n \in Nat \ {0} /\ Len(s) \in Nat /\ e \in Events
    OBVIOUS
  <1>2. \A k : LoginAt(s, k) => k \in Nat
    BY DEF LoginAt
  <1>3. e.table \in {"login_events", "transactions"}
    BY <1>1 DEF Events, ScoredLogins, ScoredPayments
  <1>4. CASE e.table = "login_events"
    <2>1. LoginJudged(m, e, m2)
      BY <1>4 DEF Judged
    <2>2. LastLogin(s, n, n)
      BY <1>1, <1>2, <1>4 DEF LastLogin, LoginAt
    <2> QED BY <2>1, <2>2 DEF LoginJudged, Tracks
  <1>5. CASE e.table = "transactions"
    <2>1. m2.lastDevice = m.lastDevice /\ m2.lastCountry = m.lastCountry
          /\ m2.lastLoginTs = m.lastLoginTs
      BY <1>5 DEF Judged, PaymentJudged
    <2>2. ~LoginAt(s, n)
      BY <1>5 DEF LoginAt
    <2>3. \A k : LoginAt(s, k) => (k <= n <=> k <= n - 1) /\ (k > n <=> k > n - 1)
      BY <1>1, <1>2, <2>2
    <2>4. \A k : LastLogin(s, n - 1, k) => LastLogin(s, n, k)
      BY <2>3 DEF LastLogin
    <2>5. NoLogin(s, n - 1) => NoLogin(s, n)
      BY <2>3 DEF NoLogin
    <2> QED BY <2>1, <2>4, <2>5 DEF Tracks
  <1> QED BY <1>3, <1>4, <1>5

LEMMA ReplayTracks ==
    ASSUME NEW s \in Seq(Events), NEW ms, IsReplay(ms, s), NEW n \in 0..Len(s)
    PROVE  Tracks(ms[n], s, n)
  <1> PICK T : T = {k \in 0..Len(s) : ~Tracks(ms[k], s, k)}
    OBVIOUS
  <1>1. Tracks(ms[0], s, 0)
    <2>1. NoLogin(s, 0)
      BY DEF NoLogin, LoginAt
    <2>2. ms[0] = NoMemory
      BY DEF IsReplay
    <2> QED BY <2>1, <2>2 DEF Tracks, NoMemory
  <1>2. ASSUME T # {} PROVE FALSE
    <2>1. T \in SUBSET Nat
      OBVIOUS
    <2>2. PICK k \in T : \A j \in T : k <= j
      BY <1>2, <2>1, LeastNatural
    <2>3. k \in 1..Len(s) /\ k - 1 \in 0..Len(s) /\ k - 1 \notin T
      BY <1>1, <2>2
    <2>4. Tracks(ms[k - 1], s, k - 1) /\ Judged(ms[k - 1], s[k], ms[k])
      BY <2>3 DEF IsReplay
    <2>5. Tracks(ms[k], s, k)
      BY <2>3, <2>4, TracksNext
    <2> QED BY <2>2, <2>5
  <1> QED BY <1>2

(* What a scored login was judged by.                                      *)
LEMMA LoginHistory ==
    ASSUME IInv, NEW u \in Identities, NEW n, LoginAt(scored[u], n)
    PROVE  /\ scored[u][n] \in ScoredLogins /\ n \in Nat
           /\ \E m : /\ Tracks(m, scored[u], n - 1)
                     /\ scored[u][n].raised = LoginIndicators(scored[u][n], scored[u][n].at, m)
  <1> PICK s, e : s = scored[u] /\ e = s[n]
    OBVIOUS
  <1>1. s \in Seq(Events) /\ e \in ScoredLogins /\ n \in 1..Len(s) /\ e.table = "login_events"
    BY ScoredFacts DEF IInv, Events, LoginAt
  <1>2. PICK ms : IsReplay(ms, s)
    BY DEF IInv, Replayed, Replays
  <1>3. Judged(ms[n - 1], e, ms[n]) /\ n - 1 \in 0..Len(s)
    BY <1>1, <1>2 DEF IsReplay
  <1>4. Tracks(ms[n - 1], s, n - 1)
    BY <1>1, <1>2, <1>3, ReplayTracks
  <1>5. e.raised = LoginIndicators(e, e.at, ms[n - 1])
    BY <1>1, <1>3 DEF Judged, LoginJudged
  <1> QED BY <1>1, <1>4, <1>5

LEMMA BaselineQuiet == QInv => QuietBaseline
  <1> SUFFICES ASSUME QInv, NEW c \in Everyone, NEW n \in In(c, "login_events"),
                      NEW g \in 0..MaxFaults, scored[c][n].device = OwnDevice(c, g),
                      \A k \in In(c, "login_events") :
                        k < n => scored[c][k].device = scored[c][n].device
               PROVE  scored[c][n].raised = {}
    BY DEF QuietBaseline
  <1> PICK s, e : s = scored[c] /\ e = s[n]
    OBVIOUS
  <1>1. c \in Identities /\ g \in Nat /\ IInv
    BY AccountFacts, BoundsAssumption DEF QInv
  <1>2. \A k : k \in In(c, "login_events") <=> LoginAt(s, k)
    BY <1>1, ScoredFacts DEF IInv
  <1>3. PICK m : Tracks(m, s, n - 1) /\ e.raised = LoginIndicators(e, e.at, m)
    BY <1>1, <1>2, LoginHistory
  <1>4. \A k : LoginAt(s, k) /\ k < n => s[k].device = e.device
    BY <1>2
  <1>5. \A k : LoginAt(s, k) => SomeLogin(c, s[k].device, s[k].country, s[k].success)
    BY DEF SomeLogin, IsLogin
  <1>6. LoginAt(s, n) /\ e.success = TRUE
        /\ \A other, s2 : SomeLogin(c, e.device, other, s2) => other = e.country
    BY <1>1, <1>2, <1>5 DEF QInv, OwnKnown
  <1>7. \A k : LoginAt(s, k) /\ k < n => s[k].country = e.country
    BY <1>4, <1>5, <1>6
  <1>8. ~Changed(m.lastDevice, e.device) /\ ~Changed(m.lastCountry, e.country)
    <2>1. \A k : LoginAt(s, k) /\ k <= n - 1 => k < n
      BY <1>6 DEF LoginAt
    <2>2. CASE \E k : LastLogin(s, n - 1, k)
                      /\ m.lastDevice = s[k].device /\ m.lastCountry = s[k].country
      BY <1>4, <1>7, <2>1, <2>2 DEF LastLogin, Changed
    <2>3. CASE m.lastDevice = None /\ m.lastCountry = None
      BY <2>3 DEF Changed
    <2> QED BY <1>3, <2>2, <2>3 DEF Tracks
  <1>9. LoginIndicators(e, e.at, m) = {}
    BY <1>6, <1>8 DEF LoginIndicators, CountryChanged
  <1> QED BY <1>3, <1>9
-----------------------------------------------------------------------------
(* A takeover logs in once, from a device nobody else uses. *)

Waiting(u, d, k) == k \in 1..Len(Arrivals) /\ Arrivals[k].user = u /\ Arrivals[k].device = d
Done(u, d, n) == LoginAt(scored[u], n) /\ scored[u][n].device = d

AtMostOne(u, d) ==
    /\ \A j, k : Waiting(u, d, j) /\ Waiting(u, d, k) => j = k
    /\ \A n, m : Done(u, d, n) /\ Done(u, d, m) => n = m
    /\ \A k, n : ~(Waiting(u, d, k) /\ Done(u, d, n))

Unseen(u, d) == (\A k : ~Waiting(u, d, k)) /\ (\A n : ~Done(u, d, n))

LEMMA SentOnce ==
    ASSUME TypeOK, NEW r, Sent(r), scored' = scored, NEW u, NEW d,
           r.op = "login" /\ r.device = d => Unseen(u, d)
    PROVE  AtMostOne(u, d) => AtMostOne(u, d)'
  <1>1. CASE LoginAdded(r)
    <2> PICK log, log2, row : log = Arrivals /\ log2 = Arrivals' /\ row = LoginRow(r)
      OBVIOUS
    <2>1. log \in Seq(LoginRows) /\ log2 = Append(log, row)
      BY <1>1, LoginTopic DEF LoginAdded, TypeOK, TopicsOk, Topics, Arrivals
    <2>2. Len(log2) = Len(log) + 1 /\ log2[Len(log) + 1] = row /\ \A k \in 1..Len(log) : log2[k] = log[k]
      BY <2>1
    <2>3. \A k : k \in 1..Len(log2) <=> k \in 1..Len(log) \/ k = Len(log) + 1
      BY <2>1, <2>2
    <2>4. row.device = r.device /\ r.op = "login"
      BY <1>1 DEF LoginAdded, LoginRow
    <2>5. \A n : Done(u, d, n)' <=> Done(u, d, n)
      BY DEF Done
    <2>6. \A k : Waiting(u, d, k)' => Waiting(u, d, k) \/ (k = Len(log) + 1 /\ r.device = d)
      BY <2>2, <2>3, <2>4 DEF Waiting
    <2> QED BY <2>4, <2>5, <2>6 DEF AtMostOne, Unseen
  <1>2. CASE ~LoginAdded(r)
    <2>1. Arrivals' = Arrivals
      BY <1>2 DEF Sent, TransferAdded, NothingAdded, TypeOK, TopicsOk, Topics, Arrivals
    <2> QED BY <2>1 DEF AtMostOne, Waiting, Done
  <1> QED BY <1>1, <1>2

LEMMA MovedOnce ==
    ASSUME TypeOK, NEW topic, NEW k, NEW row, NEW i, NEW e, NEW m2,
           Moved(topic, k, row, i, e, m2), NEW u \in Identities, NEW d, AtMostOne(u, d)
    PROVE  AtMostOne(u, d)'
  <1>1. topic \in {"login_events", "transactions"} /\ i \in Identities /\ e \in Events
    BY DEF Moved, Events
  <1> PICK s, s2, l : s = scored[u] /\ s2 = scored'[u] /\ l = Len(scored[u])
    OBVIOUS
  <1>2. s \in Seq(Events) /\ l \in Nat
    BY ScoredFacts DEF Events
  <1>3. CASE topic = "login_events"
    <2>0. /\ k \in 1..Len(Arrivals) /\ Arrivals[k].user = i /\ e.table = "login_events"
          /\ e.device = Arrivals[k].device /\ Len(Arrivals') = Len(Arrivals) - 1
          /\ \A j \in 1..Len(Arrivals') :
               Arrivals'[j] = Arrivals[Shift(k, j)] /\ Shift(k, j) \in 1..Len(Arrivals) \ {k}
      BY <1>3, MovedLogin
    <2>1. \A j : Waiting(u, d, j)' => Waiting(u, d, Shift(k, j)) /\ Shift(k, j) # k
      BY <2>0 DEF Waiting
    <2>2. \A j, j2 : Waiting(u, d, j)' /\ Waiting(u, d, j2)' /\ Shift(k, j) = Shift(k, j2) => j = j2
      <3>1. \A j : Waiting(u, d, j)' => j \in 1..Len(Arrivals')
        BY DEF Waiting
      <3>2. \A j, j2 \in Int : Shift(k, j) = Shift(k, j2) => j = j2
        <4>1. k \in Int
          BY <2>0
        <4> QED BY <4>1 DEF Shift
      <3> QED BY <3>1, <3>2
    <2>3. CASE u # i
      <3>1. \A n : Done(u, d, n)' <=> Done(u, d, n)
        BY <1>3, <2>3, MovedLogin DEF Done
      <3> QED BY <2>1, <2>2, <3>1 DEF AtMostOne
    <2>4. CASE u = i
      <3>1. s2 = Append(s, e)
        BY <1>3, <2>4, MovedLogin
      <3>2. Extends(s2, s, e)
        BY <1>1, <1>2, <3>1, AppendedLogins
      <3>3. \A n : Done(u, d, n)' => Done(u, d, n) \/ (n = l + 1 /\ e.device = d)
        BY <3>2 DEF Extends, Done
      <3>4. e.device = d => Waiting(u, d, k)
        BY <2>0, <2>4 DEF Waiting
      <3> QED BY <2>1, <2>2, <3>3, <3>4 DEF AtMostOne
    <2> QED BY <2>3, <2>4
  <1>4. CASE topic = "transactions"
    <2>1. Arrivals' = Arrivals /\ e.table # "login_events"
          /\ (IF u = i THEN s2 = Append(s, e) ELSE s2 = s)
      BY <1>4, MovedPayment
    <2>2. u = i => Extends(s2, s, e)
      BY <1>1, <1>2, <2>1, AppendedLogins
    <2>3. \A n : Done(u, d, n)' => Done(u, d, n)
      BY <2>1, <2>2 DEF Extends, Done
    <2>4. \A j : Waiting(u, d, j)' <=> Waiting(u, d, j)
      BY <2>1 DEF Waiting
    <2> QED BY <2>3, <2>4 DEF AtMostOne
  <1> QED BY <1>1, <1>3, <1>4

LEMMA UnseenIsOnce == \A u, d : Unseen(u, d) => AtMostOne(u, d)
  BY DEF Unseen, AtMostOne

LEMMA NobodyIsUnseen ==
    \A u, d : (\A country, success : ~SomeLogin(u, d, country, success)) => Unseen(u, d)
  BY DEF Unseen, SomeLogin, IsLogin, Waiting, Done

Takeover(t) == t \in DOMAIN tasks /\ tasks[t].scenario = "account_takeover"

(* A login from a task's own device is of a task that is past it.          *)
Announced ==
    \A u \in Identities, t \in Nat : \A country, success :
        SomeLogin(u, Uuid(t), country, success) =>
            t \in DOMAIN tasks /\ (Takeover(t) => tasks[t].next > 1)

Once == \A u \in Identities, t \in Nat : Takeover(t) => AtMostOne(u, Uuid(t))

TInv == IInv /\ Announced /\ Once

(* Tasks are added, and a takeover past its login stays past it.           *)
Onward ==
    \A t \in DOMAIN tasks :
        /\ t \in DOMAIN tasks' /\ tasks'[t].scenario = tasks[t].scenario
        /\ Takeover(t) /\ tasks[t].next > 1 => tasks'[t].next > 1

LEMMA OnwardKept ==
    ASSUME TInv, Onward,
           \A u \in Identities : \A d, country, success :
             SomeLogin(u, d, country, success)' => SomeLogin(u, d, country, success),
           \A u \in Identities : \A d : AtMostOne(u, d) => AtMostOne(u, d)'
    PROVE  Announced' /\ Once'
  <1>1. Announced'
    BY DEF TInv, Announced, Onward, Takeover
  <1>2. ASSUME NEW u \in Identities, NEW t \in Nat, Takeover(t)' PROVE AtMostOne(u, Uuid(t))'
    <2>1. CASE t \in DOMAIN tasks
      BY <1>2, <2>1 DEF TInv, Once, Onward, Takeover
    <2>2. CASE t \notin DOMAIN tasks
      <3>1. \A country, success : ~SomeLogin(u, Uuid(t), country, success)
        BY <2>2 DEF TInv, Announced
      <3>2. AtMostOne(u, Uuid(t))
        BY <3>1, NobodyIsUnseen, UnseenIsOnce
      <3> QED BY <3>2
    <2> QED BY <2>1, <2>2
  <1> QED BY <1>1, <1>2 DEF Once

LEMMA TakeoverScript ==
    ASSUME TypeOK, NEW t \in DOMAIN tasks, Takeover(t)
    PROVE  /\ Len(ScriptOf(t)) = 3
           /\ \A n \in 1..3 : \A r \in ScriptOf(t)[n] : r.op = "login" => n = 1
  <1> PICK victim : victim = tasks[t].target
    OBVIOUS
  <1>1. ScriptOf(t) = AccountTakeover(t, victim)
    BY DEF ScriptOf, Script, Takeover
  <1>2. Len(AccountTakeover(t, victim)) = 3
    BY DEF AccountTakeover
  <1>3. \A r \in AccountTakeover(t, victim)[2] \cup AccountTakeover(t, victim)[3] : r.op # "login"
    BY DEF AccountTakeover, Other, Transfer
  <1> QED BY <1>1, <1>2, <1>3

(* A request of somebody else's, or of a task that has not logged in.      *)
NotAgain(r) ==
    r.op = "login" => \A t \in Nat : r.device = Uuid(t) =>
        /\ t \in DOMAIN tasks' /\ (Takeover(t)' => tasks'[t].next > 1)
        /\ Takeover(t)' => \A u \in Identities : Unseen(u, Uuid(t))

LEMMA TakeoversSent ==
    ASSUME TInv, NEW r, NEW outcome, Send(r, outcome), Quiet, Onward, NotAgain(r),
           DOMAIN tasks' = DOMAIN tasks
    PROVE  Announced' /\ Once'
  <1>1. Sent(r) /\ scored' = scored /\ TypeOK
    BY SendEffect DEF TInv, IInv, Quiet, engine
  <1>2. \A u, d, country, success :
          SomeLogin(u, d, country, success)'
            => SomeLogin(u, d, country, success) \/ NewLogin(r, u, d, country, success)
    BY <1>1, SentLogins
  <1>3. ASSUME NEW u \in Identities, NEW t \in Nat, NEW country, NEW success,
               SomeLogin(u, Uuid(t), country, success)'
        PROVE  t \in DOMAIN tasks' /\ (Takeover(t)' => tasks'[t].next > 1)
    <2>1. CASE SomeLogin(u, Uuid(t), country, success)
      BY <2>1 DEF TInv, Announced, Onward, Takeover
    <2>2. CASE NewLogin(r, u, Uuid(t), country, success)
      BY <2>2 DEF NewLogin, NotAgain
    <2> QED BY <1>2, <1>3, <2>1, <2>2
  <1>4. Announced'
    BY <1>3 DEF Announced
  <1>5. ASSUME NEW u \in Identities, NEW t \in Nat, Takeover(t)' PROVE AtMostOne(u, Uuid(t))'
    <2>1. AtMostOne(u, Uuid(t))
      BY <1>5 DEF TInv, Once, Onward, Takeover
    <2>2. r.op = "login" /\ r.device = Uuid(t) => Unseen(u, Uuid(t))
      BY <1>5 DEF NotAgain
    <2> QED BY <1>1, <2>1, <2>2, SentOnce
  <1> QED BY <1>4, <1>5 DEF Once

LEMMA OnwardStep ==
    ASSUME TInv, Tick \/ (\E s \in AllScenarios : Trigger(s)) \/ Restart
    PROVE  Onward
  <1>0. tasks \in Seq(TaskType) /\ IInv
    BY DEF TInv, IInv, TypeOK, TasksOk
  <1>1. CASE Tick
    <2>1. PICK launched \in Launches({s \in AllScenarios : Due(s)}) : tasks' = tasks \o launched
      BY <1>1 DEF Tick
    <2>2. launched \in Seq(TaskType)
      BY <2>1, LaunchesTyped
    <2>3. \A t \in 1..Len(tasks) : t \in 1..Len(tasks') /\ tasks'[t] = tasks[t]
      BY <1>0, <2>1, <2>2, ConcatProperties
    <2>4. DOMAIN tasks = 1..Len(tasks) /\ DOMAIN tasks' = 1..Len(tasks')
      BY <1>0, <2>1, <2>2, ConcatProperties
    <2> QED BY <2>3, <2>4 DEF Onward
  <1>2. CASE \E s \in AllScenarios : Trigger(s)
    <2>1. PICK task : tasks' = Append(tasks, task)
      BY <1>2 DEF Trigger
    <2>2. DOMAIN tasks \subseteq DOMAIN tasks' /\ \A t \in DOMAIN tasks : tasks'[t] = tasks[t]
      BY <1>0, <2>1
    <2> QED BY <2>2 DEF Onward
  <1>3. CASE Restart
    <2>1. ASSUME NEW t \in DOMAIN tasks
          PROVE  /\ t \in DOMAIN tasks' /\ tasks'[t].scenario = tasks[t].scenario
                 /\ Takeover(t) /\ tasks[t].next > 1 => tasks'[t].next > 1
      <3> PICK n : n = Len(ScriptOf(t)) + 1
        OBVIOUS
      <3>1. DOMAIN tasks' = DOMAIN tasks
            /\ tasks'[t] = IF tasks[t].users = Triggered THEN tasks[t]
                           ELSE [tasks[t] EXCEPT !.next = n]
        BY <1>3 DEF Restart
      <3>2. tasks[t] \in TaskType
        BY <1>0
      <3>3. /\ [tasks[t] EXCEPT !.next = n].scenario = tasks[t].scenario
            /\ [tasks[t] EXCEPT !.next = n].next = n
        BY <3>2 DEF TaskType
      <3>4. ASSUME Takeover(t) PROVE n = 4
        <4>1. Len(ScriptOf(t)) = 3
          BY <1>0, <3>4, TakeoverScript DEF IInv
        <4> QED BY <4>1
      <3> QED BY <3>1, <3>3, <3>4
    <2> QED BY <2>1 DEF Onward
  <1> QED BY <1>1, <1>2, <1>3

LEMMA TakeoverStep == TInv /\ [Next]_vars => TInv'
  <1> SUFFICES ASSUME TInv, [Next]_vars PROVE TInv'
    OBVIOUS
  <1>0. IInv /\ IInv'
    BY StepTyped DEF TInv
  <1>1. CASE UNCHANGED vars
    <2>1. Arrivals' = Arrivals /\ scored' = scored /\ tasks' = tasks
      BY <1>1 DEF vars, simulator, api, engine, Arrivals
    <2>2. Onward
      BY <2>1 DEF Onward
    <2>3. \A u, d : AtMostOne(u, d) => AtMostOne(u, d)'
      BY <2>1 DEF AtMostOne, Waiting, Done
    <2> QED BY <1>0, <2>1, <2>2, <2>3, SameLogins, OnwardKept DEF TInv
  <1>2. CASE Tick \/ (\E s \in AllScenarios : Trigger(s)) \/ Restart \/ ReadAccount
    <2>1. Arrivals' = Arrivals /\ scored' = scored
      BY <1>0, <1>2 DEF Tick, Trigger, Restart, ReadAccount, simulator, api, engine, Arrivals,
                        IInv, TypeOK, TopicsOk, Topics
    <2>3. Onward
      <3>1. CASE ReadAccount
        BY <3>1 DEF ReadAccount, simulator, Onward
      <3>2. CASE Tick \/ (\E s \in AllScenarios : Trigger(s)) \/ Restart
        BY <3>2, OnwardStep
      <3> QED BY <1>2, <3>1, <3>2
    <2>4. \A u, d : AtMostOne(u, d) => AtMostOne(u, d)'
      BY <2>1 DEF AtMostOne, Waiting, Done
    <2> QED BY <1>0, <2>1, <2>3, <2>4, SameLogins, OnwardKept DEF TInv
  <1>3. CASE \E t \in DOMAIN tasks : TaskStep(t)
    <2>1. PICK t \in DOMAIN tasks : TaskStep(t)
      BY <1>3
    <2>2. PICK r \in ScriptOf(t)[tasks[t].next], outcome \in Outcomes :
            Send(r, outcome) /\ tasks' = [tasks EXCEPT ![t].next = NextAfter(t, outcome)]
      BY <2>1 DEF TaskStep
    <2>3. Attack(r, t) /\ t \in Nat /\ tasks[t] \in TaskType
      BY <1>0, <2>1, <2>2, TaskRequest DEF TaskStep, IInv, TypeOK, TasksOk
    <2> PICK n : n = NextAfter(t, outcome)
      OBVIOUS
    <2>4. n > 1
      BY <1>0, <2>1, NextPositive DEF TaskStep, IInv
    <2>5. /\ DOMAIN tasks' = DOMAIN tasks /\ tasks'[t].next = n
          /\ tasks'[t].scenario = tasks[t].scenario
          /\ \A t2 \in DOMAIN tasks \ {t} : tasks'[t2] = tasks[t2]
      BY <2>2, <2>3 DEF TaskType
    <2>6. Onward
      BY <2>4, <2>5 DEF Onward
    <2>7. ASSUME r.op = "login", Takeover(t) PROVE \A u \in Identities : Unseen(u, Uuid(t))
      <3>1. tasks[t].next \in 1..3
        <4>1. Len(ScriptOf(t)) = 3 /\ ~Ended(t) /\ tasks[t].next \in Nat \ {0}
          BY <1>0, <2>1, <2>3, <2>7, TakeoverScript DEF TaskStep, TaskType, IInv
        <4> QED BY <4>1 DEF Ended
      <3>2. tasks[t].next = 1
        BY <1>0, <2>2, <2>7, <3>1, TakeoverScript DEF IInv
      <3>3. \A u \in Identities : \A country, success : ~SomeLogin(u, Uuid(t), country, success)
        BY <2>3, <2>7, <3>2 DEF TInv, Announced
      <3> QED BY <3>3, NobodyIsUnseen
    <2>8. NotAgain(r)
      <3>1. \A t2 \in Nat : r.op = "login" /\ r.device = Uuid(t2) => t2 = t
        BY <2>3, DeviceFacts DEF Attack, HighThreat
      <3> QED BY <2>4, <2>5, <2>7, <3>1 DEF NotAgain, Takeover
    <2>9. Quiet
      BY <2>1 DEF TaskStep, Quiet
    <2> QED BY <1>0, <2>2, <2>5, <2>6, <2>8, <2>9, TakeoversSent DEF TInv
  <1>4. CASE (\E c \in Active : CustomerActs(c)) \/ (\E e \in Employees : EmployeeActs(e))
    <2>1. Quiet /\ tasks' = tasks /\ Onward
      BY <1>4 DEF CustomerActs, EmployeeActs, simulator, Quiet, Onward
    <2>2. PICK r, outcome : /\ Send(r, outcome)
                            /\ r.op = "login" => \A t : r.device # Uuid(t)
      <3>1. CASE \E e \in Employees : EmployeeActs(e)
        BY <3>1, EmployeeRequest DEF EmployeeActs
      <3>2. CASE \E c \in Active : CustomerActs(c)
        <4>1. PICK c \in Seeded : CustomerActs(c)
          BY <3>2, ActiveAssumption
        <4>2. \A r \in CustomerTurn(c) : r.op # "login"
          BY <1>0, CustomerRequest DEF IInv
        <4> PICK g : g = actor[c].generation
          OBVIOUS
        <4>3. \A country, t : CustomerLogin(c, g, country).device # Uuid(t)
          BY DeviceFacts DEF CustomerLogin, Login
        <4> QED BY <4>1, <4>2, <4>3 DEF CustomerActs
      <3> QED BY <1>4, <3>1, <3>2
    <2>3. NotAgain(r)
      BY <2>2 DEF NotAgain
    <2> QED BY <1>0, <2>1, <2>2, <2>3, TakeoversSent DEF TInv
  <1>5. CASE \E topic \in {"login_events", "transactions"}, k \in 1..MaxInFlight : Score(topic, k)
    <2>1. PICK topic \in {"login_events", "transactions"}, k \in 1..MaxInFlight : Score(topic, k)
      BY <1>5
    <2>2. PICK row, i, e, m2 : Moved(topic, k, row, i, e, m2)
      BY <1>0, <2>1, ScoreMoves DEF IInv
    <2>3. \A u \in Identities : \A d : AtMostOne(u, d) => AtMostOne(u, d)'
      BY <1>0, <2>2, MovedOnce DEF IInv
    <2>4. Onward
      BY <2>1 DEF Score, simulator, Onward
    <2> QED BY <1>0, <2>2, <2>3, <2>4, MovedLogins, OnwardKept DEF TInv, IInv
  <1> QED BY <1>1, <1>2, <1>3, <1>4, <1>5 DEF Next

LEMMA TakeoverInit == Init => TInv
  <1> SUFFICES ASSUME Init PROVE TInv
    OBVIOUS
  <1>1. IInv
    BY InitTyped
  <1>2. Arrivals = <<>> /\ (\A u \in Identities : scored[u] = <<>>) /\ tasks = <<>>
    BY DEF Init, Arrivals, Topics
  <1>3. \A u \in Identities : \A d, country, success : ~SomeLogin(u, d, country, success)
    BY <1>2 DEF SomeLogin, LoginAt
  <1> QED BY <1>1, <1>2, <1>3 DEF TInv, Announced, Once, Takeover

LEMMA ThreeWeights ==
    ASSUME NEW raised,
           "NEW_DEVICE" \in raised, "NEW_COUNTRY" \in raised, "IMPOSSIBLE_TRAVEL" \in raised
    PROVE  WeightSum(raised) > AlertThreshold
  <1>1. \A i \in IndicatorNames : Points(raised, i) \in Nat
    BY WeightAssumption DEF Points
  <1>2. /\ Points(raised, "NEW_DEVICE") = Weight["NEW_DEVICE"]
        /\ Points(raised, "NEW_COUNTRY") = Weight["NEW_COUNTRY"]
        /\ Points(raised, "IMPOSSIBLE_TRAVEL") = Weight["IMPOSSIBLE_TRAVEL"]
    BY DEF Points
  <1>3. AlertThreshold \in Nat
    BY ThresholdsAssumption
  <1>4. /\ Points(raised, "MULTIPLE_FAILED_LOGINS") \in Nat
        /\ Points(raised, "LARGE_TRANSFER_AMOUNT") \in Nat
        /\ Points(raised, "VELOCITY_VIOLATION") \in Nat
        /\ Points(raised, "HIGH_RISK_RECIPIENT") \in Nat
        /\ Points(raised, "SUSPICIOUS_API_PATTERN") \in Nat
        /\ Points(raised, "UNLISTED") \in Nat
    BY <1>1 DEF IndicatorNames
  <1>5. /\ Weight["NEW_DEVICE"] \in Nat /\ Weight["NEW_COUNTRY"] \in Nat
        /\ Weight["IMPOSSIBLE_TRAVEL"] \in Nat
    BY WeightAssumption DEF IndicatorNames
  <1> QED BY <1>2, <1>3, <1>4, <1>5, TakeoverAssumption DEF WeightSum

LEMMA TakeoverNoticed == TInv => TakeoverAlarmed
  <1> SUFFICES ASSUME TInv, NEW i \in Identities, NEW n \in DOMAIN scored[i], TakeoverLogin(i, n),
                      NEW k \in In(i, "login_events"), k < n,
                      \A m \in In(i, "login_events") : m < n => m <= k
               PROVE  /\ "NEW_DEVICE" \in scored[i][n].raised
                      /\ \/ scored[i][k].country = scored[i][n].country
                         \/ scored[i][n].at - scored[i][k].at > ImpossibleTravelWindow
                         \/ WeightSum(scored[i][n].raised) > AlertThreshold
    BY DEF TakeoverAlarmed
  <1> PICK s, e, last : s = scored[i] /\ e = s[n] /\ last = s[k]
    OBVIOUS
  <1>0. IInv /\ TypeOK
    BY DEF TInv, IInv
  <1>1. \A m : m \in In(i, "login_events") <=> LoginAt(s, m)
    BY <1>0, ScoredFacts
  <1>2. LoginAt(s, n) /\ LoginAt(s, k)
    BY <1>1 DEF TakeoverLogin
  <1>3. PICK t \in DOMAIN tasks : Takeover(t) /\ e.device = Uuid(t)
    BY DEF TakeoverLogin, Takeover
  <1>4. t \in Nat
    BY <1>0 DEF TypeOK, TasksOk
  <1>5. last.device # e.device
    <2>1. AtMostOne(i, Uuid(t))
      BY <1>3, <1>4 DEF TInv, Once
    <2>2. n \in Nat /\ k \in Nat /\ n # k
      BY <1>0, <1>2, LoginHistory
    <2>3. Done(i, Uuid(t), n) /\ (last.device = e.device => Done(i, Uuid(t), k))
      BY <1>2, <1>3 DEF Done
    <2> QED BY <2>1, <2>2, <2>3 DEF AtMostOne
  <1>6. PICK m : Tracks(m, s, n - 1) /\ e.raised = LoginIndicators(e, e.at, m)
    BY <1>0, <1>2, LoginHistory
  <1>7. e \in ScoredLogins /\ last \in ScoredLogins /\ n \in Nat /\ k \in Nat
    BY <1>0, <1>2, LoginHistory
  <1>8. m.lastDevice = last.device /\ m.lastCountry = last.country /\ m.lastLoginTs = last.at
    <2>1. k <= n - 1 /\ ~NoLogin(s, n - 1)
      BY <1>2, <1>7 DEF NoLogin
    <2>2. \A j : LoginAt(s, j) => j \in Nat
      BY DEF LoginAt
    <2>3. \A j : LastLogin(s, n - 1, j) => j = k
      BY <1>1, <1>2, <1>7, <2>1, <2>2 DEF LastLogin
    <2> QED BY <1>6, <2>1, <2>3 DEF Tracks
  <1>9. /\ e.device # None /\ last.device # None /\ e.country # None /\ last.country # None
        /\ last.at \in Nat \ {0} /\ e.at \in Nat
    BY <1>7, DevicesNamed DEF ScoredLogins
  <1>10. "NEW_DEVICE" \in e.raised
    BY <1>5, <1>6, <1>8, <1>9 DEF LoginIndicators, Changed, IndicatorNames
  <1>11. ASSUME last.country # e.country, ~(e.at - last.at > ImpossibleTravelWindow)
         PROVE  WeightSum(e.raised) > AlertThreshold
    <2>1. CountryChanged(e, m)
      BY <1>8, <1>9, <1>11 DEF CountryChanged, Changed
    <2>2. FasterThanTravel(e.at, m)
      BY <1>8, <1>9, <1>11, ThresholdsAssumption DEF FasterThanTravel
    <2>3. "NEW_COUNTRY" \in e.raised /\ "IMPOSSIBLE_TRAVEL" \in e.raised
      BY <1>6, <2>1, <2>2 DEF LoginIndicators, IndicatorNames
    <2> QED BY <1>10, <2>3, ThreeWeights
  <1> QED BY <1>10, <1>11
-----------------------------------------------------------------------------
(* The times a list keeps are those of the positions it keeps. *)

Step(f, ts, clock, w, k) ==
    IF clock - ts[k] <= w THEN Append(f[k - 1], ts[k]) ELSE f[k - 1]

Keeps(f, ts, clock, w, n) ==
    f = [k \in 0..n |-> IF k = 0 THEN <<>> ELSE Step(f, ts, clock, w, k)]

LEMMA KeepsGrow ==
    ASSUME NEW ts, NEW clock, NEW w, NEW n \in Nat \ {0}, NEW g, Keeps(g, ts, clock, w, n - 1)
    PROVE  \E f : Keeps(f, ts, clock, w, n)
  <1> PICK p, v : p = n - 1 /\ v = Step(g, ts, clock, w, n)
    OBVIOUS
  <1> PICK f : f = [k \in 0..n |-> IF k = n THEN v ELSE g[k]]
    OBVIOUS
  <1>1. p \in Nat /\ n = p + 1 /\ g = [k \in 0..p |-> IF k = 0 THEN <<>> ELSE Step(g, ts, clock, w, k)]
    BY DEF Keeps
  <1>2. f[n] = v /\ DOMAIN f = 0..n /\ \A k \in 0..p : f[k] = g[k]
    BY <1>1
  <1>3. ASSUME NEW k \in 0..n PROVE f[k] = IF k = 0 THEN <<>> ELSE Step(f, ts, clock, w, k)
    <2>1. CASE k = n
      <3>1. f[k - 1] = g[k - 1] /\ k # 0
        BY <1>1, <1>2, <2>1
      <3> QED BY <1>2, <2>1, <3>1 DEF Step
    <2>2. CASE k = 0
      BY <1>1, <1>2, <2>2
    <2>3. CASE k # n /\ k # 0
      <3>1. k \in 0..p /\ k - 1 \in 0..p
        BY <1>1, <2>3
      <3>2. g[k] = Step(g, ts, clock, w, k)
        BY <1>1, <2>3, <3>1
      <3> QED BY <1>2, <2>3, <3>1, <3>2 DEF Step
    <2> QED BY <2>1, <2>2, <2>3
  <1>4. f = [k \in 0..n |-> f[k]]
    OBVIOUS
  <1>5. f = [k \in 0..n |-> IF k = 0 THEN <<>> ELSE Step(f, ts, clock, w, k)]
    BY <1>3, <1>4
  <1> QED BY <1>5 DEF Keeps

LEMMA KeepsExists ==
    ASSUME NEW ts, NEW clock, NEW w, NEW n \in Nat
    PROVE  \E f : Keeps(f, ts, clock, w, n)
  <1> DEFINE Has(m) == \E f : Keeps(f, ts, clock, w, m)
  <1> PICK T : T = {m \in Nat : ~Has(m)}
    OBVIOUS
  <1>1. Has(0)
    <2> PICK f : f = [k \in 0..0 |-> <<>>]
      OBVIOUS
    <2>1. f = [k \in 0..0 |-> IF k = 0 THEN <<>> ELSE Step(f, ts, clock, w, k)]
      OBVIOUS
    <2> QED BY <2>1 DEF Keeps
  <1>2. ASSUME NEW m \in Nat \ {0}, Has(m - 1) PROVE Has(m)
    BY <1>2, KeepsGrow
  <1> HIDE DEF Has
  <1>3. ASSUME T # {} PROVE FALSE
    <2>1. PICK k \in T : \A y \in T : k <= y
      BY <1>3, LeastNatural
    <2>2. k \in Nat \ {0} /\ k - 1 \in Nat /\ k - 1 \notin T
      BY <1>1, <2>1
    <2> QED BY <1>2, <2>1, <2>2
  <1> QED BY <1>3 DEF Has

LEMMA InWindowKept ==
    ASSUME NEW ts, NEW clock, NEW w, Len(ts) \in Nat
    PROVE  \E f : Keeps(f, ts, clock, w, Len(ts)) /\ InWindow(ts, clock, w) = f[Len(ts)]
  <1> PICK n : n = Len(ts)
    OBVIOUS
  <1> DEFINE Is(f) == f = [k \in 0..n |-> IF k = 0 THEN <<>>
                                          ELSE IF clock - ts[k] <= w THEN Append(f[k - 1], ts[k])
                                          ELSE f[k - 1]]
  <1>1. \A f : Is(f) <=> Keeps(f, ts, clock, w, n)
    BY DEF Keeps, Step
  <1>2. \E f : Is(f)
    BY <1>1, KeepsExists
  <1>3. InWindow(ts, clock, w) = (CHOOSE f : Is(f))[n]
    BY Zenon DEF InWindow
  <1> HIDE DEF Is
  <1>4. Is(CHOOSE f : Is(f))
    BY <1>2
  <1> QED BY <1>1, <1>3, <1>4

(* times lists the times of the positions K of s.                          *)
Numbers(b, n, times, K, s) ==
    /\ b \in [1..n -> K]
    /\ \A j, k \in 1..n : b[j] = b[k] => j = k
    /\ \A p \in K : \E j \in 1..n : b[j] = p
    /\ \A j \in 1..n : times[j] = s[b[j]].at

Lists(times, K, s) ==
    times \in Seq(Nat) /\ \E b : Numbers(b, Len(times), times, K, s)

LEMMA ListsNothing == \A s : Lists(<<>>, {}, s)
  <1> PICK b : b = [j \in 1..0 |-> j]
    OBVIOUS
  <1>1. b \in [1..0 -> {}] /\ <<>> \in Seq(Nat) /\ Len(<<>>) = 0
    OBVIOUS
  <1> QED BY <1>1 DEF Lists, Numbers

LEMMA ListsOneMore ==
    ASSUME NEW times, NEW K, NEW s, Lists(times, K, s), NEW p, p \notin K, NEW v \in Nat, v = s[p].at
    PROVE  Lists(Append(times, v), K \cup {p}, s)
  <1>1. times \in Seq(Nat)
    BY DEF Lists
  <1> PICK n, more : n = Len(times) /\ more = Append(times, v)
    OBVIOUS
  <1>2. PICK b \in [1..n -> K] :
          /\ \A j, k \in 1..n : b[j] = b[k] => j = k
          /\ \A q \in K : \E j \in 1..n : b[j] = q
          /\ \A j \in 1..n : times[j] = s[b[j]].at
    BY DEF Lists, Numbers
  <1>3. n \in Nat /\ more \in Seq(Nat) /\ Len(more) = n + 1 /\ more[n + 1] = v
        /\ \A j \in 1..n : more[j] = times[j]
    BY <1>1
  <1> PICK c : c = [j \in 1..n + 1 |-> IF j = n + 1 THEN p ELSE b[j]]
    OBVIOUS
  <1>4. c \in [1..n + 1 -> K \cup {p}] /\ c[n + 1] = p /\ \A j \in 1..n : c[j] = b[j]
    BY <1>2, <1>3
  <1>5. \A j \in 1..n + 1 : j \in 1..n \/ j = n + 1
    BY <1>3
  <1>6. \A j \in 1..n : j \in 1..n + 1 /\ j # n + 1
    BY <1>3
  <1>7. n + 1 \in 1..n + 1
    BY <1>3
  <1>8. \A j, k \in 1..n + 1 : c[j] = c[k] => j = k
    BY <1>2, <1>4, <1>5
  <1>9. \A q \in K \cup {p} : \E j \in 1..n + 1 : c[j] = q
    BY <1>2, <1>4, <1>6, <1>7
  <1>10. \A j \in 1..n + 1 : more[j] = s[c[j]].at
    BY <1>2, <1>3, <1>4, <1>5
  <1> PICK m, L : m = n + 1 /\ L = K \cup {p}
    OBVIOUS
  <1>11. /\ c \in [1..m -> L] /\ \A j, k \in 1..m : c[j] = c[k] => j = k
         /\ \A q \in L : \E j \in 1..m : c[j] = q
         /\ \A j \in 1..m : more[j] = s[c[j]].at
    BY <1>4, <1>8, <1>9, <1>10
  <1>12. Numbers(c, m, more, L, s)
    BY <1>11 DEF Numbers
  <1>13. Len(more) = m /\ more \in Seq(Nat)
    BY <1>3
  <1>14. Lists(more, L, s)
    BY <1>12, <1>13 DEF Lists
  <1> QED BY <1>14

LEMMA ListsCounts ==
    ASSUME NEW times, NEW K, NEW s, Lists(times, K, s)
    PROVE  Cardinality(K) = Len(times)
  <1> PICK n : n = Len(times)
    OBVIOUS
  <1>1. n \in Nat
    BY DEF Lists
  <1>2. PICK b \in [1..n -> K] :
          /\ \A j, k \in 1..n : b[j] = b[k] => j = k
          /\ \A q \in K : \E j \in 1..n : b[j] = q
    BY DEF Lists, Numbers
  <1>3. b \in Bijection(1..n, K)
    BY <1>2 DEF Bijection, Injection, Surjection, IsInjective
  <1>4. ExistsBijection(1..n, K)
    BY <1>3 DEF ExistsBijection
  <1> QED BY <1>1, <1>4, FS_CountingElements

(* The first m of a list, those in the window.                             *)
LEMMA ListsInWindow ==
    ASSUME NEW times, NEW K, NEW s, Lists(times, K, s), NEW clock \in Nat, NEW w \in Nat
    PROVE  Lists(InWindow(times, clock, w), {p \in K : clock - s[p].at <= w}, s)
  <1> PICK n : n = Len(times)
    OBVIOUS
  <1>1. times \in Seq(Nat) /\ n \in Nat
    BY DEF Lists
  <1>2. PICK b \in [1..n -> K] :
          /\ \A j, k \in 1..n : b[j] = b[k] => j = k
          /\ \A q \in K : \E j \in 1..n : b[j] = q
          /\ \A j \in 1..n : times[j] = s[b[j]].at
    BY DEF Lists, Numbers
  <1>3. PICK f : Keeps(f, times, clock, w, n) /\ InWindow(times, clock, w) = f[n]
    BY <1>1, InWindowKept
  <1> DEFINE In_(m) == {b[j] : j \in {i \in 1..m : clock - times[i] <= w}}
  <1> PICK T : T = {m \in 0..n : ~Lists(f[m], In_(m), s)}
    OBVIOUS
  <1>4. f[0] = <<>> /\ \A k \in 1..n : f[k] = Step(f, times, clock, w, k)
    BY SMTT(30), <1>1, <1>3 DEF Keeps
  <1>5. Lists(f[0], In_(0), s)
    <2>1. In_(0) = {}
      OBVIOUS
    <2> QED BY <1>4, <2>1, ListsNothing
  <1>6. ASSUME NEW m \in 1..n, Lists(f[m - 1], In_(m - 1), s) PROVE Lists(f[m], In_(m), s)
    <2>1. m - 1 \in 0..n /\ times[m] \in Nat /\ times[m] = s[b[m]].at
          /\ \A i : i \in 1..m <=> i \in 1..m - 1 \/ i = m
      BY <1>1, <1>2
    <2>2. b[m] \notin In_(m - 1)
      <3>1. \A i \in 1..m - 1 : i \in 1..n /\ i # m
        BY <1>1, <2>1
      <3> QED BY <1>2, <3>1
    <2>3. CASE clock - times[m] <= w
      <3>1. In_(m) = In_(m - 1) \cup {b[m]}
        BY <2>1, <2>3
      <3>2. f[m] = Append(f[m - 1], times[m])
        BY <1>4, <2>3 DEF Step
      <3> HIDE DEF In_
      <3> QED BY <1>6, <2>1, <2>2, <3>1, <3>2, ListsOneMore
    <2>4. CASE ~(clock - times[m] <= w)
      <3>1. In_(m) = In_(m - 1)
        BY <2>1, <2>4
      <3>2. f[m] = f[m - 1]
        BY <1>4, <2>4 DEF Step
      <3> QED BY <1>6, <3>1, <3>2
    <2> QED BY <2>3, <2>4
  <1>7. In_(n) = {p \in K : clock - s[p].at <= w}
    BY <1>2
  <1> HIDE DEF In_
  <1>8. ASSUME T # {} PROVE FALSE
    <2>1. T \in SUBSET Nat
      BY <1>1
    <2>2. PICK k \in T : \A y \in T : k <= y
      BY <1>8, <2>1, LeastNatural
    <2>3. k \in 1..n /\ k - 1 \in 0..n /\ k - 1 \notin T
      BY <1>1, <1>5, <2>2
    <2> QED BY <1>6, <2>2, <2>3
  <1>9. Lists(f[n], In_(n), s)
    BY <1>1, <1>8
  <1> QED BY <1>3, <1>7, <1>9

(* One more position is recorded, and the list pruned, but not truncated.  *)
LEMMA RecordLists ==
    ASSUME NEW times, NEW K, NEW s, Lists(times, K, s), NEW p, p \notin K,
           NEW clock \in Nat, clock = s[p].at, NEW w \in Nat,
           Len(RecordAndPrune(times, clock, w)) < MaxRetained
    PROVE  Lists(RecordAndPrune(times, clock, w), {q \in K \cup {p} : clock - s[q].at <= w}, s)
  <1> PICK all : all = InWindow(Append(times, clock), clock, w)
    OBVIOUS
  <1>1. Lists(all, {q \in K \cup {p} : clock - s[q].at <= w}, s)
    BY ZenonT(60), ListsOneMore, ListsInWindow
  <1>2. all \in Seq(Nat) /\ MaxRetained \in Nat
    BY <1>1, ThresholdsAssumption DEF Lists
  <1>3. RecordAndPrune(times, clock, w)
          = SubSeq(all, IF Len(all) > MaxRetained THEN Len(all) - MaxRetained + 1 ELSE 1, Len(all))
    BY DEF RecordAndPrune, LastN
  <1>4. CASE Len(all) > MaxRetained
    <2>1. RecordAndPrune(times, clock, w) = SubSeq(all, Len(all) - MaxRetained + 1, Len(all))
      BY <1>3, <1>4
    <2>2. Len(SubSeq(all, Len(all) - MaxRetained + 1, Len(all))) = MaxRetained
      BY <1>2, <1>4
    <2> QED BY <1>2, <2>1, <2>2
  <1>5. CASE ~(Len(all) > MaxRetained)
    <2>1. SubSeq(all, 1, Len(all)) = all
      BY <1>2
    <2> QED BY <1>1, <1>3, <1>5, <2>1
  <1> QED BY <1>4, <1>5
-----------------------------------------------------------------------------
(* What the lists of an identity hold, as long as none is full. *)

Rows(s, table) == {k \in DOMAIN s : s[k].table = table}

Holding(s, ns, n, w) ==
    {k \in ns : k <= n /\ \A m \in ns : m \in k..n => s[m].at - s[k].at <= w}

Failures(s, n) ==
    {k \in Rows(s, "login_events") :
        \A m \in Rows(s, "login_events") : m \in k..n => ~s[m].success}

LEMMA HoldingNext ==
    ASSUME NEW s, NEW n \in Nat \ {0}, NEW ns \in SUBSET Nat, NEW w \in Nat, n \in ns,
           NEW clock \in Nat, clock = s[n].at
    PROVE  /\ n \notin Holding(s, ns, n - 1, w)
           /\ Holding(s, ns, n, w)
                = {q \in Holding(s, ns, n - 1, w) \cup {n} : clock - s[q].at <= w}
  <1>1. n \notin Holding(s, ns, n - 1, w)
    BY DEF Holding
  <1>2. ASSUME NEW q \in ns
        PROVE  q \in Holding(s, ns, n, w)
                 <=> q \in Holding(s, ns, n - 1, w) \cup {n} /\ clock - s[q].at <= w
    <2>1. CASE q < n
      <3>1. \A m \in ns : m \in q..n <=> m \in q..n - 1 \/ m = n
        BY <2>1
      <3>2. q <= n - 1 /\ q <= n /\ q # n /\ q \in Nat
        BY <2>1
      <3> QED BY <3>1, <3>2 DEF Holding
    <2>2. CASE q = n
      <3>1. \A m \in ns : m \in q..n => m = n
        BY <2>2
      <3>2. s[n].at - s[n].at <= w /\ clock - s[n].at <= w
        OBVIOUS
      <3> QED BY <2>2, <3>1, <3>2 DEF Holding
    <2>3. CASE q > n
      <3>1. ~(q <= n) /\ ~(q <= n - 1) /\ q # n
        BY <2>3
      <3> QED BY <3>1 DEF Holding
    <2>4. q \in Nat
      OBVIOUS
    <2> QED BY <2>1, <2>2, <2>3, <2>4
  <1> QED BY <1>1, <1>2 DEF Holding

LEMMA HoldingSame ==
    ASSUME NEW s, NEW n \in Nat \ {0}, NEW ns \in SUBSET Nat, NEW w, n \notin ns
    PROVE  Holding(s, ns, n, w) = Holding(s, ns, n - 1, w)
  <1>1. \A q \in ns : (q <= n <=> q <= n - 1) /\ \A m \in ns : m \in q..n <=> m \in q..n - 1
    OBVIOUS
  <1> QED BY <1>1 DEF Holding

LEMMA FailuresNext ==
    ASSUME NEW s \in Seq(Events), NEW n \in 1..Len(s), NEW w
    PROVE  /\ Failures(s, n) \in SUBSET Nat
           /\ LoginAt(s, n) /\ ~s[n].success =>
                Failures(s, n) = Failures(s, n - 1) /\ n \in Failures(s, n)
           /\ LoginAt(s, n) /\ s[n].success => Holding(s, Failures(s, n), n, w) = {}
           /\ ~LoginAt(s, n) => Failures(s, n) = Failures(s, n - 1) /\ n \notin Failures(s, n)
  <1> PICK L : L = Rows(s, "login_events")
    OBVIOUS
  <1>1. L \in SUBSET Nat /\ n \in Nat \ {0} /\ (n \in L <=> LoginAt(s, n))
    BY DEF Rows, LoginAt
  <1>2. \A k \in L, m \in L : m \in k..n <=> m \in k..n - 1 \/ (m = n /\ k <= n)
    BY <1>1
  <1>3. CASE LoginAt(s, n) /\ ~s[n].success
    <2>1. Failures(s, n) = Failures(s, n - 1)
      BY <1>2, <1>3 DEF Failures
    <2>2. n \in Failures(s, n)
      <3>1. \A m \in L : m \in n..n => m = n
        BY <1>1
      <3> QED BY <1>1, <1>3, <3>1 DEF Failures
    <2> QED BY <1>1, <1>3, <2>1, <2>2 DEF Failures
  <1>4. CASE LoginAt(s, n) /\ s[n].success
    <2>1. \A k \in Failures(s, n) : ~(k <= n)
      <3>1. \A k \in L : k <= n => n \in k..n
        BY <1>1
      <3> QED BY <1>1, <1>4, <3>1 DEF Failures
    <2> QED BY <1>1, <1>4, <2>1 DEF Holding, Failures
  <1>5. CASE ~LoginAt(s, n)
    <2>1. Failures(s, n) = Failures(s, n - 1)
      BY <1>1, <1>2, <1>5 DEF Failures
    <2> QED BY <1>1, <1>5, <2>1 DEF Failures
  <1> QED BY <1>3, <1>4, <1>5

Counts(m, s, n) ==
    /\ Lists(m.transactions, Holding(s, Rows(s, "transactions"), n, VelocityWindow), s)
    /\ Lists(m.failedLogins, Holding(s, Failures(s, n), n, FailedLoginWindow), s)

HasRoom(m) == Len(m.transactions) < MaxRetained /\ Len(m.failedLogins) < MaxRetained

LEMMA CountsNext ==
    ASSUME NEW s \in Seq(Events), NEW n \in 1..Len(s), NEW m, Counts(m, s, n - 1),
           NEW e, e = s[n], NEW m2, Judged(m, e, m2), HasRoom(m2)
    PROVE  Counts(m2, s, n)
  <1> PICK P, F, v, f : /\ P = Rows(s, "transactions") /\ F = Failures(s, n)
                        /\ v = VelocityWindow /\ f = FailedLoginWindow
    OBVIOUS
  <1>1. n \in Nat \ {0} /\ e \in Events /\ P \in SUBSET Nat /\ F \in SUBSET Nat
        /\ v \in Nat /\ f \in Nat
    BY FailuresNext, ThresholdsAssumption DEF Rows
  <1>2. e.table \in {"login_events", "transactions"} /\ e.at \in Nat
    BY <1>1 DEF Events, ScoredLogins, ScoredPayments
  <1>3. /\ Lists(m.transactions, Holding(s, P, n - 1, v), s)
        /\ Lists(m.failedLogins, Holding(s, Failures(s, n - 1), n - 1, f), s)
    BY DEF Counts
  <1>4. CASE e.table = "transactions"
    <2>1. /\ m2.transactions = RecordAndPrune(m.transactions, e.at, v)
          /\ m2.failedLogins = m.failedLogins
      BY <1>4 DEF Judged, PaymentJudged
    <2>2. n \in P /\ ~LoginAt(s, n)
      BY <1>4 DEF Rows, LoginAt
    <2>3. F = Failures(s, n - 1) /\ n \notin F
      BY <2>2, FailuresNext
    <2>4. Holding(s, F, n, f) = Holding(s, F, n - 1, f)
      BY <1>1, <2>3, HoldingSame
    <2> PICK clock : clock = e.at
      OBVIOUS
    <2>5. /\ n \notin Holding(s, P, n - 1, v)
          /\ Holding(s, P, n, v) = {q \in Holding(s, P, n - 1, v) \cup {n} : clock - s[q].at <= v}
      BY <1>1, <1>2, <2>2, HoldingNext
    <2>6. Lists(m2.transactions, Holding(s, P, n, v), s)
      <3> PICK K : K = Holding(s, P, n - 1, v)
        OBVIOUS
      <3>1. Len(RecordAndPrune(m.transactions, clock, v)) < MaxRetained
        BY <2>1 DEF HasRoom
      <3>2. Lists(RecordAndPrune(m.transactions, clock, v),
                  {q \in K \cup {n} : clock - s[q].at <= v}, s)
        BY <1>1, <1>2, <1>3, <2>5, <3>1, RecordLists
      <3> QED BY <2>1, <2>5, <3>2
    <2> QED BY <1>3, <2>1, <2>3, <2>4, <2>6 DEF Counts
  <1>5. CASE e.table = "login_events"
    <2>1. /\ m2.failedLogins = FailedLoginsAfter(e, e.at, m)
          /\ m2.transactions = m.transactions
      BY <1>5 DEF Judged, LoginJudged
    <2>2. n \notin P /\ LoginAt(s, n) /\ e.success \in BOOLEAN
      BY <1>1, <1>5 DEF Rows, LoginAt, Events, ScoredLogins, ScoredPayments
    <2>3. Holding(s, P, n, v) = Holding(s, P, n - 1, v)
      BY <1>1, <2>2, HoldingSame
    <2>4. CASE e.success = TRUE
      <3>1. m2.failedLogins = <<>>
        BY <2>1, <2>4 DEF FailedLoginsAfter
      <3>2. Holding(s, F, n, f) = {}
        BY <2>2, <2>4, FailuresNext
      <3> QED BY <1>3, <2>1, <2>3, <3>1, <3>2, ListsNothing DEF Counts
    <2>5. CASE e.success = FALSE
      <3>1. m2.failedLogins = RecordAndPrune(m.failedLogins, e.at, f)
        BY <2>1, <2>5 DEF FailedLoginsAfter
      <3>2. F = Failures(s, n - 1) /\ n \in F
        BY <2>2, <2>5, FailuresNext
      <3> PICK clock : clock = e.at
        OBVIOUS
      <3>3. /\ n \notin Holding(s, F, n - 1, f)
            /\ Holding(s, F, n, f) = {q \in Holding(s, F, n - 1, f) \cup {n} : clock - s[q].at <= f}
        BY <1>1, <1>2, <3>2, HoldingNext
      <3>4. Lists(m2.failedLogins, Holding(s, F, n, f), s)
        <4> PICK K : K = Holding(s, F, n - 1, f)
          OBVIOUS
        <4>1. Len(RecordAndPrune(m.failedLogins, clock, f)) < MaxRetained
          BY <3>1 DEF HasRoom
        <4>2. Lists(RecordAndPrune(m.failedLogins, clock, f),
                    {q \in K \cup {n} : clock - s[q].at <= f}, s)
          BY <1>1, <1>2, <1>3, <3>2, <3>3, <4>1, RecordLists
        <4> QED BY <3>1, <3>3, <4>2
      <3> QED BY <1>3, <2>1, <2>3, <3>4 DEF Counts
    <2> QED BY <2>2, <2>4, <2>5
  <1> QED BY <1>2, <1>4, <1>5

LEMMA ReplayCounts ==
    ASSUME NEW s \in Seq(Events), NEW ms, IsReplay(ms, s), \A n \in 0..Len(s) : HasRoom(ms[n]),
           NEW n \in 0..Len(s)
    PROVE  Counts(ms[n], s, n)
  <1> PICK T : T = {k \in 0..Len(s) : ~Counts(ms[k], s, k)}
    OBVIOUS
  <1>1. Counts(ms[0], s, 0)
    <2>0. \A k \in 1..Len(s) : ~(k <= 0)
      OBVIOUS
    <2>1. \A ns \in SUBSET (1..Len(s)) : \A w : Holding(s, ns, 0, w) = {}
      BY <2>0 DEF Holding
    <2>2. Rows(s, "transactions") \in SUBSET (1..Len(s)) /\ Failures(s, 0) \in SUBSET (1..Len(s))
      BY DEF Rows, Failures
    <2>3. ms[0].transactions = <<>> /\ ms[0].failedLogins = <<>>
      BY DEF IsReplay, NoMemory
    <2> QED BY <2>1, <2>2, <2>3, ListsNothing DEF Counts
  <1>2. ASSUME T # {} PROVE FALSE
    <2>1. T \in SUBSET Nat
      OBVIOUS
    <2>2. PICK k \in T : \A j \in T : k <= j
      BY <1>2, <2>1, LeastNatural
    <2>3. k \in 1..Len(s) /\ k - 1 \in 0..Len(s) /\ k - 1 \notin T /\ k \in 0..Len(s)
      BY <1>1, <2>2
    <2>4. Counts(ms[k - 1], s, k - 1) /\ Judged(ms[k - 1], s[k], ms[k]) /\ HasRoom(ms[k])
      BY <2>3 DEF IsReplay
    <2>5. Counts(ms[k], s, k)
      BY <2>3, <2>4, CountsNext
    <2> QED BY <2>2, <2>5
  <1> QED BY <1>2

Roomy(s, m) ==
    \E ms : IsReplay(ms, s) /\ ms[Len(s)] = m /\ \A n \in 0..Len(s) : HasRoom(ms[n])

RInv == IInv /\ \A i \in Identities : Roomy(scored[i], memory[i])

(* No list has ever been as long as it may be.                             *)
NeverFull == \A i \in Identities : HasRoom(memory[i])

LEMMA RoomyExtended ==
    ASSUME NEW S, NEW s \in Seq(S), NEW e \in S, NEW m, Roomy(s, m), NEW m2, Judged(m, e, m2),
           HasRoom(m2)
    PROVE  Roomy(Append(s, e), m2)
  <1> PICK n, s2 : n = Len(s) /\ s2 = Append(s, e)
    OBVIOUS
  <1>1. n \in Nat /\ Len(s2) = n + 1
    OBVIOUS
  <1>2. PICK ms : IsReplay(ms, s) /\ ms[n] = m /\ \A k \in 0..n : HasRoom(ms[k])
    BY DEF Roomy
  <1>3. PICK ms2 : /\ IsReplay(ms2, s2) /\ ms2[n + 1] = m2
                   /\ \A k \in 0..n : ms2[k] = ms[k]
    BY <1>2, ReplayExtends
  <1>4. \A k \in 0..n + 1 : k \in 0..n \/ k = n + 1
    BY <1>1
  <1>5. \A k \in 0..n + 1 : HasRoom(ms2[k])
    BY <1>2, <1>3, <1>4
  <1>6. Roomy(s2, m2)
    BY <1>1, <1>3, <1>5 DEF Roomy
  <1> QED BY <1>6

LEMMA RoomStep == RInv /\ [Next]_vars /\ NeverFull' => RInv'
  <1> SUFFICES ASSUME RInv, [Next]_vars, NeverFull' PROVE RInv'
    OBVIOUS
  <1>0. IInv /\ IInv'
    BY StepTyped DEF RInv
  <1>1. CASE memory' = memory /\ scored' = scored
    BY <1>0, <1>1 DEF RInv
  <1>2. CASE \E topic \in {"login_events", "transactions"}, k \in 1..MaxInFlight : Score(topic, k)
    <2>1. PICK topic \in {"login_events", "transactions"}, k \in 1..MaxInFlight : Score(topic, k)
      BY <1>2
    <2>2. PICK row, i, e, m2 : Moved(topic, k, row, i, e, m2)
      BY <1>0, <2>1, ScoreMoves DEF IInv
    <2>3. i \in Identities /\ e \in Events /\ Judged(memory[i], e, m2)
      BY <2>2 DEF Moved, Events
    <2>4. /\ memory'[i] = m2 /\ scored'[i] = Append(scored[i], e)
          /\ \A j \in Identities \ {i} : memory'[j] = memory[j] /\ scored'[j] = scored[j]
      BY <1>0, <2>2, <2>3 DEF Moved, IInv, TypeOK, EngineOk
    <2>5. HasRoom(m2)
      BY <2>3, <2>4 DEF NeverFull
    <2>6. Roomy(scored'[i], memory'[i])
      <3> PICK s, m : s = scored[i] /\ m = memory[i]
        OBVIOUS
      <3>1. s \in Seq(Events) /\ Roomy(s, m)
        BY <1>0, <2>3 DEF RInv, IInv, TypeOK, EngineOk, Events
      <3>2. Roomy(Append(s, e), m2)
        BY <2>3, <2>5, <3>1, RoomyExtended
      <3> QED BY <2>4, <3>2
    <2>7. \A j \in Identities \ {i} : Roomy(scored'[j], memory'[j])
      BY <2>4 DEF RInv
    <2> QED BY <1>0, <2>3, <2>6, <2>7 DEF RInv
  <1>3. [Next]_vars =>
          \/ memory' = memory /\ scored' = scored
          \/ \E topic \in {"login_events", "transactions"}, k \in 1..MaxInFlight : Score(topic, k)
    BY DEF Next, Tick, Trigger, TaskStep, CustomerActs, EmployeeActs, Restart, ReadAccount,
           vars, engine
  <1> QED BY <1>1, <1>2, <1>3

LEMMA RoomInit == Init /\ NeverFull => RInv
  <1> SUFFICES ASSUME Init, NeverFull PROVE RInv
    OBVIOUS
  <1>1. IInv
    BY InitTyped
  <1>2. ASSUME NEW i \in Identities PROVE Roomy(scored[i], memory[i])
    <2> PICK ms : ms = [n \in 0..0 |-> NoMemory]
      OBVIOUS
    <2>1. scored[i] = <<>> /\ memory[i] = NoMemory /\ ms[0] = NoMemory
      BY DEF Init
    <2>2. IsReplay(ms, <<>>) /\ ms[Len(<<>>)] = NoMemory
      BY <2>1 DEF IsReplay
    <2>3. \A n \in 0..Len(<<>>) : HasRoom(ms[n])
      BY <2>1 DEF NeverFull
    <2> QED BY <2>1, <2>2, <2>3 DEF Roomy
  <1> QED BY <1>1, <1>2 DEF RInv

(* The scored rows of an identity, and what their memories held.           *)
LEMMA RowsCounted ==
    ASSUME RInv, NEW i \in Identities, NEW n, n \in DOMAIN scored[i]
    PROVE  \E m, m2 : /\ Judged(m, scored[i][n], m2) /\ Counts(m2, scored[i], n)
                      /\ scored[i][n] \in Events
  <1> PICK s : s = scored[i]
    OBVIOUS
  <1>1. s \in Seq(Events) /\ n \in 1..Len(s) /\ s[n] \in Events
    BY DEF RInv, IInv, TypeOK, EngineOk, Events
  <1>2. PICK ms : IsReplay(ms, s) /\ \A k \in 0..Len(s) : HasRoom(ms[k])
    BY DEF RInv, Roomy
  <1>3. n \in 0..Len(s)
    BY <1>1
  <1>4. Counts(ms[n], s, n)
    BY <1>1, <1>2, <1>3, ReplayCounts
  <1>5. Judged(ms[n - 1], s[n], ms[n])
    BY <1>1, <1>2 DEF IsReplay
  <1> QED BY <1>1, <1>4, <1>5

LEMMA HeldIs ==
    \A i, ns, n, w : Held(i, ns, n, w) = Holding(scored[i], ns, n, w)
  BY DEF Held, Holding

LEMMA InIs == \A i, table : In(i, table) = Rows(scored[i], table)
  BY DEF In, Rows

LEMMA PaymentsCounted == RInv => VelocityIsBurst
  <1> SUFFICES ASSUME RInv, NEW i \in Identities, NEW n \in In(i, "transactions")
               PROVE  "VELOCITY_VIOLATION" \in scored[i][n].raised
                        <=> Cardinality(Held(i, In(i, "transactions"), n, VelocityWindow))
                              >= VelocityThreshold
    BY DEF VelocityIsBurst
  <1> PICK s, K : s = scored[i] /\ K = Held(i, In(i, "transactions"), n, VelocityWindow)
    OBVIOUS
  <1>1. K = Holding(s, Rows(s, "transactions"), n, VelocityWindow)
    BY HeldIs, InIs
  <1>2. n \in DOMAIN s /\ s[n].table = "transactions"
    BY DEF In
  <1>3. PICK m, m2 : Judged(m, s[n], m2) /\ Counts(m2, s, n)
    BY <1>2, RowsCounted
  <1>4. "VELOCITY_VIOLATION" \in s[n].raised <=> Len(m2.transactions) >= VelocityThreshold
    BY <1>2, <1>3 DEF Judged, PaymentJudged
  <1>5. Cardinality(K) = Len(m2.transactions)
    BY <1>1, <1>3, ListsCounts DEF Counts
  <1> QED BY <1>4, <1>5

LEMMA FailuresCounted == RInv => FailedLoginsSinceSuccess
  <1> DEFINE since(i, n) == {k \in In(i, "login_events") :
                               \A m \in In(i, "login_events") : m \in k..n => ~scored[i][m].success}
  <1> SUFFICES ASSUME RInv, NEW i \in Identities, NEW n \in In(i, "login_events")
               PROVE  "MULTIPLE_FAILED_LOGINS" \in scored[i][n].raised
                        <=> /\ ~scored[i][n].success
                            /\ Cardinality(Held(i, since(i, n), n, FailedLoginWindow))
                                 >= FailedLoginThreshold
    BY DEF FailedLoginsSinceSuccess
  <1> PICK s, e, K : s = scored[i] /\ e = s[n] /\ K = Held(i, since(i, n), n, FailedLoginWindow)
    OBVIOUS
  <1>1. K = Holding(s, Failures(s, n), n, FailedLoginWindow)
    <2>1. since(i, n) = Failures(s, n)
      BY InIs DEF Failures
    <2> HIDE DEF since
    <2> QED BY <2>1, HeldIs
  <1> HIDE DEF since
  <1>2. n \in DOMAIN s /\ e.table = "login_events"
    BY DEF In
  <1>3. PICK m, m2 : Judged(m, e, m2) /\ Counts(m2, s, n) /\ e \in Events
    BY <1>2, RowsCounted
  <1>4. e.success \in BOOLEAN
    BY <1>2, <1>3 DEF Events, ScoredLogins, ScoredPayments
  <1>5. e.raised = LoginIndicators(e, e.at, m) /\ m2.failedLogins = FailedLoginsAfter(e, e.at, m)
    BY <1>2, <1>3 DEF Judged, LoginJudged
  <1>6. "MULTIPLE_FAILED_LOGINS" \in e.raised
          <=> e.success = FALSE /\ Len(m2.failedLogins) >= FailedLoginThreshold
    BY <1>5 DEF LoginIndicators, IndicatorNames
  <1>7. Cardinality(K) = Len(m2.failedLogins)
    BY <1>1, <1>3, ListsCounts DEF Counts
  <1> QED BY <1>4, <1>6, <1>7

-----------------------------------------------------------------------------
(* Who the mule account belongs to. *)

Owner == owner[CentralMule]

MuleKnown ==
    /\ accountMap[CentralMule] \in {None, Owner}
    /\ \A k \in 1..Len(topics["accounts"]) :
         topics["accounts"][k].account = CentralMule => topics["accounts"][k].customer = Owner

(* Entries of one account, and its owner.                                  *)
OneEntry(x, v) ==
    \E e : /\ x \in Seq({e})
           /\ e.account = CentralMule => e.customer = v

LEMMA TwoEntries ==
    ASSUME NEW a, NEW b, NEW v, OneEntry(a, v), OneEntry(b, v)
    PROVE  \A k \in 1..Len(a \o b) :
             (a \o b)[k].account = CentralMule => (a \o b)[k].customer = v
  <1>1. PICK e : a \in Seq({e}) /\ (e.account = CentralMule => e.customer = v)
    BY DEF OneEntry
  <1>2. PICK f : b \in Seq({f}) /\ (f.account = CentralMule => f.customer = v)
    BY DEF OneEntry
  <1>3. a \in Seq({e}) /\ b \in Seq({f})
    BY <1>1, <1>2
  <1>4. ASSUME NEW k \in 1..Len(a \o b) PROVE (a \o b)[k] \in {e, f}
    <2>1. Len(a) \in Nat /\ Len(b) \in Nat /\ Len(a \o b) = Len(a) + Len(b)
      BY <1>3
    <2>2. CASE k \in 1..Len(a)
      <3>1. (a \o b)[k] = a[k] /\ a[k] \in {e}
        BY <1>3, <2>2
      <3> QED BY <3>1
    <2>3. CASE k \notin 1..Len(a)
      <3>1. k - Len(a) \in 1..Len(b)
        BY <2>1, <2>3
      <3>2. (a \o b)[k] = b[k - Len(a)] /\ b[k - Len(a)] \in {f}
        BY <1>3, <2>1, <2>3, <3>1
      <3> QED BY <3>2
    <2> QED BY <2>2, <2>3
  <1> QED BY <1>1, <1>2, <1>4

LEMMA MuleSent ==
    ASSUME TypeOK, MuleKnown, NEW r, RequestOk(r), Sent(r), accountMap' = accountMap
    PROVE  MuleKnown' /\ (Owner # None => Owner' = Owner)
  <1>0. CentralMule \in Accounts
    BY DEF Accounts
  <1>1. CASE ~TransferAdded(r)
    <2>1. topics'["accounts"] = topics["accounts"] /\ owner' = owner
      BY <1>1 DEF Sent, LoginAdded, NothingAdded, TypeOK, TopicsOk, Topics
    <2> QED BY <2>1 DEF MuleKnown, Owner
  <1>2. CASE TransferAdded(r)
    <2> PICK log, new : log = topics["accounts"] /\ new = AccountRows(r)
      OBVIOUS
    <2>1. log \in Seq(AccountEntries) /\ topics'["accounts"] = log \o new /\ owner' = Opened(r)
      BY <1>2 DEF TransferAdded, TypeOK, TopicsOk, Topics
    <2>2. Owner' = Opened(r)[CentralMule] /\ (Owner # None => Owner' = Owner)
      BY <1>0, <2>1 DEF Opened, Owner
    <2>3. ASSUME NEW a PROVE OneEntry(AccountRow(r, a), Owner')
      <3> PICK e, v : /\ e = [table |-> "accounts", account |-> a, customer |-> Opened(r)[a]]
                      /\ v = Owner'
        OBVIOUS
      <3>1. AccountRow(r, a) = <<e>> \/ AccountRow(r, a) = <<>>
        BY DEF AccountRow
      <3>2. e.account = CentralMule => e.customer = v
        BY <2>2
      <3>3. <<e>> \in Seq({e}) /\ <<>> \in Seq({e})
        OBVIOUS
      <3>4. AccountRow(r, a) \in Seq({e})
        BY <3>1, <3>3
      <3>5. OneEntry(AccountRow(r, a), v)
        BY <3>2, <3>4 DEF OneEntry
      <3> QED BY <3>5
    <2>4. \A k \in 1..Len(new) : new[k].account = CentralMule => new[k].customer = Owner'
      <3> PICK a, b, v : a = AccountRow(r, r.from) /\ b = AccountRow(r, r.to) /\ v = Owner'
        OBVIOUS
      <3>1. new = a \o b
        BY DEF AccountRows
      <3>2. OneEntry(a, v) /\ OneEntry(b, v)
        BY <2>3
      <3> QED BY <3>1, <3>2, TwoEntries
    <2>5. new \in Seq(AccountEntries)
      BY <1>2, AccountRowsTyped DEF TransferAdded, RequestOk, TypeOK
    <2>6. \A k \in 1..Len(log) : log[k].account = CentralMule => log[k].customer = Owner'
      <3>1. \A k \in 1..Len(log) : log[k] \in AccountEntries
        BY <2>1
      <3>2. \A k \in 1..Len(log) : log[k].customer # None
        BY <3>1, NamesAssumption DEF AccountEntries
      <3> QED BY <2>2, <3>2 DEF MuleKnown
    <2>7. \A k \in 1..Len(log \o new) :
            \/ k \in 1..Len(log) /\ (log \o new)[k] = log[k]
            \/ k - Len(log) \in 1..Len(new) /\ (log \o new)[k] = new[k - Len(log)]
      BY <2>1, <2>5
    <2>8. \A k \in 1..Len(log \o new) :
            (log \o new)[k].account = CentralMule => (log \o new)[k].customer = Owner'
      BY <2>4, <2>6, <2>7
    <2>9. accountMap'[CentralMule] \in {None, Owner'}
      BY <2>2 DEF MuleKnown
    <2> QED BY <2>1, <2>2, <2>8, <2>9 DEF MuleKnown, Owner
  <1> QED BY <1>1, <1>2

LEMMA MuleRead ==
    ASSUME TypeOK, MuleKnown, ReadAccount
    PROVE  MuleKnown' /\ Owner' = Owner
  <1> PICK log, row : log = topics["accounts"] /\ row = Head(log)
    OBVIOUS
  <1>1. log \in Seq(AccountEntries) /\ log # <<>> /\ row = log[1] /\ 1 \in 1..Len(log)
        /\ row \in AccountEntries
    BY DEF ReadAccount, TypeOK, TopicsOk
  <1>2. accountMap' = [accountMap EXCEPT ![row.account] = row.customer] /\ owner' = owner
        /\ topics'["accounts"] = Tail(log)
    BY DEF ReadAccount, TypeOK, TopicsOk, Topics
  <1>3. \A k \in 1..Len(Tail(log)) : k + 1 \in 1..Len(log) /\ Tail(log)[k] = log[k + 1]
    BY <1>1
  <1>4. row.account = CentralMule => row.customer = Owner
    BY <1>1 DEF MuleKnown
  <1>5. accountMap'[CentralMule] \in {None, Owner}
    BY <1>2, <1>4 DEF MuleKnown, TypeOK, OwnersOk, Accounts
  <1> QED BY <1>2, <1>3, <1>5 DEF MuleKnown, Owner
-----------------------------------------------------------------------------
(* The payments out of the mule account, queued and scored. *)

IsMule(e) == e.table = "transactions" /\ e.from = CentralMule
Mules(s) == {n \in DOMAIN s : IsMule(s[n])}
Tally(e) == IF IsMule(e) THEN 1 ELSE 0

LEMMA MulesFinite ==
    ASSUME NEW S, NEW s \in Seq(S)
    PROVE  IsFiniteSet(Mules(s)) /\ Cardinality(Mules(s)) \in Nat /\ Mules(s) \in SUBSET (1..Len(s))
  <1>1. Mules(s) \in SUBSET (1..Len(s)) /\ Len(s) \in Nat
    BY DEF Mules
  <1>2. IsFiniteSet(1..Len(s))
    BY <1>1, FS_Interval
  <1> QED BY <1>1, <1>2, FS_Subset, FS_CardinalityType

LEMMA MulesAppended ==
    ASSUME NEW S, NEW s \in Seq(S), NEW e \in S
    PROVE  Cardinality(Mules(Append(s, e))) = Cardinality(Mules(s)) + Tally(e)
  <1> PICK n, s2 : n = Len(s) /\ s2 = Append(s, e)
    OBVIOUS
  <1>1. /\ n \in Nat /\ DOMAIN s = 1..n /\ DOMAIN s2 = 1..n + 1 /\ s2[n + 1] = e
        /\ \A k \in 1..n : s2[k] = s[k]
    OBVIOUS
  <1>2. \A k : k \in 1..n + 1 <=> k \in 1..n \/ k = n + 1
    BY <1>1
  <1>3. n + 1 \notin Mules(s)
    BY <1>1 DEF Mules
  <1>4. CASE IsMule(e)
    <2>1. Mules(s2) = Mules(s) \cup {n + 1}
      BY <1>1, <1>2, <1>4 DEF Mules
    <2>2. Cardinality(Mules(s) \cup {n + 1}) = Cardinality(Mules(s)) + 1
      BY <1>3, MulesFinite, FS_AddElement
    <2> QED BY <1>4, <2>1, <2>2 DEF Tally
  <1>5. CASE ~IsMule(e)
    <2>1. Mules(s2) = Mules(s)
      BY <1>1, <1>2, <1>5 DEF Mules
    <2> QED BY <1>5, <2>1, MulesFinite DEF Tally
  <1> QED BY <1>4, <1>5

LEMMA MulesRemoved ==
    ASSUME NEW S, NEW s \in Seq(S), NEW k \in 1..Len(s)
    PROVE  Cardinality(Mules(SE!RemoveAt(s, k))) = Cardinality(Mules(s)) - Tally(s[k])
  <1> PICK n, s2, e : n = Len(s) /\ s2 = SE!RemoveAt(s, k) /\ e = s[k]
    OBVIOUS
  <1>1. n \in Nat /\ k \in 1..n /\ DOMAIN s = 1..n
    OBVIOUS
  <1>2. s2 \in Seq(S) /\ Len(s2) = n - 1 /\ \A j \in 1..n - 1 : s2[j] = s[Shift(k, j)]
    BY RemoveAtFacts DEF Shift
  <1>3. DOMAIN s2 = 1..n - 1
    BY <1>2
  <1>4. /\ \A j \in 1..n - 1 : Shift(k, j) \in 1..n \ {k}
        /\ \A j, i \in 1..n - 1 : Shift(k, j) = Shift(k, i) => j = i
    BY <1>1 DEF Shift
  <1>5. \A i \in 1..n \ {k} : \E j \in 1..n - 1 : Shift(k, j) = i
    <2>1. ASSUME NEW i \in 1..n \ {k} PROVE \E j \in 1..n - 1 : Shift(k, j) = i
      <3>1. CASE i < k
        BY <1>1, <3>1 DEF Shift
      <3>2. CASE i > k
        <4>1. i - 1 \in 1..n - 1 /\ Shift(k, i - 1) = i
          BY <1>1, <3>2 DEF Shift
        <4> QED BY <4>1
      <3> QED BY <1>1, <2>1, <3>1, <3>2
    <2> QED BY <2>1
  <1> PICK A, B : A = Mules(s2) /\ B = Mules(s) \ {k}
    OBVIOUS
  <1>6. ExistsBijection(A, B)
    <2> PICK f : f = [j \in A |-> Shift(k, j)]
      OBVIOUS
    <2>1. A \in SUBSET (1..n - 1) /\ \A j \in 1..n - 1 : j \in A <=> IsMule(s[Shift(k, j)])
      BY <1>2, <1>3 DEF Mules
    <2>2. \A i \in 1..n \ {k} : i \in B <=> IsMule(s[i])
      BY <1>1 DEF Mules
    <2>3. B \in SUBSET (1..n \ {k})
      BY <1>1 DEF Mules
    <2>4. f \in [A -> B]
      BY <1>4, <2>1, <2>2
    <2>5. \A j, i \in A : f[j] = f[i] => j = i
      BY <1>4, <2>1
    <2>6. \A i \in B : \E j \in A : f[j] = i
      BY <1>5, <2>1, <2>2, <2>3
    <2>7. f \in Bijection(A, B)
      BY <2>4, <2>5, <2>6 DEF Bijection, Injection, Surjection, IsInjective
    <2> QED BY <2>7 DEF ExistsBijection
  <1>7. IsFiniteSet(A) /\ IsFiniteSet(Mules(s)) /\ Cardinality(Mules(s)) \in Nat
    BY <1>2, MulesFinite
  <1>8. Cardinality(A) = Cardinality(B)
    BY <1>6, <1>7, FS_Bijection
  <1>9. CASE IsMule(e)
    <2>1. k \in Mules(s)
      BY <1>1, <1>9 DEF Mules
    <2>2. Cardinality(Mules(s) \ {k}) = Cardinality(Mules(s)) - 1
      BY <1>7, <2>1, FS_RemoveElement
    <2>3. Cardinality(Mules(s2)) = Cardinality(Mules(s)) - 1
      BY <1>8, <2>2
    <2> QED BY <1>9, <2>3 DEF Tally
  <1>10. CASE ~IsMule(e)
    <2>1. B = Mules(s)
      BY <1>10 DEF Mules
    <2>2. Cardinality(Mules(s2)) = Cardinality(Mules(s))
      BY <1>8, <2>1
    <2> QED BY <1>7, <1>10, <2>2 DEF Tally
  <1> QED BY <1>9, <1>10

LEMMA SmurfedIs == \A i : Smurfed(i) = Mules(scored[i])
  BY DEF Smurfed, In, Mules, IsMule

OwnersShare == IF Owner = None THEN 0 ELSE Cardinality(Mules(scored[Owner]))
Total == Cardinality(Mules(topics["transactions"])) + Cardinality(Mules(scored[CentralMule]))
           + OwnersShare

Numbered ==
    /\ Cardinality(Mules(topics["transactions"])) \in Nat
    /\ \A i \in Identities : Cardinality(Mules(scored[i])) \in Nat
    /\ CentralMule \in Identities /\ (Owner # None => Owner \in Identities)
    /\ OwnersShare \in Nat /\ Total \in Nat

LEMMA TotalIsNumber == TypeOK => Numbered
  <1> SUFFICES ASSUME TypeOK PROVE Numbered
    OBVIOUS
  <1>1. Cardinality(Mules(topics["transactions"])) \in Nat
    <2>1. topics["transactions"] \in Seq(PaymentRows)
      BY DEF TypeOK, TopicsOk
    <2> QED BY <2>1, MulesFinite
  <1>2. ASSUME NEW i \in Identities PROVE Cardinality(Mules(scored[i])) \in Nat
    <2>1. scored[i] \in Seq(Events)
      BY DEF TypeOK, EngineOk, Events
    <2> QED BY <2>1, MulesFinite
  <1>3. CentralMule \in Identities /\ (Owner # None => Owner \in Identities)
    BY AccountFacts DEF TypeOK, OwnersOk, Owner
  <1>4. OwnersShare \in Nat
    BY <1>2, <1>3 DEF OwnersShare
  <1> QED BY <1>1, <1>2, <1>3, <1>4 DEF Total, Numbered

LEMMA SentTotal ==
    ASSUME TypeOK, TypeOK', MuleKnown, NEW r, RequestOk(r), Sent(r), UNCHANGED engine
    PROVE  Total' >= Total /\ (TransferAdded(r) /\ r.from = CentralMule => Total' >= Total + 1)
  <1> PICK log, log2 : log = topics["transactions"] /\ log2 = topics'["transactions"]
    OBVIOUS
  <1>1. scored' = scored /\ (Owner # None => Owner' = Owner)
    BY MuleSent DEF engine
  <1>2. /\ Cardinality(Mules(log)) \in Nat /\ Cardinality(Mules(log2)) \in Nat
        /\ OwnersShare \in Nat /\ OwnersShare' \in Nat
        /\ Cardinality(Mules(scored[CentralMule])) \in Nat
    <2>1. Numbered /\ Numbered'
      BY TotalIsNumber, PTL
    <2> QED BY <2>1 DEF Numbered
  <1>3. OwnersShare' >= OwnersShare
    <2>1. CASE Owner = None
      BY <1>2, <2>1 DEF OwnersShare
    <2>2. CASE Owner # None
      BY <1>1, <1>2, <2>2 DEF OwnersShare
    <2> QED BY <2>1, <2>2
  <1>4. CASE TransferAdded(r)
    <2> PICK row : row = TransferRow(r)
      OBVIOUS
    <2>1. log \in Seq(PaymentRows) /\ log2 = Append(log, row)
      BY <1>4 DEF TransferAdded, TypeOK, TopicsOk, Topics
    <2>2. row \in PaymentRows
      BY <1>4, TransferRowTyped DEF TransferAdded, RequestOk, TypeOK
    <2>3. Cardinality(Mules(log2)) = Cardinality(Mules(log)) + Tally(row)
      BY <2>1, <2>2, MulesAppended
    <2>4. Tally(row) \in Nat /\ (r.from = CentralMule => Tally(row) = 1)
      BY DEF Tally, IsMule, TransferRow
    <2> QED BY <1>1, <1>2, <1>3, <2>3, <2>4 DEF Total
  <1>5. CASE ~TransferAdded(r)
    <2>1. log2 = log
      BY <1>5 DEF Sent, LoginAdded, NothingAdded, TypeOK, TopicsOk, Topics
    <2> QED BY <1>1, <1>2, <1>3, <1>5, <2>1 DEF Total
  <1> QED BY <1>4, <1>5

LEMMA MovedTotal ==
    ASSUME TypeOK, MuleKnown, owner' = owner, NEW topic, NEW k, NEW row, NEW i, NEW e, NEW m2,
           Moved(topic, k, row, i, e, m2)
    PROVE  Total' >= Total
  <1> PICK log, log2, mine, mine2 :
        /\ log = topics["transactions"] /\ log2 = topics'["transactions"]
        /\ mine = scored[i] /\ mine2 = scored'[i]
    OBVIOUS
  <1>1. i \in Identities /\ e \in Events
    BY DEF Moved, Events
  <1>2. mine \in Seq(Events) /\ mine2 = Append(mine, e)
        /\ \A u \in Identities \ {i} : scored'[u] = scored[u]
    BY <1>1 DEF Moved, TypeOK, EngineOk, Events
  <1>3. Cardinality(Mules(mine2)) = Cardinality(Mules(mine)) + Tally(e)
    BY <1>1, <1>2, MulesAppended
  <1>4. /\ Cardinality(Mules(log)) \in Nat
        /\ \A u \in Identities : Cardinality(Mules(scored[u])) \in Nat
        /\ CentralMule \in Identities /\ (Owner # None => Owner \in Identities)
        /\ OwnersShare \in Nat
    BY TotalIsNumber DEF Numbered
  <1>5. Tally(e) \in {0, 1} /\ Owner' = Owner
    BY DEF Tally, Owner
  <1>6. \A u \in Identities : Cardinality(Mules(scored'[u]))
                                = Cardinality(Mules(scored[u])) + (IF u = i THEN Tally(e) ELSE 0)
    <2>1. ASSUME NEW u \in Identities, u # i
          PROVE  Cardinality(Mules(scored'[u])) = Cardinality(Mules(scored[u])) + 0
      BY <1>2, <1>4, <2>1
    <2> QED BY <1>3, <2>1
  <1>7. Cardinality(Mules(log2)) = Cardinality(Mules(log)) - Tally(e)
    <2>1. CASE topic = "login_events"
      <3>1. log2 = log
        BY <2>1 DEF Moved, TypeOK, TopicsOk, Topics
      <3>2. Tally(e) = 0
        BY <2>1 DEF Moved, ScoredLogins, Tally, IsMule
      <3> QED BY <1>4, <3>1, <3>2
    <2>2. CASE topic = "transactions"
      <3>1. log \in Seq(PaymentRows) /\ k \in 1..Len(log) /\ log2 = SE!RemoveAt(log, k)
            /\ log[k] = row
        BY <2>2 DEF Moved, TypeOK, TopicsOk, Topics
      <3>2. Cardinality(Mules(log2)) = Cardinality(Mules(log)) - Tally(log[k])
        BY <3>1, MulesRemoved
      <3>3. Tally(row) = Tally(e)
        BY <2>2 DEF Moved, ScoredPayments, PaymentRows, Tally, IsMule
      <3> QED BY <3>1, <3>2, <3>3
    <2> QED BY <2>1, <2>2 DEF Moved
  <1>8. IsMule(e) => i = CentralMule \/ (Owner # None /\ i = Owner)
    <2>1. ASSUME IsMule(e) PROVE topic = "transactions" /\ row.from = CentralMule
      BY <2>1 DEF Moved, ScoredLogins, IsMule
    <2> QED BY <2>1 DEF Moved, MuleKnown
  <1> PICK a, b, c, x, t : /\ a = Cardinality(Mules(log)) /\ b = Cardinality(Mules(scored[CentralMule]))
                           /\ c = OwnersShare /\ x = Tally(e) /\ t = OwnersShare'
    OBVIOUS
  <1>9. a \in Nat /\ b \in Nat /\ c \in Nat /\ x \in {0, 1}
    BY <1>4, <1>5
  <1>10. Cardinality(Mules(scored'[CentralMule])) = b + (IF CentralMule = i THEN x ELSE 0)
    BY <1>4, <1>6
  <1>11. t = c + (IF Owner # None /\ Owner = i THEN x ELSE 0)
    BY <1>4, <1>5, <1>6, <1>9 DEF OwnersShare
  <1>12. x = 1 => i = CentralMule \/ (Owner # None /\ i = Owner)
    BY <1>8 DEF Tally
  <1>13. Total = a + b + c
    BY DEF Total
  <1>14. Total' = (a - x) + (b + (IF CentralMule = i THEN x ELSE 0)) + t
    BY <1>7, <1>10 DEF Total
  <1> QED BY <1>9, <1>11, <1>12, <1>13, <1>14

(* What a smurfing task has paid out, at the least. *)
Smurfing(t) == t \in DOMAIN tasks /\ tasks[t].scenario = "aml_smurfing"
PaidOut(t)  == tasks[t].next - 1 - Repeat["fan_in"]

SmurfsCounted == faults = 0 => \A t : Smurfing(t) => PaidOut(t) <= Total

CInv == IInv /\ MuleKnown /\ SmurfsCounted

LEMMA TwoLoops ==
    ASSUME NEW a \in Nat, NEW b \in Nat, NEW x, NEW y
    PROVE  /\ Len(Times(a, x) \o Times(b, y)) = a + b
           /\ \A n \in a + 1..a + b : (Times(a, x) \o Times(b, y))[n] = y
  <1> PICK u : u = Times(a, x)
    OBVIOUS
  <1> PICK v : v = Times(b, y)
    OBVIOUS
  <1>1. u \in Seq({x}) /\ Len(u) = a
    BY DEF Times
  <1>2. v \in Seq({y}) /\ Len(v) = b /\ \A n \in 1..b : v[n] = y
    BY DEF Times
  <1>3. ASSUME NEW n \in a + 1..a + b PROVE (u \o v)[n] = y
    <2>1. n - a \in 1..b /\ n \in 1..a + b /\ ~(n \in 1..a)
      OBVIOUS
    <2>2. (u \o v)[n] = v[n - a]
      BY <1>1, <1>2, <2>1
    <2>3. v[n - a] = y
      BY <1>2, <2>1
    <2> QED BY <2>2, <2>3
  <1>4. Len(u \o v) = a + b
    BY <1>1, <1>2, ConcatProperties
  <1> QED BY <1>3, <1>4

LEMMA SmurfScript ==
    ASSUME TypeOK, NEW t, Smurfing(t)
    PROVE  /\ Repeat["fan_in"] \in Nat /\ Repeat["smurf"] \in Nat
           /\ Len(ScriptOf(t)) = Repeat["fan_in"] + Repeat["smurf"]
           /\ \A n \in Repeat["fan_in"] + 1..Repeat["fan_in"] + Repeat["smurf"] :
                \A r \in ScriptOf(t)[n] : r.op = "transfer" /\ r.from = CentralMule
  <1> DEFINE x == {Transfer(c, AccountOf(c), CentralMule, 1000) : c \in tasks[t].users}
             y == {Transfer(MuleOperator, CentralMule, AccountOf(tasks[t].target), 9500)}
             a == Repeat["fan_in"]
             b == Repeat["smurf"]
  <1>1. a \in Nat /\ b \in Nat
    BY RepeatAssumption DEF Loops
  <1>2. ScriptOf(t) = MuleAndStructuring(tasks[t].users, tasks[t].target)
    BY DEF ScriptOf, Script, Smurfing
  <1>3. ScriptOf(t) = Times(a, x) \o Times(b, y)
    BY <1>2 DEF MuleAndStructuring
  <1>4. \A r \in y : r.op = "transfer" /\ r.from = CentralMule
    BY DEF Transfer
  <1> HIDE DEF x, y, a, b
  <1>5. Len(ScriptOf(t)) = a + b /\ \A n \in a + 1..a + b : ScriptOf(t)[n] = y
    BY SMTT(30), <1>1, <1>3, TwoLoops
  <1>6. \A n \in a + 1..a + b : \A r \in ScriptOf(t)[n] : r.op = "transfer" /\ r.from = CentralMule
    BY <1>4, <1>5
  <1> QED BY <1>1, <1>5, <1>6 DEF a, b

LEMMA PaidOutIsNumber == TypeOK => \A t : Smurfing(t) => PaidOut(t) \in Int
  <1> SUFFICES ASSUME TypeOK, NEW t, Smurfing(t) PROVE PaidOut(t) \in Int
    OBVIOUS
  <1>1. tasks[t] \in TaskType
    BY DEF Smurfing, TypeOK, TasksOk
  <1>2. tasks[t].next \in Nat
    BY <1>1 DEF TaskType
  <1>3. Repeat["fan_in"] \in Nat
    BY RepeatAssumption DEF Loops
  <1> QED BY <1>2, <1>3 DEF PaidOut

(* A task has paid out no more than before, or than there is.              *)
Covered(t) ==
    \/ PaidOut(t)' <= 0
    \/ Smurfing(t) /\ PaidOut(t)' = PaidOut(t)
    \/ PaidOut(t)' <= Total'

LEMMA CoveredKept ==
    ASSUME CInv, IInv', MuleKnown', Total' >= Total, faults' >= faults,
           \A t : faults' = 0 /\ Smurfing(t)' => Covered(t)
    PROVE  CInv'
  <1>1. faults \in Nat /\ TypeOK /\ TypeOK'
    BY DEF CInv, IInv, TypeOK, ActorsOk
  <1>2. Total \in Nat /\ Total' \in Nat
    <2>1. Numbered /\ Numbered'
      BY <1>1, TotalIsNumber, PTL
    <2> QED BY <2>1 DEF Numbered
  <1>3. ASSUME faults' = 0, NEW t, Smurfing(t)' PROVE PaidOut(t)' <= Total'
    <2> PICK p, q : p = PaidOut(t)' /\ q = PaidOut(t)
      OBVIOUS
    <2>1. faults = 0
      BY <1>1, <1>3
    <2>2. Smurfing(t) => q <= Total /\ q \in Int
      BY <1>1, <2>1, PaidOutIsNumber DEF CInv, SmurfsCounted
    <2>3. p <= 0 \/ (Smurfing(t) /\ p = q) \/ p <= Total'
      BY <1>3 DEF Covered
    <2>4. p \in Int
      <3>1. PaidOut(t)' = tasks'[t].next - 1 - Repeat["fan_in"]
        BY DEF PaidOut
      <3>2. tasks'[t] \in TaskType
        BY <1>1, <1>3 DEF Smurfing, TypeOK, TasksOk
      <3>3. tasks'[t].next \in Nat /\ Repeat["fan_in"] \in Nat
        BY <3>2, RepeatAssumption DEF TaskType, Loops
      <3> QED BY <3>1, <3>3
    <2> QED BY <1>2, <2>2, <2>3, <2>4
  <1> QED BY <1>3 DEF CInv, SmurfsCounted

LEMMA NewIsCovered ==
    ASSUME NEW t, tasks'[t].next = 1
    PROVE  Covered(t)
  <1>1. Repeat["fan_in"] \in Nat
    BY RepeatAssumption DEF Loops
  <1>2. PaidOut(t)' = 1 - 1 - Repeat["fan_in"]
    BY DEF PaidOut
  <1> QED BY <1>1, <1>2 DEF Covered

LEMMA SameIsCovered ==
    ASSUME NEW t, t \in DOMAIN tasks, tasks'[t] = tasks[t], Smurfing(t)'
    PROVE  Covered(t)
  BY DEF Covered, PaidOut, Smurfing

LEMMA LaunchedAtStart ==
    ASSUME NEW due, NEW launched \in Launches(due)
    PROVE  \A k \in DOMAIN launched : launched[k].next = 1
  BY DEF Launches, NewTask

LEMMA SmurfsTick == CInv /\ Tick => CInv'
  <1> SUFFICES ASSUME CInv, Tick PROVE CInv'
    OBVIOUS
  <1>1. PICK launched \in Launches({s \in AllScenarios : Due(s)}) : tasks' = tasks \o launched
    BY DEF Tick
  <1>2. launched \in Seq(TaskType) /\ tasks \in Seq(TaskType)
    BY <1>1, LaunchesTyped DEF CInv, IInv, TypeOK, TasksOk
  <1>3. \A t \in DOMAIN tasks' : \/ t \in DOMAIN tasks /\ tasks'[t] = tasks[t]
                                 \/ t - Len(tasks) \in DOMAIN launched
                                    /\ tasks'[t] = launched[t - Len(tasks)]
    <2>1. \A t \in 1..Len(tasks \o launched) :
            \/ t \in 1..Len(tasks) /\ (tasks \o launched)[t] = tasks[t]
            \/ t - Len(tasks) \in 1..Len(launched)
               /\ (tasks \o launched)[t] = launched[t - Len(tasks)]
      BY <1>2
    <2>2. DOMAIN (tasks \o launched) = 1..Len(tasks \o launched)
      BY <1>2, ConcatProperties
    <2> QED BY <1>1, <1>2, <2>1, <2>2
  <1>4. \A t : Smurfing(t)' => Covered(t)
    BY <1>1, <1>3, LaunchedAtStart, NewIsCovered, SameIsCovered DEF Smurfing
  <1>5. IInv'
    BY StepTyped DEF CInv, Next
  <1>6. MuleKnown' /\ Total' = Total /\ faults' = faults
    BY DEF Tick, api, engine, counters, CInv, MuleKnown, Owner, Total, OwnersShare
  <1>7. Total \in Nat /\ faults \in Nat
    BY TotalIsNumber DEF Numbered, CInv, IInv, TypeOK, ActorsOk
  <1> QED BY <1>4, <1>5, <1>6, <1>7, CoveredKept

LEMMA SmurfsTrigger == ASSUME CInv, NEW s \in AllScenarios, Trigger(s) PROVE CInv'
  <1>1. PICK target : tasks' = Append(tasks, NewTask(s, Triggered, target))
    BY DEF Trigger
  <1> PICK task : task = NewTask(s, Triggered, target)
    OBVIOUS
  <1>2. tasks \in Seq(TaskType) /\ task.next = 1
    BY DEF CInv, IInv, TypeOK, TasksOk, NewTask
  <1>3. \A t \in DOMAIN tasks' : \/ t \in DOMAIN tasks /\ tasks'[t] = tasks[t]
                                 \/ tasks'[t] = task
    BY <1>1, <1>2
  <1>4. \A t : Smurfing(t)' => Covered(t)
    BY <1>2, <1>3, NewIsCovered, SameIsCovered DEF Smurfing
  <1>5. IInv'
    BY StepTyped DEF CInv, Next
  <1>6. MuleKnown' /\ Total' = Total /\ faults' = faults
    BY DEF Trigger, api, engine, CInv, MuleKnown, Owner, Total, OwnersShare
  <1>7. Total \in Nat /\ faults \in Nat
    BY TotalIsNumber DEF Numbered, CInv, IInv, TypeOK, ActorsOk
  <1> QED BY <1>4, <1>5, <1>6, <1>7, CoveredKept

LEMMA SmurfsSent ==
    ASSUME CInv, IInv', NEW r, NEW outcome, RequestOk(r), Send(r, outcome), Quiet,
           \A t : faults' = 0 /\ Smurfing(t)' => Covered(t)
    PROVE  CInv'
  <1>1. Sent(r) /\ faults' >= faults /\ TypeOK /\ TypeOK'
    BY SendEffect DEF CInv, IInv
  <1>2. MuleKnown' /\ Total' >= Total
    BY <1>1, MuleSent, SentTotal DEF CInv, Quiet, engine
  <1> QED BY <1>1, <1>2, CoveredKept

LEMMA SmurfsTask == ASSUME CInv, NEW t \in DOMAIN tasks, TaskStep(t) PROVE CInv'
  <1>0. IInv' /\ TypeOK /\ TypeOK' /\ IInv /\ MuleKnown
    BY StepTyped DEF CInv, Next, IInv
  <1>1. PICK r \in ScriptOf(t)[tasks[t].next], outcome \in Outcomes :
          Send(r, outcome) /\ tasks' = [tasks EXCEPT ![t].next = NextAfter(t, outcome)]
    BY DEF TaskStep
  <1>2. RequestOk(r) /\ tasks[t] \in TaskType /\ Quiet
    BY <1>0, <1>1, TaskRequest DEF TaskStep, TypeOK, TasksOk, Quiet
  <1> PICK n, k : n = NextAfter(t, outcome) /\ k = tasks[t].next
    OBVIOUS
  <1>3. /\ DOMAIN tasks' = DOMAIN tasks /\ tasks'[t].next = n
        /\ tasks'[t].scenario = tasks[t].scenario
        /\ \A u \in DOMAIN tasks \ {t} : tasks'[u] = tasks[u]
    BY <1>1, <1>2 DEF TaskType
  <1>4. ASSUME faults' = 0, Smurfing(t)' PROVE Covered(t)
    <2>1. Smurfing(t) /\ outcome = "answered" /\ faults = 0
      <3>1. Smurfing(t)
        BY <1>3, <1>4 DEF Smurfing
      <3>2. faults \in Nat /\ faults' = faults + (IF outcome = "answered" THEN 0 ELSE 1)
        BY <1>0, <1>1 DEF Send, TypeOK, ActorsOk
      <3> QED BY <1>4, <3>1, <3>2
    <2> PICK a, b : a = Repeat["fan_in"] /\ b = Repeat["smurf"]
      OBVIOUS
    <2>2. a \in Nat /\ b \in Nat /\ k \in Nat \ {0} /\ ~(k > a + b)
      BY <1>0, <1>2, <2>1, SmurfScript DEF TaskStep, Ended, TaskType
    <2>3. n = k + 1
      BY <2>1 DEF NextAfter, Raised
    <2>4. PaidOut(t)' = k - a
      <3>1. PaidOut(t)' = n - 1 - a
        BY <1>3 DEF PaidOut
      <3> QED BY <2>2, <2>3, <3>1
    <2>5. CASE k <= a
      BY <2>2, <2>4, <2>5 DEF Covered
    <2>6. CASE k > a
      <3>1. k \in a + 1..a + b
        BY <2>2, <2>6
      <3>2. r.op = "transfer" /\ r.from = CentralMule
        BY <1>0, <1>1, <2>1, <3>1, SmurfScript
      <3>3. TransferAdded(r)
        BY <1>1, <2>1, <3>2 DEF Send, Handle, TransferAdded
      <3>4. Total' >= Total + 1
        BY <1>0, <1>2, <3>2, <3>3, SentTotal DEF Sent, Quiet
      <3>5. PaidOut(t) <= Total
        BY <2>1 DEF CInv, SmurfsCounted
      <3>6. PaidOut(t) = k - 1 - a /\ Total \in Nat /\ Total' \in Nat
        <4>1. Numbered /\ Numbered'
          BY <1>0, TotalIsNumber, PTL
        <4> QED BY <4>1 DEF PaidOut, Numbered
      <3>7. PaidOut(t)' <= Total'
        BY <2>2, <2>4, <3>4, <3>5, <3>6
      <3> QED BY <3>7 DEF Covered
    <2> QED BY <2>2, <2>5, <2>6
  <1>5. \A u : faults' = 0 /\ Smurfing(u)' => Covered(u)
    BY <1>3, <1>4, SameIsCovered DEF Smurfing
  <1> QED BY <1>0, <1>1, <1>2, <1>5, SmurfsSent

LEMMA SmurfsActor ==
    ASSUME CInv, (\E c \in Active : CustomerActs(c)) \/ (\E e \in Employees : EmployeeActs(e))
    PROVE  CInv'
  <1>0. IInv' /\ IInv /\ TypeOK
    BY StepTyped DEF CInv, Next, IInv
  <1>1. tasks' = tasks /\ Quiet
    BY DEF CustomerActs, EmployeeActs, simulator, Quiet
  <1>2. PICK r, outcome : Send(r, outcome) /\ RequestOk(r)
    <2>1. CASE \E e \in Employees : EmployeeActs(e)
      BY <2>1, EmployeeRequest DEF EmployeeActs
    <2>2. CASE \E c \in Active : CustomerActs(c)
      BY <1>0, <2>2, ActiveAssumption, CustomerRequest DEF CustomerActs
    <2> QED BY <2>1, <2>2
  <1>3. \A t : Smurfing(t)' => Covered(t)
    BY <1>1, SameIsCovered DEF Smurfing
  <1> QED BY <1>0, <1>1, <1>2, <1>3, SmurfsSent

LEMMA SmurfsStep == CInv /\ [Next]_vars => CInv'
  <1> SUFFICES ASSUME CInv, [Next]_vars PROVE CInv'
    OBVIOUS
  <1>0. IInv' /\ IInv /\ TypeOK /\ MuleKnown
    BY StepTyped DEF CInv, IInv
  <1>1. Total \in Nat /\ faults \in Nat
    BY <1>0, TotalIsNumber DEF Numbered, TypeOK, ActorsOk
  <1>2. CASE UNCHANGED vars
    BY <1>2 DEF vars, simulator, api, engine, counters, CInv, IInv, TypeOK, TasksOk, ActorsOk,
                OwnersOk, TopicsOk, EngineOk, Replayed, MuleKnown, Owner, SmurfsCounted, Smurfing,
                PaidOut, Total, OwnersShare
  <1>3. CASE Restart
    <2>1. MuleKnown' /\ faults' = faults + 1
      BY <1>0, <1>3 DEF Restart, api, engine, MuleKnown, Owner
    <2>2. faults' # 0
      BY <1>1, <2>1
    <2> QED BY <1>0, <2>1, <2>2 DEF CInv, SmurfsCounted
  <1>4. CASE ReadAccount
    <2>1. MuleKnown' /\ Owner' = Owner
      BY <1>0, <1>4, MuleRead
    <2>2. topics'["transactions"] = topics["transactions"] /\ scored' = scored
          /\ tasks' = tasks /\ faults' = faults
      BY <1>0, <1>4 DEF ReadAccount, simulator, counters, TypeOK, TopicsOk, Topics
    <2>3. Total' = Total
      BY <2>1, <2>2 DEF Total, OwnersShare
    <2>4. \A t : Smurfing(t)' => Covered(t)
      BY <2>2, SameIsCovered DEF Smurfing
    <2> QED BY <1>0, <1>1, <2>1, <2>2, <2>3, <2>4, CoveredKept
  <1>5. CASE \E topic \in {"login_events", "transactions"}, k \in 1..MaxInFlight : Score(topic, k)
    <2>1. PICK topic \in {"login_events", "transactions"}, k \in 1..MaxInFlight : Score(topic, k)
      BY <1>5
    <2>2. PICK row, i, e, m2 : Moved(topic, k, row, i, e, m2)
      BY <1>0, <2>1, ScoreMoves
    <2>3. owner' = owner /\ accountMap' = accountMap /\ tasks' = tasks /\ faults' = faults
      BY <2>1 DEF Score, simulator, counters
    <2>4. topics'["accounts"] = topics["accounts"]
      BY <1>0, <2>1 DEF Score, TypeOK, TopicsOk, Topics
    <2>5. MuleKnown'
      BY <1>0, <2>3, <2>4 DEF MuleKnown, Owner
    <2>6. Total' >= Total
      BY <1>0, <2>2, <2>3, MovedTotal
    <2>7. \A t : Smurfing(t)' => Covered(t)
      BY <2>3, SameIsCovered DEF Smurfing
    <2> QED BY <1>0, <1>1, <2>3, <2>5, <2>6, <2>7, CoveredKept
  <1> QED BY <1>2, <1>3, <1>4, <1>5, SmurfsTick, SmurfsTrigger, SmurfsTask, SmurfsActor DEF Next

LEMMA SmurfsInit == Init => CInv
  <1> SUFFICES ASSUME Init PROVE CInv
    OBVIOUS
  <1>1. IInv /\ CentralMule \in Accounts
    BY InitTyped DEF Accounts
  <1>2. accountMap[CentralMule] = Owner /\ topics["accounts"] = <<>> /\ tasks = <<>>
    BY DEF Init, Owner, Topics
  <1> QED BY <1>1, <1>2 DEF CInv, MuleKnown, SmurfsCounted, Smurfing
-----------------------------------------------------------------------------
(* A burst of the mule account's payments is seen as one. *)

Paying(i) == Cardinality(Smurfed(i)) >= VelocityThreshold

(* No payment of the identity is later than a smurfed one by the window.   *)
Together(i) ==
    \A n \in Smurfed(i), m \in In(i, "transactions") :
        scored[i][m].at - scored[i][n].at <= VelocityWindow

LEMMA GreatestNumber ==
    ASSUME NEW b \in Nat, NEW T \in SUBSET (1..b), T # {}
    PROVE  \E x \in T : \A y \in T : y <= x
  <1> DEFINE D == {b - x : x \in T}
  <1>1. D \in SUBSET Nat /\ D # {}
    <2>1. ASSUME NEW x \in T PROVE b - x \in Nat
      OBVIOUS
    <2> QED BY <2>1
  <1>2. PICK d \in D : \A e \in D : d <= e
    <2> HIDE DEF D
    <2> QED BY <1>1, LeastNatural
  <1>3. PICK x \in T : d = b - x
    OBVIOUS
  <1>4. ASSUME NEW y \in T PROVE y <= x
    <2>1. b - y \in D
      OBVIOUS
    <2>2. b - x <= b - y
      BY <1>2, <1>3, <2>1
    <2> QED BY <2>2
  <1> QED BY <1>4

LEMMA BurstRaises ==
    ASSUME TypeOK, VelocityIsBurst, NEW i \in Identities, Together(i), Paying(i)
    PROVE  \E n \in Smurfed(i) : "VELOCITY_VIOLATION" \in scored[i][n].raised
  <1> PICK b, T : b = Len(scored[i]) /\ T = Smurfed(i)
    OBVIOUS
  <1>1. b \in Nat /\ DOMAIN scored[i] = 1..b /\ T \in SUBSET (1..b)
    <2>1. scored[i] \in Seq(Events)
      BY DEF TypeOK, EngineOk, Events
    <2> QED BY <2>1 DEF Smurfed, In
  <1>2. IsFiniteSet(1..b) /\ IsFiniteSet(T)
    <2>1. IsFiniteSet(1..b)
      BY <1>1, FS_Interval
    <2> QED BY <1>1, <2>1, FS_Subset
  <1>3. T # {}
    <2>1. Cardinality({}) = 0
      BY FS_EmptySet
    <2>2. Cardinality(T) >= VelocityThreshold /\ ~(0 >= VelocityThreshold)
      BY ThresholdsAssumption DEF Paying
    <2> QED BY <2>1, <2>2
  <1>4. PICK n \in T : \A k \in T : k <= n
    BY <1>1, <1>3, GreatestNumber
  <1> PICK K : K = Held(i, In(i, "transactions"), n, VelocityWindow)
    OBVIOUS
  <1>5. n \in In(i, "transactions") /\ T \subseteq K
    BY <1>4 DEF Smurfed, Held, Together
  <1>6. IsFiniteSet(K)
    <2>1. K \in SUBSET (1..b)
      BY <1>1 DEF Held, In
    <2> QED BY <1>2, <2>1, FS_Subset
  <1>7. Cardinality(T) <= Cardinality(K)
    BY <1>5, <1>6, FS_Subset
  <1>8. Cardinality(K) >= VelocityThreshold
    <2>1. Cardinality(T) \in Nat /\ Cardinality(K) \in Nat
      BY <1>2, <1>6, FS_CardinalityType
    <2> QED BY <1>7, <2>1, ThresholdsAssumption DEF Paying
  <1>9. "VELOCITY_VIOLATION" \in scored[i][n].raised
    BY <1>5, <1>8 DEF VelocityIsBurst
  <1> QED BY <1>9

LEMMA SharesCover ==
    \A a, b, k, x, y \in Nat : \A t : t = 0 + x + y /\ k > a + b /\ k - 1 - a <= t => b <= x + y
  OBVIOUS

(* Every payment of a finished network is under one identity or the other. *)
Divided ==
    \E i \in Identities \ {CentralMule} :
        Cardinality(Smurfed(CentralMule)) + Cardinality(Smurfed(i)) >= Repeat["smurf"]

LEMMA NoneIsMissing ==
    ASSUME CInv, NEW t, Smurfing(t), Ended(t), faults = 0, topics["transactions"] = <<>>
    PROVE  Divided
  <1> PICK a, b, k : a = Repeat["fan_in"] /\ b = Repeat["smurf"] /\ k = tasks[t].next
    OBVIOUS
  <1>1. a \in Nat /\ b \in Nat /\ k \in Nat /\ k > a + b
    <2>1. tasks[t] \in TaskType
      BY DEF CInv, IInv, Smurfing, TypeOK, TasksOk
    <2>2. Len(ScriptOf(t)) = a + b /\ a \in Nat /\ b \in Nat
      BY SmurfScript DEF CInv, IInv
    <2> QED BY <2>1, <2>2 DEF TaskType, Ended
  <1>2. Numbered
    BY TotalIsNumber DEF CInv, IInv
  <1>3. k - 1 - a <= Total
    BY DEF CInv, SmurfsCounted, PaidOut
  <1>4. Cardinality(Mules(topics["transactions"])) = 0
    <2>1. Mules(topics["transactions"]) = {}
      BY DEF Mules
    <2> QED BY <2>1, FS_EmptySet
  <1> PICK x, y : x = Cardinality(Mules(scored[CentralMule])) /\ y = OwnersShare
    OBVIOUS
  <1>5. x \in Nat /\ y \in Nat /\ Total = 0 + x + y
    BY <1>2, <1>4 DEF Total, Numbered
  <1>6. b <= x + y
    BY <1>1, <1>3, <1>5, SharesCover
  <1>7. CASE Owner = None
    <2>1. y = 0
      BY <1>7 DEF OwnersShare
    <2>2. ExternalMule \in Identities \ {CentralMule}
      BY IdentitiesAssumption DEF Identities, Customers, Accounts
    <2>3. Cardinality(Smurfed(ExternalMule)) \in Nat
      BY <1>2, <2>2, SmurfedIs DEF Numbered
    <2> QED BY <1>1, <1>5, <1>6, <2>1, <2>2, <2>3, SmurfedIs DEF Divided
  <1>8. CASE Owner # None
    <2>1. y = Cardinality(Smurfed(Owner))
      BY <1>8, SmurfedIs DEF OwnersShare
    <2>2. Owner \in Customers /\ CentralMule \in Accounts
      BY <1>8 DEF CInv, IInv, TypeOK, OwnersOk, Owner, Accounts
    <2>3. Owner \in Identities \ {CentralMule}
      BY <2>2, IdentitiesAssumption DEF Identities
    <2> QED BY <1>6, <2>1, <2>3, SmurfedIs DEF Divided
  <1> QED BY <1>7, <1>8

LEMMA UnnoticedIsDivided == CInv /\ VelocityIsBurst => UnnoticedOnlyIfDivided
  <1> SUFFICES ASSUME CInv, VelocityIsBurst, NetworkScored, ~NetworkNoticed
               PROVE  /\ \A i \in Identities : Cardinality(Smurfed(i)) < VelocityThreshold
                      /\ Divided
    BY DEF UnnoticedOnlyIfDivided, Divided
  <1>1. Divided
    BY NoneIsMissing DEF NetworkScored, Smurfing
  <1>2. ASSUME NEW i \in Identities PROVE Cardinality(Smurfed(i)) < VelocityThreshold
    <2>1. ~Paying(i)
      BY <1>2, BurstRaises DEF NetworkScored, NetworkNoticed, Together, CInv, IInv
    <2>2. Cardinality(Smurfed(i)) \in Nat
      BY <1>2, TotalIsNumber, SmurfedIs DEF CInv, IInv, Numbered
    <2> QED BY <2>1, <2>2, ThresholdsAssumption DEF Paying
  <1> QED BY <1>1, <1>2

-----------------------------------------------------------------------------
(* Theorems. *)

(* The engine keeps to its types: every scored event is of an identity     *)
(* that a customer, a mule or an account may have, and every memory is one *)
(* that the events scored under it have made, one after the other.         *)
THEOREM MemoriesReplayed == Spec => [](TypeOK /\ Replayed)
  <1>1. Spec => []IInv
    BY InitTyped, StepTyped, PTL DEF Spec
  <1> QED BY <1>1 DEF IInv

(* A customer's own login raises nothing, whatever attacks, faults and     *)
(* restarts there are, unless a login from another device was scored       *)
(* before it (deriveIndicators against the personas of the simulator).     *)
THEOREM BaselineStaysQuiet == Spec => []QuietBaseline
  <1>1. Spec => []QInv
    BY OwnInit, OwnStep, PTL DEF Spec
  <1> QED BY <1>1, BaselineQuiet, PTL

(* A takeover of a customer seen before is a NEW_DEVICE, and an alert by   *)
(* itself when it comes fast from another country: run_account_takeover    *)
(* logs in once, from a device no login has come from.                     *)
THEOREM TakeoversNoticed == Spec => []TakeoverAlarmed
  <1>1. Spec => []TInv
    BY TakeoverInit, TakeoverStep, PTL DEF Spec
  <1> QED BY <1>1, TakeoverNoticed, PTL

(* VELOCITY_VIOLATION is raised exactly when enough payments lie in the    *)
(* window, as long as recordAndPrune has not had to drop one for space.    *)
THEOREM VelocityCounts == Spec /\ []NeverFull => []VelocityIsBurst
  <1>1. Spec /\ []NeverFull => []RInv
    BY RoomInit, RoomStep, PTL DEF Spec
  <1> QED BY <1>1, PaymentsCounted, PTL

(* MULTIPLE_FAILED_LOGINS counts the failures since the last success, as   *)
(* long as recordAndPrune has not had to drop one for space.               *)
THEOREM FailuresCount == Spec /\ []NeverFull => []FailedLoginsSinceSuccess
  <1>1. Spec /\ []NeverFull => []RInv
    BY RoomInit, RoomStep, PTL DEF Spec
  <1> QED BY <1>1, FailuresCounted, PTL

(* A structuring network passes unnoticed only if its payments, none of    *)
(* them missing, are divided between the number of the mule account and    *)
(* its owner so that each has fewer than the threshold                     *)
(* (run_mule_and_structuring_network against AccountEnrichmentFunction).   *)
THEOREM StructuringIsNoticed == Spec /\ []NeverFull => []UnnoticedOnlyIfDivided
  <1>1. Spec => []CInv
    BY SmurfsInit, SmurfsStep, PTL DEF Spec
  <1> QED BY <1>1, VelocityCounts, UnnoticedIsDivided, PTL
=====
