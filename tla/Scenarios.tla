----------------------------- MODULE Scenarios -----------------------------
(***************************************************************************)
(* The simulator's traffic: the request scripts of ScenarioManager and the *)
(* turns of the customer and employee actors.  Pure operators; Simulator   *)
(* runs them.                                                              *)
(*                                                                         *)
(* A script is a sequence of draws.  A draw is a set of requests of which  *)
(* one is sent, the choice standing for the program's random numbers.      *)
(* Coordinates, addresses, bank names, sleeps and headers that no handler  *)
(* reads are left out; an amount is one of those the script may choose.    *)
(***************************************************************************)
EXTENDS Integers, Sequences

CONSTANTS Nobody,             \* no target, no user
          Seeded,             \* cust_gen_0 .. cust_gen_19, the accounts of the start-up routine
          Unseeded,           \* cust_gen_20: drawn by randint(0, 20), created on first use
          Employees, Rogue,   \* employee_pool, EMP-ROUGE-99
          DefaultVictim,      \* scenario |-> whom it attacks when its caller names nobody
          Botnet,             \* countries of the DDoS (10 in the code)
          RingMembers,        \* cust_gen_5, 6, 7
          LaunderingChain,    \* cust_gen_1, 2, 3, 4
          Repeat              \* loop |-> how often its body runs

Loops == {"stuffing", "spray", "mfa", "views", "fan_in", "smurf", "probes", "strikes", "deletes"}

ASSUME PopulationAssumption ==
    /\ Seeded \cap Unseeded = {} /\ Unseeded # {} /\ Seeded # {} /\ Employees # {}
    /\ DefaultVictim \in [{"account_takeover", "wire_fraud", "social_engineering"} -> Seeded]
ASSUME MembersAssumption == RingMembers \in Seq(Seeded) /\ LaunderingChain \in Seq(Seeded)
ASSUME RepeatAssumption == Repeat \in [Loops -> Nat]

Everyone == Seeded \cup Unseeded

AccountOf(c) == <<"ACC-GEN", c>>
Drop(name)   == <<"ACC", name>>
CentralMule  == Drop("CENTRAL-MULE-99")
OwnDevice(c, generation) == <<"dv", c, generation>>
MuleOperator == <<"mule_operator_central">>
Uuid(task)   == <<"uuid", task>>
UnknownDevice == <<"UNKNOWN_DEV">>

-----------------------------------------------------------------------------
Login(user, password, device, country) ==
    [op |-> "login", user |-> user, password |-> password, device |-> device,
     country |-> country]

Transfer(user, from, to, amount) ==
    [op |-> "transfer", user |-> user, from |-> from, to |-> to, amount |-> amount]

View(employee, customer) == [op |-> "view-account", employee |-> employee, customer |-> customer]

(* Requests whose handler writes nothing an engine or the graph reads.     *)
Other(op, user) == [op |-> op, user |-> user]

Times(n, draw) == [i \in 1..n |-> draw]

-----------------------------------------------------------------------------
(* Tier 1. *)
CredentialStuffing(task) ==
    Times(Repeat["stuffing"],
          {Login(c, "WrongPasswordAttempt", Uuid(task), "CN") : c \in Everyone})

AccountTakeover(task, victim) ==
    << {Login(victim, "SecurePassword", Uuid(task), "RU")},
       {Other("beneficiary", victim)},
       {Transfer(victim, AccountOf(victim), Drop("MULE-ERR9"), 980)} >>

WireFraud(victim) ==
    << {Other("beneficiary", victim)},
       {Transfer(victim, AccountOf(victim), Drop("MULE-nnn"), 25000)} >>

InsiderScraping(employee) == Times(Repeat["views"], {View(employee, c) : c \in Everyone})

(* Tier 2. *)
AuthAbuse(task, users, victim) ==
    Times(Repeat["spray"],
          {Login(c, "Spring2026", Uuid(task), "UA") : c \in users})
    \o Times(Repeat["mfa"], {Other("mfa", victim)})

(* Mutant: the mule sends on what came in from the account it came from. *)
StructuringFromVictim(users, target) ==
    Times(Repeat["fan_in"], {Transfer(c, AccountOf(c), CentralMule, 1000) : c \in users})
    \o Times(Repeat["smurf"],
             {Transfer(MuleOperator, AccountOf(c), AccountOf(target), 9500) : c \in users})

MuleAndStructuring(users, target) ==
    Times(Repeat["fan_in"], {Transfer(c, AccountOf(c), CentralMule, 1000) : c \in users})
    \o Times(Repeat["smurf"],
             {Transfer(MuleOperator, CentralMule, AccountOf(target), 9500)})

ApiEnumeration == Times(Repeat["probes"], {Other("get-account", Nobody)})

SocialEngineering(victim) ==
    << {Other("update-profile", victim)}, {Other("reset-password", victim)},
       {Transfer(victim, AccountOf(victim), Drop("MULE-SOCENG"), 4850)} >>

(* The strikes are concurrent; as all are drawn from one set, their order  *)
(* is no information.                                                      *)
InfrastructureAttack ==
    Times(Repeat["strikes"],
          {Login(c, "BruteForceAttackStrikes", UnknownDevice, country) :
             c \in Everyone, country \in Botnet})

(* Tier 3. *)
KnownDeviceThreat(victim) ==
    << {Login(victim, "ValidOrGuessedPassword", <<"high-threat">>, "US")},
       {Transfer(victim, AccountOf(victim), Drop("MULE-DEVICE-DROP"), 2500)} >>

PrivilegeAbuse(employee) == << {View(employee, "VIP-CEO")}, {View(employee, "VIP-CFO")} >>

MalwareInfected(victim) ==
    << {Other("get-account", victim)},
       {Transfer(victim, AccountOf(victim), Drop("MULE-MALWARE-DROP"), 2999)} >>

MoneyLaundering ==
    [i \in 1..Len(LaunderingChain) - 1 |->
        {Transfer(LaunderingChain[i], AccountOf(LaunderingChain[i]),
                  AccountOf(LaunderingChain[i + 1]), 9500 - 125 * (i - 1))}]

FraudRing(task) ==
    [i \in 1..Len(RingMembers) |->
        {Login(RingMembers[i], "StandardSecure", Uuid(task), "US")}]
    \o [i \in 1..Len(RingMembers) |->
        {Transfer(RingMembers[i], AccountOf(RingMembers[i]),
                  AccountOf(RingMembers[(i % Len(RingMembers)) + 1]), 1200)}]

Ransomware == Times(Repeat["deletes"], {Other("delete-session", Nobody)})

-----------------------------------------------------------------------------
(* The commands of trigger.py, which are all the scenarios there are. *)
OnCustomer == {"account_takeover", "wire_fraud", "auth_abuse", "aml_smurfing", "social_engineering",
               "known_threat_device", "malware_hijack"}
OnEmployee == {"insider_scraping", "privilege_abuse"}
Untargeted == {"credential_stuffing", "api_enumeration", "ddos_flood", "money_laundering",
               "fraud_ring", "ransomware"}
AllScenarios == OnCustomer \cup OnEmployee \cup Untargeted

(* One try around the whole script: a request that raises ends it.  The    *)
(* other scripts catch every request by itself and go on.                  *)
Chained == {"account_takeover", "wire_fraud", "social_engineering", "known_threat_device",
            "privilege_abuse", "malware_hijack"}

(* Whom a scenario may turn on: main_engine names its target, trigger.py   *)
(* leaves it to the defaults; the others draw one of `users'.              *)
Scheduled == Seeded
Triggered == Everyone

Targets(scenario, users) ==
    CASE scenario \in OnEmployee -> IF users = Triggered THEN {Rogue} ELSE Employees
      [] scenario \in DOMAIN DefaultVictim /\ users = Triggered -> {DefaultVictim[scenario]}
      [] scenario \in OnCustomer /\ ~(scenario \in DOMAIN DefaultVictim /\ users = Triggered) -> users
      [] scenario \in Untargeted -> {Nobody}

Script(scenario, task, users, target) ==
    CASE scenario = "credential_stuffing" -> CredentialStuffing(task)
      [] scenario = "account_takeover"    -> AccountTakeover(task, target)
      [] scenario = "wire_fraud"          -> WireFraud(target)
      [] scenario = "insider_scraping"    -> InsiderScraping(target)
      [] scenario = "auth_abuse"          -> AuthAbuse(task, users, target)
      [] scenario = "aml_smurfing"        -> MuleAndStructuring(users, target)
      [] scenario = "api_enumeration"     -> ApiEnumeration
      [] scenario = "social_engineering"  -> SocialEngineering(target)
      [] scenario = "ddos_flood"          -> InfrastructureAttack
      [] scenario = "known_threat_device" -> KnownDeviceThreat(target)
      [] scenario = "privilege_abuse"     -> PrivilegeAbuse(target)
      [] scenario = "malware_hijack"      -> MalwareInfected(target)
      [] scenario = "money_laundering"    -> MoneyLaundering
      [] scenario = "fraud_ring"          -> FraudRing(task)
      [] scenario = "ransomware"          -> Ransomware

-----------------------------------------------------------------------------
(* What a customer may do on a turn once logged in: below 10000, to an     *)
(* account number nobody else uses.                                        *)
CustomerTurn(c) ==
    {Other("balance", c), Other("beneficiary", c),
     Transfer(c, AccountOf(c), Drop("nnnnnn"), 8500)}

CustomerLogin(c, generation, country) ==
    Login(c, "StandardSecure", OwnDevice(c, generation), country)

EmployeeTurn(e) == {View(e, c) : c \in Seeded}
=============================================================================
