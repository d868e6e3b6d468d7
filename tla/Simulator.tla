----------------------------- MODULE Simulator -----------------------------
(***************************************************************************)
(* The simulator at work on the platform: its event loop, which runs the   *)
(* customer and employee actors and launches attack scenarios on a clock,  *)
(* the API's answers, the change events of the database, and the Flink     *)
(* engine's indicators for each identity.                                  *)
(*                                                                         *)
(* A handler of the API is one step here (CoreBanking has its statements), *)
(* and the engine does not fail (RiskPipeline has its restarts).  What is  *)
(* kept is what decides on whether an attack is noticed: concurrent        *)
(* scenarios on the same customers, requests lost or answered too late,    *)
(* topics read at their own pace, a lookup that answers in any order, and  *)
(* the memory of an identity, in which one attack may cover another.       *)
(***************************************************************************)
EXTENDS Scenarios, RiskIndicators, FiniteSets

CONSTANTS ExternalMule,     \* cust_external_mule, the owner of accounts paid into first
          Countries,        \* where a customer may live
          Period,           \* scenario |-> ticks between its launches; 0 is never
          LargeTransfer,    \* indicator.large-transfer-threshold
          AlertThreshold,
          MaxInFlight,      \* of the lookup
          MaxTicks, MaxTriggers, MaxRows, MaxBacklog,   \* bounds: rows written, and not scored
          MaxFaults,        \* bound: requests that fail, and restarts
          Active            \* bound: the customers whose loops run

VARIABLES loopCount,   \* of main_engine
          now,         \* the API's clock, in ticks
          tasks,       \* the scenarios launched so far
          actor,       \* customer |-> is_logged_in, its device and country
          owner,       \* table accounts: account |-> customer; None is no row
          topics,      \* topic |-> rows the engine has not scored, or read
          accountMap,  \* the engine's broadcast state: account |-> customer
          memory,      \* identity |-> its behaviour memory
          scored,      \* identity |-> its events in the order of scoring
          triggers, rows, faults   \* counters of the bounds

simulator == <<loopCount, now, tasks, actor>>
api       == <<owner, topics>>
engine    == <<accountMap, memory, scored>>
counters  == <<triggers, rows, faults>>
vars      == <<simulator, api, engine, counters>>

SE == INSTANCE SequencesExt

Topics == {"login_events", "transactions", "accounts"}

Customers == Everyone \cup {ExternalMule, MuleOperator}
(* Accounts that are only ever paid: somebody has paid into them before.   *)
Drops     == {Drop(d) : d \in {"MULE-ERR9", "MULE-nnn", "MULE-SOCENG", "MULE-DEVICE-DROP",
                               "MULE-MALWARE-DROP", "nnnnnn"}}
Accounts  == {AccountOf(c) : c \in Everyone} \cup {CentralMule} \cup Drops
Identities == Customers \cup Accounts

ASSUME PeriodAssumption == Period \in [AllScenarios -> Nat]
ASSUME MuleAssumption == ExternalMule \notin Everyone
ASSUME ActiveAssumption == Active \subseteq Seeded
ASSUME BoundsAssumption == {MaxInFlight, MaxTicks, MaxTriggers, MaxRows, MaxFaults} \subseteq Nat
ASSUME ThresholdsAssumption ==
    /\ {ImpossibleTravelWindow, FailedLoginWindow, VelocityWindow} \subseteq Nat
    /\ {FailedLoginThreshold, MaxRetained, AlertThreshold} \subseteq Nat
    /\ VelocityThreshold \in Nat \ {0}
(* What has a name is not null.                                            *)
ASSUME NamesAssumption ==
    /\ None \notin ({"dv"} \X Seeded \X Nat) \cup ({"uuid"} \X Nat)
    /\ None \notin {UnknownDevice, <<"high-threat">>}
    /\ None \notin Countries \cup Botnet \cup {"CN", "RU", "UA", "US"}
    /\ None \notin Customers
(* The identity of an account has a prefix, "acct:".                       *)
ASSUME IdentitiesAssumption == Customers \cap Accounts = {}
(* 30, 35 and 50 points against a threshold of 80.                         *)
ASSUME TakeoverAssumption ==
    Weight["NEW_DEVICE"] + Weight["NEW_COUNTRY"] + Weight["IMPOSSIBLE_TRAVEL"] > AlertThreshold

-----------------------------------------------------------------------------
Init ==
    /\ loopCount = 0 /\ now = 1
    /\ tasks = <<>>
    /\ actor \in [Seeded -> [loggedIn : {FALSE}, generation : {0}, country : Countries]]
    /\ owner = [a \in Accounts |->
                  IF \E c \in Seeded : a = AccountOf(c) THEN CHOOSE c \in Seeded : a = AccountOf(c)
                  ELSE IF a \in Drops THEN ExternalMule
                  ELSE None]
    /\ topics = [t \in Topics |-> <<>>]
    /\ accountMap = owner
    /\ memory = [i \in Identities |-> NoMemory]
    /\ scored = [i \in Identities |-> <<>>]
    /\ triggers = 0 /\ rows = 0 /\ faults = 0

-----------------------------------------------------------------------------
(* The API.  A change event carries the time of its commit; a customer     *)
(* first seen at a login is given an account with a random number, which   *)
(* no script uses.                                                         *)

Accepted(r) == r.password # "WrongPasswordAttempt"

LoginRow(r) ==
    [at |-> now, table |-> "login_events", user |-> r.user,
     device |-> r.device, country |-> r.country, success |-> Accepted(r)]

TransferRow(r) ==
    [at |-> now, table |-> "transactions", from |-> r.from, amount |-> r.amount]

(* An account that is missing is opened for the user if it pays, for the   *)
(* external mule if it is paid.                                            *)
Opened(r) ==
    [a \in Accounts |->
        IF owner[a] # None THEN owner[a]
        ELSE IF a = r.from THEN r.user
        ELSE IF a = r.to THEN ExternalMule
        ELSE None]

AccountRow(r, a) ==
    IF owner[a] = None THEN << [table |-> "accounts", account |-> a, customer |-> Opened(r)[a]] >>
    ELSE <<>>

AccountRows(r) == AccountRow(r, r.from) \o AccountRow(r, r.to)

Room == rows + faults < MaxRows /\ Len(topics["login_events"]) + Len(topics["transactions"]) < MaxBacklog

(* What the handler of a request commits. *)
Handle(r) ==
    \/ /\ r.op = "login" /\ Room
       /\ rows' = rows + 1
       /\ topics' = [topics EXCEPT !["login_events"] = Append(@, LoginRow(r))]
       /\ UNCHANGED owner
    \/ /\ r.op = "transfer" /\ Room
       /\ rows' = rows + 1
       /\ topics' = [topics EXCEPT !["transactions"] = Append(@, TransferRow(r)),
                                   !["accounts"] = @ \o AccountRows(r)]
       /\ owner' = Opened(r)
    \/ /\ r.op \notin {"login", "transfer"}
       /\ UNCHANGED <<api, rows>>

(* What becomes of a request.  A refused one failed in the API: httpx does *)
(* not raise for status 500.  The other two faults raise RequestError      *)
(* before the handler ran and, on a timeout, after it.                     *)
Outcomes == {"answered", "refused", "lost", "unanswered"}
Raised(outcome) == outcome \in {"lost", "unanswered"}

Send(r, outcome) ==
    /\ outcome # "answered" => faults < MaxFaults /\ rows + faults < MaxRows
    /\ faults' = faults + (IF outcome = "answered" THEN 0 ELSE 1)
    /\ IF outcome \in {"answered", "unanswered"} THEN Handle(r) ELSE UNCHANGED <<api, rows>>

-----------------------------------------------------------------------------
(* The event loop of main_engine. *)

Due(s) == Period[s] # 0 /\ (loopCount + 1) % Period[s] = 0

NewTask(s, users, target) ==
    [scenario |-> s, users |-> users, target |-> target, next |-> 1]

(* A tick launches every scenario that is due as a task of its own. *)
Launches(due) ==
    LET order == SE!SetToSeq(due)
    IN  {[i \in 1..Len(order) |-> NewTask(order[i], Scheduled, target[order[i]])] :
            target \in {f \in [due -> Seeded \cup Employees \cup {Nobody}] :
                          \A s \in due : f[s] \in Targets(s, Scheduled)}}

Tick ==
    /\ now <= MaxTicks
    /\ now' = now + 1
    /\ loopCount' = loopCount + 1
    /\ \E launched \in Launches({s \in AllScenarios : Due(s)}) : tasks' = tasks \o launched
    /\ UNCHANGED <<actor, api, engine, counters>>

(* trigger.py: a process of its own that runs one scenario. *)
Trigger(s) ==
    /\ triggers < MaxTriggers
    /\ triggers' = triggers + 1
    /\ \E target \in Targets(s, Triggered) : tasks' = Append(tasks, NewTask(s, Triggered, target))
    /\ UNCHANGED <<loopCount, now, actor, api, engine, rows, faults>>

ScriptOf(t) == Script(tasks[t].scenario, t, tasks[t].users, tasks[t].target)
Ended(t)    == tasks[t].next > Len(ScriptOf(t))

NextAfter(t, outcome) ==
    IF Raised(outcome) /\ tasks[t].scenario \in Chained THEN Len(ScriptOf(t)) + 1
    ELSE tasks[t].next + 1

TaskStep(t) ==
    /\ ~Ended(t)
    /\ \E r \in ScriptOf(t)[tasks[t].next], outcome \in Outcomes :
         /\ Send(r, outcome)
         /\ tasks' = [tasks EXCEPT ![t].next = NextAfter(t, outcome)]
    /\ UNCHANGED <<loopCount, now, actor, engine, triggers>>

(* perform_action: a customer logs in until the API says 200, then acts.   *)
CustomerActs(c) ==
    /\ \E outcome \in Outcomes :
         \/ /\ actor[c].loggedIn
            /\ \E r \in CustomerTurn(c) : Send(r, outcome)
            /\ UNCHANGED actor
         \/ /\ ~actor[c].loggedIn
            /\ Send(CustomerLogin(c, actor[c].generation, actor[c].country), outcome)
            /\ actor' = [actor EXCEPT ![c].loggedIn = outcome = "answered"]
    /\ UNCHANGED <<loopCount, now, tasks, engine, triggers>>

EmployeeActs(e) ==
    /\ \E r \in EmployeeTurn(e), outcome \in Outcomes : Send(r, outcome)
    /\ UNCHANGED <<simulator, engine, triggers>>

(* The process starts anew: its tasks are gone, and every customer has     *)
(* another device and perhaps another persona, and so country.             *)
Restart ==
    /\ faults < MaxFaults /\ rows + faults < MaxRows
    /\ faults' = faults + 1
    /\ loopCount' = 0
    /\ tasks' = [t \in DOMAIN tasks |->
                   IF tasks[t].users = Triggered THEN tasks[t]
                   ELSE [tasks[t] EXCEPT !.next = Len(ScriptOf(t)) + 1]]
    /\ actor' \in [Seeded -> [loggedIn : {FALSE}, generation : {faults + 1},
                              country : Countries]]
    /\ UNCHANGED <<now, api, engine, triggers, rows>>

-----------------------------------------------------------------------------
(* The engine. *)

Enriched(row) ==
    CASE row.table = "login_events" -> row.user
      [] row.table = "transactions" -> IF accountMap[row.from] # None THEN accountMap[row.from]
                                       ELSE row.from

ReadAccount ==
    /\ topics["accounts"] # <<>>
    /\ LET row == Head(topics["accounts"])
       IN  accountMap' = [accountMap EXCEPT ![row.account] = row.customer]
    /\ topics' = [topics EXCEPT !["accounts"] = Tail(@)]
    /\ UNCHANGED <<simulator, owner, memory, scored, counters>>

(* The row as the indicators see it: no label, and no account is listed    *)
(* under indicator.high-risk-recipients.                                   *)
Seen(row) ==
    LET login == row.table = "login_events"
    IN  [table |-> row.table, indicator |-> None,
         device |-> IF login THEN row.device ELSE None,
         country |-> IF login THEN row.country ELSE None,
         success |-> IF login THEN row.success ELSE None,
         large |-> ~login /\ row.amount > LargeTransfer, highRisk |-> FALSE]

(* What is remembered of a scored event, to state the properties. *)
Remembered(row, raised) ==
    IF row.table = "login_events"
    THEN [table |-> row.table, at |-> row.at, raised |-> raised, device |-> row.device,
          country |-> row.country, success |-> row.success]
    ELSE [table |-> row.table, at |-> row.at, raised |-> raised, from |-> row.from]

(* A row is read, and scored when the lookup has answered for it: one of  *)
(* the first MaxInFlight that are not, in any order.  (That its account is *)
(* looked up in the map on reading makes no difference to any identity: an *)
(* account is entered once, so that the rows that missed the entry are the *)
(* first ones, and they are under an identity of their own.)               *)
Score(topic, k) ==
    /\ k <= Len(topics[topic])
    /\ LET row == topics[topic][k]
           i   == Enriched(row)
           m   == memory[i]
       IN  /\ memory' = [memory EXCEPT ![i] = MemoryAfter(Seen(row), row.at, m)]
           /\ scored' = [scored EXCEPT ![i] =
                  Append(@, Remembered(row, DeriveIndicators(Seen(row), row.at, m)))]
    /\ topics' = [topics EXCEPT ![topic] = SE!RemoveAt(@, k)]
    /\ UNCHANGED <<simulator, owner, accountMap, counters>>

-----------------------------------------------------------------------------
Next ==
    \/ Tick
    \/ \E s \in AllScenarios : Trigger(s)
    \/ \E t \in DOMAIN tasks : TaskStep(t)
    \/ \E c \in Active : CustomerActs(c)
    \/ \E e \in Employees : EmployeeActs(e)
    \/ Restart
    \/ ReadAccount
    \/ \E topic \in {"login_events", "transactions"}, k \in 1..MaxInFlight : Score(topic, k)

Spec == Init /\ [][Next]_vars

-----------------------------------------------------------------------------
(* The scored rows of identity i that are in a table. *)
In(i, table) == {n \in DOMAIN scored[i] : scored[i][n].table = table}

(* Among the rows ns of identity i: those that row n of them still finds   *)
(* in a list that every row since has filtered by its own time.            *)
Held(i, ns, n, window) ==
    {k \in ns : k <= n /\ \A m \in ns : m \in k..n => scored[i][m].at - scored[i][k].at <= window}

(* recordTransaction, whatever the order of scoring: VELOCITY_VIOLATION is *)
(* raised exactly when enough payments of the identity lie in the window   *)
(* before this one or after it, and none scored since was too late for     *)
(* them.  A payment scored late counts the ones that overtook it.          *)
VelocityIsBurst ==
    \A i \in Identities : \A n \in In(i, "transactions") :
        "VELOCITY_VIOLATION" \in scored[i][n].raised
          <=> Cardinality(Held(i, In(i, "transactions"), n, VelocityWindow)) >= VelocityThreshold

(* clearFailedLogins: MULTIPLE_FAILED_LOGINS counts the failures that were *)
(* scored since the customer's last success, the attackers' successes      *)
(* included, and no others.                                                *)
FailedLoginsSinceSuccess ==
    \A i \in Identities : \A n \in In(i, "login_events") :
        LET since == {k \in In(i, "login_events") :
                         \A m \in In(i, "login_events") : m \in k..n => ~scored[i][m].success}
        IN  "MULTIPLE_FAILED_LOGINS" \in scored[i][n].raised
              <=> /\ ~scored[i][n].success
                  /\ Cardinality(Held(i, since, n, FailedLoginWindow)) >= FailedLoginThreshold

TakeoverLogin(i, n) ==
    /\ n \in In(i, "login_events")
    /\ \E t \in DOMAIN tasks :
         tasks[t].scenario = "account_takeover" /\ scored[i][n].device = Uuid(t)

(* run_account_takeover against deriveIndicators: a takeover of a customer *)
(* seen before is a NEW_DEVICE, and enough for an alert by itself, unless  *)
(* the customer's last login is a travel window ago or an attack from the  *)
(* same country came in between, whatever else is going on.                *)
TakeoverAlarmed ==
    \A i \in Identities : \A n \in DOMAIN scored[i] : TakeoverLogin(i, n) =>
        \A k \in In(i, "login_events") :
            k < n /\ (\A m \in In(i, "login_events") : m < n => m <= k) =>
              /\ "NEW_DEVICE" \in scored[i][n].raised
              /\ \/ scored[i][k].country = scored[i][n].country
                 \/ scored[i][n].at - scored[i][k].at > ImpossibleTravelWindow
                 \/ WeightSum(scored[i][n].raised) > AlertThreshold

Smurfed(i) == {n \in In(i, "transactions") : scored[i][n].from = CentralMule}

(* A structuring network has made its payments, they are all scored, and   *)
(* none of its identities' payments is so late that it empties the window. *)
NetworkScored ==
    /\ \E t \in DOMAIN tasks : tasks[t].scenario = "aml_smurfing" /\ Ended(t)
    /\ faults = 0
    /\ topics["transactions"] = <<>>
    /\ \A i \in Identities : \A n \in Smurfed(i), m \in In(i, "transactions") :
          scored[i][m].at - scored[i][n].at <= VelocityWindow

NetworkNoticed ==
    \E i \in Identities : \E n \in Smurfed(i) : "VELOCITY_VIOLATION" \in scored[i][n].raised

(* run_mule_and_structuring_network against the lookup of owners: the mule *)
(* account is opened by the first payment into it, and its rows go by two  *)
(* identities, the number before its owner is known and the owner after.   *)
(* The network passes unnoticed only if its payments, none of them missing,*)
(* are divided between those two so that each is below the threshold: as   *)
(* the program's six can be, three and three, below a threshold of four.   *)
UnnoticedOnlyIfDivided ==
    NetworkScored /\ ~NetworkNoticed =>
        /\ \A i \in Identities : Cardinality(Smurfed(i)) < VelocityThreshold
        /\ \E i \in Identities \ {CentralMule} :
              Cardinality(Smurfed(CentralMule)) + Cardinality(Smurfed(i)) >= Repeat["smurf"]

(* A customer's own login raises nothing, unless a login from another      *)
(* device was scored before it: an attack's, or the customer's own from    *)
(* before the simulator was restarted.                                     *)
QuietBaseline ==
    \A c \in Everyone : \A n \in In(c, "login_events") :
        LET device == scored[c][n].device
        IN  (\E g \in 0..MaxFaults : device = OwnDevice(c, g)) =>
              \/ scored[c][n].raised = {}
              \/ \E k \in In(c, "login_events") : k < n /\ scored[c][k].device # device
=============================================================================
