\* Two clients and two accounts that do not exist yet: transfers, queries, logins and beneficiaries.
SPECIFICATION FairSpec
CONSTANTS
    None = None
    a1 = a1
    a2 = a2
    u1 = u1
    mule = mule
    Clients = {c1, c2}
    Accounts = {a1, a2}
    Customers = {u1, mule}
    Devices = {d1}
    Employees = {e1}
    Precedes <- ByNumber
    Mule = mule
    Fallback = mule
    Seeded = {mule}
    Parts = 2
    Amounts <- MCAmounts
    MaxRequests = 3
    MaxFailures = 1
INVARIANTS
    LedgerExact
    OnlyInsertsDeadlock
PROPERTIES
    OpenedOnce
    ImplementsAtomicBank
    EveryRequestAnswered
CHECK_DEADLOCK FALSE
