\* Two clients, two accounts that exist, and two transfers of whole cents.
SPECIFICATION Spec
CONSTANTS
    None = None
    a1 = a1
    a2 = a2
    u1 = u1
    mule = mule
    Clients = {c1, c2}
    Accounts = {a1, a2}
    Customers = {u1, mule}
    Devices = {d1}
    Employees = {e1}
    Precedes <- ByNumber
    Mule = mule
    Fallback = mule
    Seeded = {mule, a1, a2}
    Parts = 2
    Amounts = {2}
    MaxRequests = 2
    MaxFailures = 0
INVARIANT EveryTransferCounts
CHECK_DEADLOCK FALSE
