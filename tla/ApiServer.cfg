\* A query of the graph and a second request on one history, one thread, one failure, one restart.
SPECIFICATION FairSpec
CONSTANTS
    None = None
    a1 = a1
    a2 = a2
    a3 = a3
    a4 = a4
    b1 = b1
    c1 = c1
    d1 = d1
    d2 = d2
    ip1 = ip1
    Mule = mule
    Customers = {c1, mule}
    Accounts = {a1, a2, a3, a4, b1}
    Devices = {d1, d2}
    Addresses = {ip1}
    NodeOf <- MCNodeOf
    CriticalVolume = 5
    CriticalCustomers = 5
    Calls <- MCCalls
    Histories <- OneChain
    Lookback = 1
    MaxHops = 4
    MinShared = 2
    Depth = 2
    Workers = 1
    MaxRequests = 2
    MaxTime = 1
    MaxFailures = 1
    MaxRestarts = 1
INVARIANTS
    DetectionBetween
    NeighbourhoodBetween
    EventAccounted
PROPERTIES
    EveryRequestSettled
CHECK_DEADLOCK FALSE
