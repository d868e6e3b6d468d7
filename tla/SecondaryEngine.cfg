\* Logins and transfers of one customer, calls of one address, and the customer's account.
SPECIFICATION Spec
CONSTANTS
    None = None
    c1 = c1
    a1 = a1
    ip1 = ip1
    Customers = {c1}
    Accounts = {a1}
    Addresses = {ip1}
    Messages <- MCMessages
    Weight <- MCWeight
    AlertThreshold = 100
    CriticalThreshold = 400
    DecaySec = 2
    CooldownSec = 2
    TravelWindow = 2
    FailedLoginWindow = 1
    FailedLoginThreshold = 2
    VelocityWindow = 1
    VelocityThreshold = 2
    ApiRateWindow = 1
    ApiRateThreshold = 2
    MaxRetained = 3
    MaxIndicators = 5
    MaxTime = 4
    MaxMessages = 4
    MaxCrashes = 1
    MaxFailures = 1
INVARIANTS
    NoIndicatorLost
    AlertExplained
    VelocityExact
PROPERTIES
    ImplementsAtomicAlerts
CHECK_DEADLOCK FALSE
