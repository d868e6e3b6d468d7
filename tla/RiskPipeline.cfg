\* Transfers, logins and account changes over crashes, restarts and a second submission.
SPECIFICATION FairSpec
CONSTANTS
    None = None
    a1 = a1
    c1 = c1
    ip1 = ip1
    Accounts = {a1}
    Customers = {c1}
    Addresses = {ip1}
    Bodies <- MCBodies
    MaxInFlight = 2
    MaxRestarts = 1
    MaxRows = 2
    MaxRedelivered = 2
    MaxFailures = 2
    MaxSubmissions = 2
INVARIANTS
    ExactlyOnce
    OwnerOfLastRow
    AlertsPublished
PROPERTIES
    EveryRowScored
CHECK_DEADLOCK FALSE
