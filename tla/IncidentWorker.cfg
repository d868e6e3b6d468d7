\* The worker alone, with a crash, a lost membership, a failure and stale incidents.
SPECIFICATION FairSpec
CONSTANTS
    None = None
    c1 = c1
    Analysts = {}
    Identities = {c1}
    Bodies <- TwoBodies
    Window = 0
    EngineColumnsMapped = TRUE
    MaxAlerts = 3
    MaxRequests = 0
    MaxCrashes = 1
    MaxEvictions = 1
    MaxFailures = 1
    MaxTime = 1
INVARIANTS
    CorroboratedByBoth
    SeverityOfWorstAlert
    RecordedOncePerSession
PROPERTY EveryAlertRecorded
CHECK_DEADLOCK FALSE
