\* Two analysts and the worker, and incidents too old for its lookup.
SPECIFICATION Spec
CONSTANTS
    None = None
    c1 = c1
    Analysts = {a1, a2}
    Identities = {c1}
    Bodies <- OneBody
    Window = 0
    EngineColumnsMapped = TRUE
    MaxAlerts = 2
    MaxRequests = 2
    MaxCrashes = 0
    MaxEvictions = 0
    MaxFailures = 0
    MaxTime = 1
INVARIANTS
    LookupUnambiguous
CHECK_DEADLOCK FALSE
