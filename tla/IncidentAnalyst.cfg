\* Two analysts and the worker on the same rows, and the metrics computed from them.
SPECIFICATION MetricsSpec
CONSTANTS
    None = None
    c1 = c1
    Analysts = {a1, a2}
    Identities = {c1}
    Bodies <- OneBody
    Window = 0
    EngineColumnsMapped = TRUE
    MaxAlerts = 2
    MaxRequests = 3
    MaxCrashes = 0
    MaxEvictions = 0
    MaxFailures = 1
    MaxTime = 0
    MaxReports = 1
SYMMETRY AnalystSymmetry
INVARIANTS
    
    CountMatchesLinks
    MetricsExplained
CHECK_DEADLOCK FALSE
