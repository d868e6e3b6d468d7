\* One takeover on the clock, one scenario triggered, and the customers' own traffic.
SPECIFICATION Spec
CONSTANTS
    None = None
    Nobody = Nobody
    g0 = g0
    g1 = g1
    g2 = g2
    Seeded = {g0, g1}
    Unseeded = {g2}
    Employees = {emp}
    Rogue = rogue
    DefaultVictim <- MCVictims
    Botnet = {"RU"}
    RingMembers <- MCRing
    LaunderingChain <- MCChain
    Repeat <- MCRepeat
    ExternalMule = mule
    Countries = {"US"}
    Period <- MCPeriod
    LargeTransfer = 10000
    AlertThreshold = 80
    Weight <- MCWeight
    ImpossibleTravelWindow = 0
    FailedLoginWindow = 0
    FailedLoginThreshold = 2
    VelocityWindow = 0
    VelocityThreshold = 2
    ApiRateWindow = 1
    ApiRateThreshold = 50
    MaxRetained = 3
    MaxIndicators = 8
    MaxInFlight = 2
    MaxTicks = 1
    MaxTriggers = 1
    MaxRows = 4
    MaxBacklog = 2
    MaxFaults = 1
    Active = {g0}
INVARIANTS
    VelocityIsBurst
    FailedLoginsSinceSuccess
    TakeoverAlarmed
    UnnoticedOnlyIfDivided
    QuietBaseline
CHECK_DEADLOCK FALSE
