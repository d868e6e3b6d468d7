\* An identity returns after more than ten decay intervals.
SPECIFICATION Spec
CONSTANTS
    None = None
    Weight <- MCWeight
    Keys = {}
    Rows <- LabelledRows
    ImpossibleTravelWindow = 8
    FailedLoginWindow = 2
    FailedLoginThreshold = 2
    VelocityWindow = 2
    VelocityThreshold = 3
    ApiRateWindow = 1
    ApiRateThreshold = 3
    MaxRetained = 3
    MaxIndicators = 3
    AlertThreshold = 40
    CriticalThreshold = 100
    Cooldown = 2
    TTL = 40
    Decay = 1
    OutOfOrder = 1
    MaxLag = 0
    Gaps = {1, 12}
    MaxTime = 15
    MaxEvents = 3
INVARIANTS
    HalvingsMatchElapsed
CHECK_DEADLOCK FALSE
