\* Late, repeated and replayed events around cooldown, TTL and decay; every event may alert.
SPECIFICATION FairSpec
CONSTANTS
    None = None
    Weight <- MCWeight
    Keys = {k1}
    Rows <- LabelledRows
    ImpossibleTravelWindow = 8
    FailedLoginWindow = 2
    FailedLoginThreshold = 2
    VelocityWindow = 2
    VelocityThreshold = 3
    ApiRateWindow = 1
    ApiRateThreshold = 3
    MaxRetained = 3
    MaxIndicators = 3
    AlertThreshold = 40
    CriticalThreshold = 100
    Cooldown = 2
    TTL = 3
    Decay = 2
    OutOfOrder = 1
    MaxLag = 1
    Gaps = {1, 2}
    MaxTime = 7
    MaxEvents = 4
INVARIANTS
    CooldownSpacing
    AlertIdsUnique
    DecayTimerPending
    DedupWindow
PROPERTIES
    AttackNeverSilenced
    FiringEnds
CHECK_DEADLOCK FALSE
