\* Every kind of message and failure, crashes and evictions.
SPECIFICATION FairSpec
CONSTANTS
    Kinds = {"row", "delete", "poison"}
    MaxRetries = 1
    MaxMessages = 4
    MaxCrashes = 2
    MaxEvictions = 2
    MaxFailures = 2
INVARIANTS
    DuplicatesBounded
PROPERTIES
    ImplementsAtLeastOnce
    EverythingAttempted
CHECK_DEADLOCK FALSE
