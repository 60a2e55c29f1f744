SPECIFICATION Spec
CONSTANTS
    NumPayloads = 4
    MaxRequest = 2
    Stream <- TwoTopics
    MaxQueue = 2
    BatchSize = 2
    DropOldest = TRUE
    Async = FALSE
    WalMax = 99
    CompactAt = 99
    MaxRestarts = 1
    MaxLog = 8
    Faults = {"partial", "walTorn"}
INVARIANTS
    ReplayConsistent
    QueueBounded
CHECK_DEADLOCK FALSE
