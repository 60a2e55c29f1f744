SPECIFICATION FairSpec
CONSTANTS
    NumPayloads = 3
    MaxRequest = 2
    Stream <- TwoTopics
    MaxQueue = 2
    BatchSize = 2
    DropOldest = FALSE
    Async = TRUE
    WalMax = 99
    CompactAt = 2
    MaxRestarts = 1
    MaxLog = 8
    Faults = {"walWrite", "compact"}
INVARIANTS
    TypeOK
    Durable
    AckJustified
    WalReadable
    OrderKept
PROPERTIES
    IsAtLeastOnce
    EventuallyDrained
