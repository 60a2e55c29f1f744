SPECIFICATION FairSpec
CONSTANTS
    Caller <- TwoCallers
    MaxRetries = 1
    MaxOutput = 1
    MaxRestarts = 1
    MaxOutages = 1
    Bridged = FALSE
    Faults = {"rewrite", "unavailable"}
INVARIANTS
    TypeOK
    OneVerdict
    CancelWins
    NoProcessLeft
    ExecuteTruth
PROPERTIES
    NotStartedAgain
    EventuallyOver
CHECK_DEADLOCK FALSE
