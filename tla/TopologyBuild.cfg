SPECIFICATION FairSpec
CONSTANTS
    Request = {r1, r2, r3, r4}
    Param <- Namespaces
    KeyOf <- NamespaceKeys
    Isolated = TRUE
    Fallback = TRUE
    MaxProcs = 1
    MaxQueue = 1
INVARIANTS
    TypeOK
    SlotsKept
    TableExact
    
PROPERTIES
    EventuallyAnswered
CHECK_DEADLOCK FALSE
