SPECIFICATION FairSpec
CONSTANTS
    Call <- OneCall
    Stored = TRUE
    MaxReplans = 1
    MaxCommands = 3
    MaxApprovals = 2
    MaxWorkers = 1
    MaxRestarts = 1
INVARIANTS
    TypeOK
    
    CompletedIsSettled

    
    
CHECK_DEADLOCK FALSE
