SPECIFICATION FairSpec
CONSTANTS
    Caller <- OneCaller
    MaxRetries = 0
    MaxOutput = 2
    MaxRestarts = 1
    MaxOutages = 0
    Bridged = TRUE
    Faults = {}

    
PROPERTIES
    EventuallyTold
CHECK_DEADLOCK FALSE
