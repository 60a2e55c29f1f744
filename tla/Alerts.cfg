SPECIFICATION FairSpec
CONSTANTS
    Rule = {r1}
    Evaluator <- Loop
    User = {"u1"}
    MinOccurrence = 2
    MaxEvents = 2
    MaxEdits = 2
    MaxClock = 3
    MaxRefusals = 1
    MaxRestarts = 1
INVARIANTS
    TypeOK
PROPERTIES
    
    
    EventuallyQuiet
CHECK_DEADLOCK FALSE
