SPECIFICATION Spec
CONSTANTS
    Call <- OneCall
    Stored = TRUE
    MaxReplans = 1
    MaxCommands = 2
    MaxApprovals = 2
    MaxWorkers = 1
    MaxRestarts = 1
PROPERTIES
    TerminalIsFinal
CHECK_DEADLOCK FALSE
