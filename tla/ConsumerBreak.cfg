SPECIFICATION Spec
CONSTANTS
    Worker <- OneWorker
    NoWorker = "none"
    Partition <- Logs
    Buffered <- Logs
    MaxRecords = 4
    MaxPoll = 2
    WriterBatch = 3
    FlushTries = 2
    DlqOn = FALSE
    WaitForInsert = TRUE
    MaxDisruptions = 2
    Faults = {"poison"}
INVARIANTS
    CommittedIsSafe
CHECK_DEADLOCK FALSE
