SPECIFICATION FairSpec
CONSTANTS
    Worker <- TwoWorkers
    NoWorker = "none"
    Partition <- Logs
    Buffered <- Logs
    MaxRecords = 3
    MaxPoll = 2
    WriterBatch = 3
    FlushTries = 2
    DlqOn = TRUE
    WaitForInsert = TRUE
    MaxDisruptions = 1
    Faults = {"insert", "commit"}
INVARIANTS
    CommittedIsSafe
    NothingForgotten
PROPERTIES
    IsAtLeastOnce
CHECK_DEADLOCK FALSE
