SPECIFICATION Spec
CONSTANTS
    Worker <- OneWorker
    NoWorker = "none"
    Partition <- LogsAndMetrics
    Buffered <- Logs
    MaxRecords = 2
    MaxPoll = 2
    WriterBatch = 2
    FlushTries = 2
    DlqOn = TRUE
    WaitForInsert = FALSE
    MaxDisruptions = 1
    Faults = {"poison", "insert", "dlq", "commit"}
INVARIANTS
    TypeOK
    BatchConfirmed
CHECK_DEADLOCK FALSE
