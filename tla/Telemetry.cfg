SPECIFICATION Spec
CONSTANTS
    Events <- MeasuredEvents
    Batches <- ExportedBatches
    Queries <- SomeQueries
    Retention = 3
    Skew = 1
    MaxEvents = 7
    MaxRows = 2
    TraceSpans = 3
    TraceLogs = 2
    MaxRecords = 4
    MaxNow = 6
    MaxCalls = 1
INVARIANTS
    TypeOK
    OnlyTheOldestAreLost
    ResultsAreHonest
CHECK_DEADLOCK FALSE
