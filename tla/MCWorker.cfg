SPECIFICATION FairSpec
CONSTANTS
    Results = {1, 2}
    Expired = {1}
    BufferSize = 1
    BatchSize = 2
    Name <- MCName
    MaxCardinality = 1
    QueueSize = 1
    Origins = {TRUE, FALSE}
INVARIANTS
    TypeOK
    SeriesBounded
    StoredOnce
    CloseFlushes
    DrainedIsSaved
    AlarmsFinish
PROPERTIES
    FlushedInTime
    WorkerStops
