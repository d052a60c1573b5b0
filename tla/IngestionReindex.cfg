CONSTANTS
    w1 = w1
    w2 = w2
    r1 = r1
    ChunksOf <- MCChunksOf
    MaxDocs = 2
    MaxReindexJobs = 2
    MaxSweeps = 0
    MaxFaults = 1
    Contents = {"report", "notes"}
    Backend = "kafka"
    AmbiguousSend = FALSE
    VectorStores = {"pgvector"}
    DistinctContents = TRUE
    Workers <- Workers1
    Deletable = {}
    Reindexers = {r1}
    MaxDlqRetries = 0
CHECK_DEADLOCK FALSE
SPECIFICATION Spec
INVARIANTS
    ReindexedIsSearchable
PROPERTIES
    ImplementsLifecycle
