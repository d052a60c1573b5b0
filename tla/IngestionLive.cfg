CONSTANTS
    w1 = w1
    w2 = w2
    r1 = r1
    ChunksOf <- MCChunksOf
    MaxDocs = 2
    MaxReindexJobs = 0
    MaxSweeps = 0
    MaxFaults = 1
    Contents = {"report", "notes"}
    Backend = "sqs"
    AmbiguousSend = FALSE
    VectorStores = {"pgvector"}
    DistinctContents = TRUE
    Workers <- Workers2
    Deletable = {}
    Reindexers = {}
    MaxDlqRetries = 0
CHECK_DEADLOCK FALSE
SPECIFICATION FairSpec
INVARIANTS
    ReadyIsSearchable
PROPERTIES
    EveryJobSettles
