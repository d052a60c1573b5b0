CONSTANTS
    w1 = w1
    w2 = w2
    r1 = r1
    ChunksOf <- MCChunksOf
    MaxDocs = 1
    MaxReindexJobs = 0
    MaxSweeps = 2
    MaxFaults = 1
    Contents = {"report"}
    Backend = "sqs"
    AmbiguousSend = FALSE
    VectorStores = {"pgvector"}
    DistinctContents = FALSE
    Workers <- Workers1
    Deletable = {}
    Reindexers = {}
    MaxDlqRetries = 1
CHECK_DEADLOCK FALSE
SPECIFICATION FairSpec
PROPERTIES
    SweptJobIsRetried
