CONSTANTS
    w1 = w1
    w2 = w2
    r1 = r1
    MaxDocs = 2
    MaxReindexJobs = 0
    MaxSweeps = 0
    MaxFaults = 1
    Contents = {"report"}
    ChunksOf <- MCChunksOf
    Backend = "sqs"
    AmbiguousSend = FALSE
    VectorStores = {"pgvector", "qdrant"}
    DistinctContents = FALSE
    Workers <- Workers2
    Deletable = {1}
    Reindexers = {}
    MaxDlqRetries = 0
CHECK_DEADLOCK FALSE
SPECIFICATION Spec
SYMMETRY WorkerSymmetry
INVARIANTS
    SingleOwner
    ProcessingHasOwner
    QueuedJobHasMessage
    ArchivedChain
    ArchivedNotSearchable
