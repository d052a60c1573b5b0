CONSTANTS
    w1 = w1
    w2 = w2
    r1 = r1
    MaxDocs = 1
    MaxReindexJobs = 1
    MaxSweeps = 1
    MaxFaults = 2
    Contents = {"report", "blank"}
    ChunksOf <- MCChunksOf
    Backend = "kafka"
    AmbiguousSend = FALSE
    VectorStores = {"pgvector"}
    DistinctContents = FALSE
    Workers <- Workers2
    Deletable = {}
    Reindexers = {r1}
    MaxDlqRetries = 1
CHECK_DEADLOCK FALSE
SPECIFICATION Spec
SYMMETRY WorkerSymmetry
INVARIANTS
    TypeOK
    RejectedUploadLeavesNothing
    ReadyDocHasReadyJob
PROPERTIES
    ImplementsLifecycle
