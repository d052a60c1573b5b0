--------------------------- MODULE IngestionStore ---------------------------
(***************************************************************************)
(* What the parts of document ingestion share and no transaction spans:    *)
(* the MongoDB collections "documents" and "ingestion_jobs", the file      *)
(* store, the vector namespace of one agent and the message broker.  Every *)
(* operation below is one awaited call of the code, hence atomic; anything *)
(* can happen between two of them.                                         *)
(***************************************************************************)
EXTENDS Integers, FiniteSets

CONSTANTS
    MaxDocs,          \* uploads considered
    MaxReindexJobs,   \* jobs that reindexing may create
    MaxSweeps,        \* runs of the dead-letter sweep
    MaxFaults,        \* failing calls and crashed processes, over a behaviour
    Contents,         \* file contents
    ChunksOf,         \* the chunk hashes of each content, under one agent configuration
    Backend,          \* settings.queue_backend
    AmbiguousSend,    \* whether a send that raises may have reached the broker
    VectorStores      \* the vector stores the agent may be configured with

ASSUME BoundsAssumption ==
    /\ MaxDocs \in Nat \ {0}
    /\ MaxReindexJobs \in Nat
    /\ MaxSweeps \in Nat
    /\ MaxFaults \in Nat
ASSUME ContentAssumption == DOMAIN ChunksOf = Contents
ASSUME BackendAssumption == Backend \in {"sqs", "kafka", "local"}
ASSUME AmbiguousSendAssumption == AmbiguousSend \in BOOLEAN
ASSUME VectorStoreAssumption == VectorStores \subseteq {"pgvector", "qdrant", "pinecone"}

VARIABLES
    docs,             \* collection "documents"
    jobs,             \* collection "ingestion_jobs"
    files,            \* the file store: content of the object each document was given
    vectors,          \* <<document, chunk hash>> rows of the agent's namespace
    vectorStore,      \* agent.vector_store
    broker,           \* the ingestion queue or topic
    faults,           \* failures so far, bounded by MaxFaults
    abandoned         \* history: jobs whose bookkeeping a failure cut short

storeVars == <<docs, jobs, files, vectors, vectorStore, broker, faults, abandoned>>

None == 0
\* Documents in the order of created_at.
Docs == 1..MaxDocs
\* The upload of document d allocates job d; reindexing allocates the others.
Jobs == 1..(MaxDocs + MaxReindexJobs)
\* The n-th send for a job: 0 by the upload or the reindexing, n by the n-th sweep.
Messages == Jobs \X (0..MaxSweeps)
NoContent == "none"
AllHashes == UNION {ChunksOf[c] : c \in Contents}

\* "absent": no record yet; "deleted": the record is gone for good.
Status == {"absent", "queued", "processing", "ready", "failed", "deleted"}
Exists(record) == record.status \notin {"absent", "deleted"}

Document ==
    [status : Status, job_id : Jobs \cup {None}, version : Nat,
     lineage_id : Docs \cup {None}, superseded_by : Docs \cup {None},
     content_hash : Contents \cup {NoContent}]
NoDocument ==
    [status |-> "absent", job_id |-> None, version |-> 0, lineage_id |-> None,
     superseded_by |-> None, content_hash |-> NoContent]

Job == [status : Status, document_id : Docs \cup {None},
        error_type : {"none", "transient", "permanent"}, retry_count : Nat]
NoJob == [status |-> "absent", document_id |-> None, error_type |-> "none", retry_count |-> 0]

\* archived_at and superseded_by_document_id are only ever written together.
Archived(d) == docs[d].superseded_by # None
Live(d) == Exists(docs[d]) /\ ~Archived(d)
SearchableHashes == {v[2] : v \in vectors}
VectorsOf(d) == {v \in vectors : v[1] = d}

\* Only PgVectorStore has delete_document.
SupportsDelete == vectorStore = "pgvector"

StoreInit ==
    /\ docs = [d \in Docs |-> NoDocument]
    /\ jobs = [j \in Jobs |-> NoJob]
    /\ files = [d \in Docs |-> NoContent]
    /\ vectors = {}
    /\ vectorStore \in VectorStores
    /\ broker = [m \in Messages |-> [state |-> "unsent", receives |-> 0]]
    /\ faults = 0
    /\ abandoned = {}

-----------------------------------------------------------------------------

Fault == faults < MaxFaults /\ faults' = faults + 1
NoFault == UNCHANGED <<faults, abandoned>>

\* BaseDAO.update: an update whose query matches nothing changes nothing.
SetDocStatus(d, s) == IF Exists(docs[d]) THEN [docs EXCEPT ![d].status = s] ELSE docs
SetJobStatus(j, s) == IF Exists(jobs[j]) THEN [jobs EXCEPT ![j].status = s] ELSE jobs

\* Mistakes the job's id for the document's.
InsertJobForItself(j, d) ==
    [jobs EXCEPT ![j] = [NoJob EXCEPT !.status = "queued", !.document_id = j]]

InsertJob(j, d) == [jobs EXCEPT ![j] = [NoJob EXCEPT !.status = "queued", !.document_id = d]]

-----------------------------------------------------------------------------
(* The broker.  A message is visible to every consumer, or hidden by the    *)
(* one that received it, or (Kafka) handled and awaiting the auto-commit of *)
(* the consumer's next poll, or gone.                                       *)

MessageState == {"unsent", "visible", "hidden", "handled", "gone"}

\* The worker acts differently from MAX_RECEIVE_COUNT receptions on.
MAX_RECEIVE_COUNT == 3

\* Every send goes to a LocalQueueBackend of its own, which no consumer reads.
Enqueued(m) ==
    IF Backend = "local" THEN broker
    ELSE [broker EXCEPT ![m] = [state |-> "visible", receives |-> 0]]

\* What the broker can hold after a send that raised.
EnqueuedDespiteError(m) == {broker} \cup (IF AmbiguousSend THEN {Enqueued(m)} ELSE {})

\* KafkaProducer.send returns a future nobody looks at: a record the broker
\* refused is lost without an exception.
MayLoseSilently == Backend = "kafka"

\* SQS counts receptions; the Kafka backend always says 1.
Receptions(m) ==
    IF Backend = "sqs" /\ broker[m].receives < MAX_RECEIVE_COUNT
    THEN broker[m].receives + 1
    ELSE IF Backend = "sqs" THEN broker[m].receives ELSE 1

Received(m) == [broker EXCEPT ![m] = [state |-> "hidden", receives |-> Receptions(m)]]

\* backend.delete: DeleteMessage on SQS, nothing on Kafka.
Deleted(m) == IF Backend = "sqs" THEN [broker EXCEPT ![m].state = "gone"] ELSE broker

\* The visibility timeout runs out (SQS), or the partition moves to another
\* consumer before the offset was committed (Kafka).
Redeliver(m) ==
    /\ broker[m].state \in {"hidden", "handled"}
    /\ broker' = [broker EXCEPT ![m].state = "visible"]
    /\ UNCHANGED <<docs, jobs, files, vectors, vectorStore, faults, abandoned>>

CommitOffset(m) ==
    /\ broker[m].state = "handled"
    /\ broker' = [broker EXCEPT ![m].state = "gone"]
    /\ UNCHANGED <<docs, jobs, files, vectors, vectorStore, faults, abandoned>>

BrokerStep == \E m \in Messages : Redeliver(m) \/ CommitOffset(m)

InBroker(m) == broker[m].state \in {"visible", "hidden", "handled"}

\* The values the shared state can hold.
StoreTypeOK ==
    /\ docs \in [Docs -> Document]
    /\ jobs \in [Jobs -> Job]
    /\ files \in [Docs -> Contents \cup {NoContent}]
    /\ vectors \subseteq Docs \X AllHashes
    /\ vectorStore \in VectorStores
    /\ broker \in [Messages -> [state : MessageState, receives : 0..MAX_RECEIVE_COUNT]]
    /\ faults \in 0..MaxFaults
    /\ abandoned \subseteq Jobs

=============================================================================
