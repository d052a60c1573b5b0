------------------------------ MODULE Ingestion ------------------------------
(***************************************************************************)
(* Document ingestion as a whole: upload requests, the broker, workers,    *)
(* delete and reindex requests and the dead-letter sweep, interleaved at   *)
(* every awaited call.                                                     *)
(***************************************************************************)
EXTENDS DocumentUpload, IngestionWorker, IngestionAdmin, DlqSweep

vars == <<docs, jobs, files, vectors, vectorStore, broker, faults, abandoned,
          uploads, worker, deletions, reindex, sweeps>>

TypeOK ==
    /\ StoreTypeOK
    /\ UploadTypeOK
    /\ WorkerTypeOK
    /\ AdminTypeOK
    /\ SweepTypeOK

Init == StoreInit /\ UploadInit /\ WorkerInit /\ AdminInit /\ SweepInit

Next ==
    \/ UploadStep /\ UNCHANGED <<worker, deletions, reindex, sweeps>>
    \/ BrokerStep /\ UNCHANGED <<uploads, worker, deletions, reindex, sweeps>>
    \/ WorkerStep /\ UNCHANGED <<uploads, deletions, reindex, sweeps>>
    \/ DeletionStep /\ UNCHANGED <<uploads, worker, sweeps>>
    \/ ReindexStep /\ UNCHANGED <<uploads, worker, sweeps>>
    \/ SweepStep /\ UNCHANGED <<uploads, worker, deletions, reindex>>

Spec == Init /\ [][Next]_vars

\* A worker that is up keeps consuming, and a hidden message reappears: the visibility
\* timeout, or the rebalance that follows the death of a consumer, is only a matter of
\* time.  A request already running goes on.  Nobody is obliged to send a request, and
\* nothing has to fail.
Fairness ==
    /\ \A w \in Workers :
          WF_vars(WorkerProceeds(w) /\ UNCHANGED <<uploads, deletions, reindex, sweeps>>)
    /\ \A m \in Messages :
          WF_vars(Redeliver(m) /\ UNCHANGED <<uploads, worker, deletions, reindex, sweeps>>)
    /\ \A d \in Docs :
          WF_vars(UploadProceeds(d) /\ UNCHANGED <<worker, deletions, reindex, sweeps>>)

FairSpec == Spec /\ Fairness

-----------------------------------------------------------------------------
(* Jobs and messages. *)

\* set_processing is a compare-and-set: however often a message is delivered, at most
\* one worker is between the claim of a job and the write that settles it.
SingleOwner ==
    \A v, w \in Workers, j \in Jobs : Owns(v, j) /\ Owns(w, j) => v = w

\* A job shown as processing is being processed, unless a failure cut its bookkeeping
\* short: there is no third way to leave a job in "processing".
ProcessingHasOwner ==
    \A j \in Jobs :
       jobs[j].status = "processing" => j \in abandoned \/ \E w \in Workers : Owns(w, j)

\* Requests that will still send a message for job j, or fail the job instead.
WillSend(j) ==
    \/ j \in Docs /\ uploads[j].pc \in {"send", "failDoc", "failJob"}
    \/ \E r \in Reindexers : j \in Unsent(r)

\* A queued job always has a message that will make a worker look at it: on SQS a message
\* is never deleted while its job is queued.
QueuedJobHasMessage ==
    \A j \in Jobs :
       jobs[j].status = "queued" =>
          \/ j \in abandoned
          \/ WillSend(j)
          \/ \E m \in Messages : m[1] = j /\ InBroker(m)

\* An upload that answers with an error leaves nothing behind that looks alive: neither
\* a file without a record nor a document that waits for a worker.
RejectedUploadLeavesNothing ==
    \A d \in Docs :
       (uploads[d].pc = "rejected" /\ d \notin abandoned) =>
          /\ docs[d].status \in {"absent", "failed", "deleted"}
          /\ jobs[d].status \in {"absent", "failed", "deleted"}
          /\ Exists(docs[d]) => Exists(jobs[d]) \/ d \in Deletable
          /\ Exists(docs[d]) \/ d \in Deletable \/ files[d] = NoContent

-----------------------------------------------------------------------------
(* Documents and vectors. *)

\* "Upsert Vector Store --> Mark Document Ready" (README): every chunk of a ready
\* document that is not archived can be found in the namespace.
ReadyIsSearchable ==
    \A d \in Docs :
       (Live(d) /\ docs[d].status = "ready") =>
          ChunksOf[docs[d].content_hash] \subseteq SearchableHashes

\* An archived document is superseded by the next version of its own lineage.
ArchivedChain ==
    \A p \in Docs :
       Archived(p) => LET q == docs[p].superseded_by IN
                      /\ docs[q].lineage_id = docs[p].lineage_id
                      /\ docs[q].version = docs[p].version + 1

\* Another document of the same lineage and version: concurrent uploads of one content
\* found the same predecessor.
HasSibling(p) ==
    \E q \in Docs \ {p} :
       /\ docs[q].status # "absent"
       /\ docs[q].lineage_id = docs[p].lineage_id
       /\ docs[q].version = docs[p].version

\* Queries no longer find an archived version.  The worker does not ask whether the document
\* it archives is ready: of two siblings it may pick the one still being processed.
ArchivedNotSearchable ==
    \A p \in Docs : Archived(p) /\ ~HasSibling(p) => VectorsOf(p) = {}

\* The job a ready document points to, the one get_document_status reports, is ready
\* too, or went with the jobs of a document being deleted.
ReadyDocHasReadyJob ==
    \A d \in Docs :
       docs[d].status = "ready" => jobs[docs[d].job_id].status \in {"ready", "deleted"}

\* reindex_agent wipes the namespace before it lists the documents to process again, so
\* what a reindex job has made ready stays findable, chunks shared with others included.
ReindexedIsSearchable ==
    \A d \in Docs :
       (docs[d].status = "ready" /\ docs[d].job_id \in Jobs \ Docs) =>
          ChunksOf[docs[d].content_hash] \subseteq SearchableHashes

-----------------------------------------------------------------------------
(* The abstract specification. *)

\* get_document_status: the job's status, or the document's when it has no job record.
ReportedStatus(d) ==
    IF ~Exists(docs[d]) THEN "none"
    ELSE IF Exists(jobs[docs[d].job_id]) THEN jobs[docs[d].job_id].status
    ELSE docs[d].status

Lifecycle == INSTANCE DocumentLifecycle
    WITH Documents <- Docs, status <- [d \in Docs |-> ReportedStatus(d)]

\* The status a client polls follows the lifecycle: no status is skipped backwards, no
\* document is processed twice, whatever is redelivered or fails.
ImplementsLifecycle == Lifecycle!Spec

-----------------------------------------------------------------------------
(* Progress. *)

Settled(j) == jobs[j].status \notin {"queued", "processing"}

\* Every job whose bookkeeping no failure cut short is settled in the end.
EveryJobSettles ==
    \A j \in Jobs : jobs[j].status = "queued" ~> (Settled(j) \/ j \in abandoned)

\* README: "DLQ / Retry (3 attempts)".  A job the sweep sent again is tried again.
SweptJobIsRetried ==
    \A j \in Jobs, s \in Sweeps :
       (jobs[j].status = "failed" /\ InBroker(<<j, s>>)) ~> jobs[j].status # "failed"

=============================================================================
