--------------------------- MODULE IngestionWorker --------------------------
(***************************************************************************)
(* The consumer loop (sqs_consumer.py) and the job it dispatches           *)
(* (ingestion_worker.py, pipelines/ingestion/pipeline.py).  A worker takes *)
(* one message at a time; "pc" names the awaited call it is about to make. *)
(***************************************************************************)
EXTENDS IngestionStore

CONSTANT Workers
ASSUME WorkersAssumption == IsFiniteSet(Workers)

VARIABLE worker

NoMessage == <<None, None>>

WorkerState ==
    {"idle", "claim", "markDoc", "load", "dedup", "upsert", "findPred", "deletePred",
     "rollback", "archive", "readyJob", "readyDoc", "failJob", "failDoc", "ack",
     "giveUpDoc", "giveUpJob", "drop"}

\* Between the claim of a job and the write that settles it.
Owning ==
    {"markDoc", "load", "dedup", "upsert", "findPred", "deletePred", "rollback", "archive",
     "readyJob", "failJob"}

\* Inside the try block of process_job, outside _rollback_new_vectors.
Guarded == {"load", "dedup", "upsert", "findPred", "archive"}

\* Awaited calls whose exception reaches _dispatch as a transient failure at once.
Unguarded == {"claim", "markDoc", "readyJob", "readyDoc", "failJob", "failDoc"}

Idle == [pc |-> "idle", msg |-> NoMessage, receives |-> 0, version |-> 0,
         lineage_id |-> None, fresh |-> {}, pred |-> None, error |-> "none"]

WorkerRecord ==
    [pc : WorkerState, msg : Messages \cup {NoMessage}, receives : 0..MAX_RECEIVE_COUNT,
     version : Nat, lineage_id : Docs \cup {None}, fresh : SUBSET AllHashes,
     pred : Docs \cup {None}, error : {"none", "transient", "permanent"}]

WorkerInit == worker = [w \in Workers |-> Idle]

JobOf(w) == worker[w].msg[1]
DocOf(w) == jobs[JobOf(w)].document_id      \* payload.document_id
At(w, pc) == worker[w].pc = pc
Owns(w, j) == worker[w].pc \in Owning /\ JobOf(w) = j

MoveTo(w, pc) == worker' = [worker EXCEPT ![w].pc = pc]
\* A handler that forgets the job.
FailsWithoutJob(w, error) ==
    worker' = [worker EXCEPT ![w].pc = "failDoc", ![w].error = error]

Fails(w, error) ==
    worker' = [worker EXCEPT ![w].pc = "failJob", ![w].error = error]

\* The dispatch of a message ends.  The offset of a handled Kafka message is
\* committed by a later poll of the same consumer.
Released(b, w) ==
    LET m == worker[w].msg IN
    IF /\ Backend = "kafka"
       /\ b[m].state = "hidden"
       /\ \A v \in Workers \ {w} : worker[v].msg # m
    THEN [b EXCEPT ![m].state = "handled"]
    ELSE b

EndDispatch(w, b) ==
    /\ worker' = [worker EXCEPT ![w] = Idle]
    /\ broker' = Released(b, w)

-----------------------------------------------------------------------------
(* run_consumer and set_processing. *)

Receive(w, m) ==
    /\ At(w, "idle")
    /\ broker[m].state = "visible"
    /\ broker' = Received(m)
    /\ worker' = [worker EXCEPT ![w] = [Idle EXCEPT !.pc = "claim", !.msg = m,
                                                    !.receives = Receptions(m)]]
    /\ NoFault
    /\ UNCHANGED <<docs, jobs, files, vectors, vectorStore>>

\* Two claims that are not the compare-and-set of the code.
ClaimableIfUnsettled(j) == jobs[j].status \in {"queued", "processing"}
ClaimableAnyway(j) == Exists(jobs[j])

Claimable(j) == jobs[j].status = "queued"

Claim(w) ==
    /\ At(w, "claim")
    /\ Claimable(JobOf(w))
    /\ jobs' = [jobs EXCEPT ![JobOf(w)].status = "processing"]
    /\ MoveTo(w, "markDoc")
    /\ NoFault
    /\ UNCHANGED <<docs, files, vectors, vectorStore, broker>>

\* "job_already_processing": process_job returns and the message is acknowledged.
SkipClaimed(w) ==
    /\ At(w, "claim")
    /\ ~Claimable(JobOf(w))
    /\ MoveTo(w, "ack")
    /\ NoFault
    /\ UNCHANGED <<docs, jobs, files, vectors, vectorStore, broker>>

MarkDocumentProcessing(w) ==
    /\ At(w, "markDoc")
    /\ docs' = SetDocStatus(DocOf(w), "processing")
    /\ MoveTo(w, "load")
    /\ NoFault
    /\ UNCHANGED <<jobs, files, vectors, vectorStore, broker>>

-----------------------------------------------------------------------------
(* The pipeline. *)

LoadDocument(w) ==
    /\ At(w, "load")
    /\ LET d == docs[DocOf(w)] IN
       IF Exists(d)
       THEN worker' = [worker EXCEPT ![w].pc = "dedup", ![w].version = d.version,
                                     ![w].lineage_id = d.lineage_id]
       ELSE Fails(w, "permanent")
    /\ NoFault
    /\ UNCHANGED <<docs, jobs, files, vectors, vectorStore, broker>>

\* Lines 48-61 of the pipeline: the chunks of the stored file whose hash is not in
\* the namespace yet, whichever document put it there.  A missing file is an exception of
\* get_file, a document without chunks is refused for good.
Deduplicate(w) ==
    /\ At(w, "dedup")
    /\ LET file == files[DocOf(w)] IN
       IF file = NoContent THEN Fails(w, "transient")
       ELSE IF ChunksOf[file] = {} THEN Fails(w, "permanent")
       ELSE worker' = [worker EXCEPT ![w].pc = "upsert",
                                     ![w].fresh = ChunksOf[file] \ SearchableHashes]
    /\ NoFault
    /\ UNCHANGED <<docs, jobs, files, vectors, vectorStore, broker>>

\* Forgets to write the rows.
UpsertSkipped(w) ==
    /\ At(w, "upsert")
    /\ worker' = [worker EXCEPT ![w].pc = "findPred", ![w].fresh = {}]
    /\ NoFault
    /\ UNCHANGED <<docs, jobs, files, vectors, vectorStore, broker>>

Upsert(w) ==
    /\ At(w, "upsert")
    /\ vectors' = vectors \cup ({DocOf(w)} \X worker[w].fresh)
    /\ worker' = [worker EXCEPT ![w].pc = "findPred", ![w].fresh = {}]
    /\ NoFault
    /\ UNCHANGED <<docs, jobs, files, vectorStore, broker>>

-----------------------------------------------------------------------------
(* _finalize_replacement_if_needed. *)

\* The query without its version.
SupersededOfAnyVersion(w) ==
    {p \in Docs : /\ worker[w].version > 1
                  /\ Live(p)
                  /\ docs[p].lineage_id = worker[w].lineage_id}

Superseded(w) ==
    {p \in Docs : /\ worker[w].version > 1
                  /\ Live(p)
                  /\ docs[p].lineage_id = worker[w].lineage_id
                  /\ docs[p].version = worker[w].version - 1}

FindPredecessorToArchive(w) ==
    /\ At(w, "findPred")
    /\ IF Superseded(w) = {} THEN MoveTo(w, "readyJob")
       ELSE \E p \in Superseded(w) :
               IF SupportsDelete
               THEN worker' = [worker EXCEPT ![w].pc = "deletePred", ![w].pred = p]
               ELSE Fails(w, "permanent")
    /\ NoFault
    /\ UNCHANGED <<docs, jobs, files, vectors, vectorStore, broker>>

\* Archives without deleting.
KeepPredecessorVectors(w) ==
    /\ At(w, "deletePred")
    /\ MoveTo(w, "archive")
    /\ NoFault
    /\ UNCHANGED <<docs, jobs, files, vectors, vectorStore, broker>>

DeletePredecessorVectors(w) ==
    /\ At(w, "deletePred")
    /\ vectors' = vectors \ VectorsOf(worker[w].pred)
    /\ MoveTo(w, "archive")
    /\ NoFault
    /\ UNCHANGED <<docs, jobs, files, vectorStore, broker>>

PredecessorDeletionRaises(w) ==
    /\ At(w, "deletePred")
    /\ Fault
    /\ MoveTo(w, "rollback")
    /\ UNCHANGED <<docs, jobs, files, vectors, vectorStore, broker, abandoned>>

\* Line 140: the new document's vectors go, then the first exception is raised again.
RollbackVectors(w) ==
    /\ At(w, "rollback")
    /\ vectors' = vectors \ VectorsOf(DocOf(w))
    /\ Fails(w, "transient")
    /\ NoFault
    /\ UNCHANGED <<docs, jobs, files, vectorStore, broker>>

ArchivePredecessor(w) ==
    /\ At(w, "archive")
    /\ LET p == worker[w].pred IN
       docs' = IF Exists(docs[p]) THEN [docs EXCEPT ![p].superseded_by = DocOf(w)] ELSE docs
    /\ MoveTo(w, "readyJob")
    /\ NoFault
    /\ UNCHANGED <<jobs, files, vectors, vectorStore, broker>>

-----------------------------------------------------------------------------
(* The writes that settle the job and its document. *)

ReadyJob(w) ==
    /\ At(w, "readyJob")
    /\ jobs' = SetJobStatus(JobOf(w), "ready")
    /\ MoveTo(w, "readyDoc")
    /\ NoFault
    /\ UNCHANGED <<docs, files, vectors, vectorStore, broker>>

ReadyDoc(w) ==
    /\ At(w, "readyDoc")
    /\ docs' = SetDocStatus(DocOf(w), "ready")
    /\ MoveTo(w, "ack")
    /\ NoFault
    /\ UNCHANGED <<jobs, files, vectors, vectorStore, broker>>

FailJob(w) ==
    /\ At(w, "failJob")
    /\ jobs' = LET failed == SetJobStatus(JobOf(w), "failed") IN
               IF Exists(jobs[JobOf(w)])
               THEN [failed EXCEPT ![JobOf(w)].error_type = worker[w].error] ELSE failed
    /\ MoveTo(w, "failDoc")
    /\ NoFault
    /\ UNCHANGED <<docs, files, vectors, vectorStore, broker>>

\* Deletes the message although the attempt failed.
AfterTransientDeleting(w) ==
    IF worker[w].receives >= MAX_RECEIVE_COUNT
    THEN MoveTo(w, "giveUpDoc") /\ UNCHANGED broker
    ELSE EndDispatch(w, Deleted(worker[w].msg))

\* Line 99: the message of a transient failure stays on the queue until its third
\* reception.
AfterTransient(w) ==
    IF worker[w].receives >= MAX_RECEIVE_COUNT
    THEN MoveTo(w, "giveUpDoc") /\ UNCHANGED broker
    ELSE EndDispatch(w, broker)

FailDoc(w) ==
    /\ At(w, "failDoc")
    /\ docs' = SetDocStatus(DocOf(w), "failed")
    /\ IF worker[w].error = "permanent"
       THEN MoveTo(w, "giveUpDoc") /\ UNCHANGED broker
       ELSE AfterTransient(w)
    /\ NoFault
    /\ UNCHANGED <<jobs, files, vectors, vectorStore>>

-----------------------------------------------------------------------------
(* _dispatch after process_job. *)

Ack(w) ==
    /\ At(w, "ack")
    /\ EndDispatch(w, Deleted(worker[w].msg))
    /\ NoFault
    /\ UNCHANGED <<docs, jobs, files, vectors, vectorStore>>

GiveUpDoc(w) ==
    /\ At(w, "giveUpDoc")
    /\ docs' = SetDocStatus(DocOf(w), "failed")
    /\ MoveTo(w, "giveUpJob")
    /\ NoFault
    /\ UNCHANGED <<jobs, files, vectors, vectorStore, broker>>

GiveUpJob(w) ==
    /\ At(w, "giveUpJob")
    /\ jobs' = SetJobStatus(JobOf(w), "failed")
    /\ MoveTo(w, "drop")
    /\ NoFault
    /\ UNCHANGED <<docs, files, vectors, vectorStore, broker>>

Drop(w) ==
    /\ At(w, "drop")
    /\ EndDispatch(w, Deleted(worker[w].msg))
    /\ NoFault
    /\ UNCHANGED <<docs, jobs, files, vectors, vectorStore>>

-----------------------------------------------------------------------------
(* Failing calls. *)

\* An exception inside the try of process_job: the job is failed as transient.
\* PredecessorDeletionRaises is the one that rolls back first.
GuardedCallRaises(w) ==
    /\ worker[w].pc \in Guarded \cup {"rollback"}
    /\ Fault
    /\ Fails(w, "transient")
    /\ UNCHANGED <<docs, jobs, files, vectors, vectorStore, broker, abandoned>>

\* Everything else reaches _dispatch as it is.  Nothing was claimed yet at "claim" and
\* nothing is left to write at "ack"; in between a write is skipped for good.
UnguardedCallRaises(w) ==
    /\ worker[w].pc \in Unguarded \/ (worker[w].pc = "ack" /\ Backend = "sqs")
    /\ Fault
    /\ AfterTransient(w)
    /\ abandoned' = IF worker[w].pc \in {"claim", "ack"} THEN abandoned
                    ELSE abandoned \cup {JobOf(w)}
    /\ UNCHANGED <<docs, jobs, files, vectors, vectorStore>>

\* The inner try blocks of _dispatch only log.
GiveUpRaises(w) ==
    /\ worker[w].pc \in {"giveUpDoc", "giveUpJob"}
    /\ Fault
    /\ MoveTo(w, "drop")
    /\ abandoned' = abandoned \cup {JobOf(w)}
    /\ UNCHANGED <<docs, jobs, files, vectors, vectorStore, broker>>

\* The process dies, or the deletion of a dropped message escapes run_consumer; a
\* restarted worker is idle.  The broker keeps the message hidden for now.
WorkerCrashes(w) ==
    /\ worker[w].pc # "idle"
    /\ Fault
    /\ worker' = [worker EXCEPT ![w] = Idle]
    /\ abandoned' = IF worker[w].pc \in {"claim", "ack", "drop"} THEN abandoned
                    ELSE abandoned \cup {JobOf(w)}
    /\ UNCHANGED <<docs, jobs, files, vectors, vectorStore, broker>>

WorkerProceeds(w) ==
    \/ \E m \in Messages : Receive(w, m)
    \/ Claim(w) \/ SkipClaimed(w) \/ MarkDocumentProcessing(w)
    \/ LoadDocument(w) \/ Deduplicate(w) \/ Upsert(w)
    \/ FindPredecessorToArchive(w) \/ DeletePredecessorVectors(w) \/ RollbackVectors(w)
    \/ ArchivePredecessor(w)
    \/ ReadyJob(w) \/ ReadyDoc(w) \/ FailJob(w) \/ FailDoc(w)
    \/ Ack(w) \/ GiveUpDoc(w) \/ GiveUpJob(w) \/ Drop(w)

WorkerFails(w) ==
    \/ PredecessorDeletionRaises(w) \/ GuardedCallRaises(w) \/ UnguardedCallRaises(w)
    \/ GiveUpRaises(w) \/ WorkerCrashes(w)

WorkerStep == \E w \in Workers : WorkerProceeds(w) \/ WorkerFails(w)

WorkerTypeOK == worker \in [Workers -> WorkerRecord]

=============================================================================
