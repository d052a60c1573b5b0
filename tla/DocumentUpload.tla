--------------------------- MODULE DocumentUpload ---------------------------
(***************************************************************************)
(* IngestionService.upload_document: a file, a document record, a job and  *)
(* a message are written one after the other to four stores, with a        *)
(* compensation for each step that raises.  Uploads of several documents   *)
(* run concurrently; document d is the d-th by created_at.                 *)
(***************************************************************************)
EXTENDS IngestionStore

CONSTANT DistinctContents   \* TRUE: no content is uploaded twice

ASSUME DistinctContentsAssumption == DistinctContents \in BOOLEAN

VARIABLE uploads            \* the request that uploads each document

UploadState ==
    {"off", "find", "put", "insertDoc", "insertJob", "send", "accepted",
     "undoFile", "undoJobFile", "undoDoc", "failDoc", "failJob", "rejected", "crashed"}

\* Where an upload request still has something to do.
UploadActive == UploadState \ {"off", "accepted", "rejected", "crashed"}

Upload == [pc : UploadState, version : Nat, lineage_id : Docs \cup {None},
           content : Contents \cup {NoContent}]

UploadInit ==
    uploads = [d \in Docs |->
                 [pc |-> "off", version |-> 0, lineage_id |-> None, content |-> NoContent]]

UploadMessage(d) == <<d, 0>>

Goto(d, pc) == uploads' = [uploads EXCEPT ![d].pc = pc]

-----------------------------------------------------------------------------

\* Lines 161-174: ids and created_at are taken before the first query.
StartUpload(d, c) ==
    /\ uploads[d].pc = "off"
    /\ d > 1 => uploads[d - 1].pc # "off"
    /\ DistinctContents => \A e \in Docs : uploads[e].content # c
    /\ uploads' = [uploads EXCEPT ![d].pc = "find", ![d].content = c]
    /\ NoFault
    /\ UNCHANGED <<docs, jobs, files, vectors, vectorStore, broker>>

\* The ready, unarchived documents of the agent with this content.
Predecessors(c) ==
    {p \in Docs : Live(p) /\ docs[p].status = "ready" /\ docs[p].content_hash = c}

\* The newest of them.
Newest(ds) == CHOOSE p \in ds : \A q \in ds : q <= p

FindPredecessor(d) ==
    /\ uploads[d].pc = "find"
    /\ LET preds == Predecessors(uploads[d].content)
           p == Newest(preds)
       IN uploads' = [uploads EXCEPT
                        ![d].pc = "put",
                        ![d].version = IF preds = {} THEN 1 ELSE docs[p].version + 1,
                        ![d].lineage_id = IF preds = {} THEN d ELSE docs[p].lineage_id]
    /\ NoFault
    /\ UNCHANGED <<docs, jobs, files, vectors, vectorStore, broker>>

PutFile(d) ==
    /\ uploads[d].pc = "put"
    /\ files' = [files EXCEPT ![d] = uploads[d].content]
    /\ Goto(d, "insertDoc")
    /\ NoFault
    /\ UNCHANGED <<docs, jobs, vectors, vectorStore, broker>>

InsertDocument(d) ==
    /\ uploads[d].pc = "insertDoc"
    /\ docs' = [docs EXCEPT ![d] =
                  [status |-> "queued", job_id |-> d, version |-> uploads[d].version,
                   lineage_id |-> uploads[d].lineage_id, superseded_by |-> None,
                   content_hash |-> uploads[d].content]]
    /\ Goto(d, "insertJob")
    /\ NoFault
    /\ UNCHANGED <<jobs, files, vectors, vectorStore, broker>>

InsertUploadJob(d) ==
    /\ uploads[d].pc = "insertJob"
    /\ jobs' = InsertJob(d, d)
    /\ Goto(d, "send")
    /\ NoFault
    /\ UNCHANGED <<docs, files, vectors, vectorStore, broker>>

SendUploadMessage(d) ==
    /\ uploads[d].pc = "send"
    /\ broker' = Enqueued(UploadMessage(d))
    /\ Goto(d, "accepted")
    /\ NoFault
    /\ UNCHANGED <<docs, jobs, files, vectors, vectorStore>>

LoseUploadMessage(d) ==
    /\ uploads[d].pc = "send"
    /\ MayLoseSilently
    /\ Goto(d, "accepted")
    /\ Fault
    /\ abandoned' = abandoned \cup {d}
    /\ UNCHANGED <<docs, jobs, files, vectors, vectorStore, broker>>

-----------------------------------------------------------------------------
(* Compensation.  delete_file of lines 216 and 229, delete_one of line 231, *)
(* the two updates of lines 256-263.                                        *)

UndoFile(d) ==
    /\ uploads[d].pc \in {"undoFile", "undoJobFile"}
    /\ files' = [files EXCEPT ![d] = NoContent]
    /\ Goto(d, IF uploads[d].pc = "undoFile" THEN "rejected" ELSE "undoDoc")
    /\ NoFault
    /\ UNCHANGED <<docs, jobs, vectors, vectorStore, broker>>

UndoDocument(d) ==
    /\ uploads[d].pc = "undoDoc"
    /\ docs' = SetDocStatus(d, "deleted")
    /\ Goto(d, "rejected")
    /\ NoFault
    /\ UNCHANGED <<jobs, files, vectors, vectorStore, broker>>

FailUploadedDocument(d) ==
    /\ uploads[d].pc = "failDoc"
    /\ docs' = SetDocStatus(d, "failed")
    /\ Goto(d, "failJob")
    /\ NoFault
    /\ UNCHANGED <<jobs, files, vectors, vectorStore, broker>>

FailUploadedJob(d) ==
    /\ uploads[d].pc = "failJob"
    /\ jobs' = SetJobStatus(d, "failed")
    /\ Goto(d, "rejected")
    /\ NoFault
    /\ UNCHANGED <<docs, files, vectors, vectorStore, broker>>

\* A failed send that is only reported to the client.
AfterUploadErrorUnsettled(pc) ==
    CASE pc = "insertDoc" -> "undoFile"
      [] pc = "insertJob" -> "undoJobFile"
      [] OTHER -> "rejected"

\* Where a raising call leads: nothing to undo yet, a compensation, or, when the
\* compensation itself raises, the end of the request (line 233 only logs).
AfterUploadError(pc) ==
    CASE pc = "insertDoc" -> "undoFile"
      [] pc = "insertJob" -> "undoJobFile"
      [] pc = "send" -> "failDoc"
      [] OTHER -> "rejected"

Compensating == {"undoFile", "undoJobFile", "undoDoc", "failDoc", "failJob"}

UploadCallRaises(d) ==
    /\ uploads[d].pc \in UploadActive
    /\ Fault
    /\ Goto(d, AfterUploadError(uploads[d].pc))
    /\ broker' \in IF uploads[d].pc = "send" THEN EnqueuedDespiteError(UploadMessage(d))
                   ELSE {broker}
    /\ abandoned' = IF uploads[d].pc \in Compensating THEN abandoned \cup {d} ELSE abandoned
    /\ UNCHANGED <<docs, jobs, files, vectors, vectorStore>>

\* The API process dies while the request is running: nothing compensates.
UploadCrashes(d) ==
    /\ uploads[d].pc \in UploadActive
    /\ Fault
    /\ Goto(d, "crashed")
    /\ abandoned' = abandoned \cup {d}
    /\ UNCHANGED <<docs, jobs, files, vectors, vectorStore, broker>>

UploadProceeds(d) ==
    \/ FindPredecessor(d) \/ PutFile(d) \/ InsertDocument(d) \/ InsertUploadJob(d)
    \/ SendUploadMessage(d) \/ LoseUploadMessage(d)
    \/ UndoFile(d) \/ UndoDocument(d) \/ FailUploadedDocument(d) \/ FailUploadedJob(d)
    \/ UploadCallRaises(d) \/ UploadCrashes(d)

UploadStep == \E d \in Docs : UploadProceeds(d) \/ \E c \in Contents : StartUpload(d, c)

UploadTypeOK == uploads \in [Docs -> Upload]

=============================================================================
