--------------------------- MODULE DocumentProofs ---------------------------
(***************************************************************************)
(* Documents, their lineages and their vectors: an archived document is    *)
(* superseded by the next version of its lineage and cannot be found any   *)
(* more, an upload that answers with an error leaves nothing that looks    *)
(* alive, and a ready document can be found.                               *)
(***************************************************************************)
EXTENDS RecordProofs

-----------------------------------------------------------------------------
(* Lineages: an archived document and the version that replaced it. *)

\* A worker that has read its document acts for the version and the lineage it has, and
\* archives one of the version before.
LoadedVersion(w) ==
    /\ worker[w].version = docs[DocOf(w)].version
    /\ worker[w].lineage_id = docs[DocOf(w)].lineage_id
ChosePredecessor(w) ==
    /\ worker[w].pred \in Docs
    /\ Inserted(worker[w].pred)
    /\ worker[w].version > 1
    /\ docs[worker[w].pred].lineage_id = worker[w].lineage_id
    /\ docs[worker[w].pred].version = worker[w].version - 1
Loaded(w) ==
    /\ worker[w].pc \in {"dedup", "upsert", "findPred", "deletePred", "archive"} => LoadedVersion(w)
    /\ worker[w].pc \in {"deletePred", "archive"} => ChosePredecessor(w)

\* The successor is there, too: no record is ever forgotten, and is no first version.
ChainInvariant ==
    /\ \A w \in Workers : Loaded(w)
    /\ ArchivedChain
    /\ \A p \in Docs :
          Archived(p) => LET q == docs[p].superseded_by IN Inserted(q) /\ docs[q].version > 1

\* The document of a message stays the one it is.
LEMMA DocumentStays ==
    ASSUME TypeOK, Registered, Persists, NEW w \in Workers, worker[w].pc # "idle",
           worker'[w].msg = worker[w].msg
    PROVE  /\ JobOf(w) \in Jobs /\ Known(JobOf(w)) /\ JobOf(w)' = JobOf(w)
           /\ DocOf(w) \in Docs /\ DocOf(w)' = DocOf(w)
           /\ Inserted(DocOf(w)) /\ Inserted(DocOf(w))'
           /\ docs'[DocOf(w)].version = docs[DocOf(w)].version
           /\ docs'[DocOf(w)].lineage_id = docs[DocOf(w)].lineage_id
           /\ docs'[DocOf(w)].content_hash = docs[DocOf(w)].content_hash
<1>1. worker[w].msg \in Messages /\ broker[worker[w].msg].state # "unsent"
  BY DEF Registered, HoldsMessage
<1>2. JobOf(w) \in Jobs /\ Known(JobOf(w)) /\ JobOf(w)' = JobOf(w)
  BY <1>1 DEF Registered, JobOf, Messages
<1>3. DocOf(w) \in Docs /\ Inserted(DocOf(w))
  BY <1>2 DEF Registered, JobRecord, DocOf
<1>4. jobs'[JobOf(w)].document_id = jobs[JobOf(w)].document_id
  BY <1>2 DEF Persists, JobsPersist
<1>5. DocOf(w)' = DocOf(w)
  BY <1>2, <1>4 DEF DocOf
<1>6. PICK d \in Docs : d = DocOf(w)
  BY <1>3
<1>7. /\ docs'[d].status # "absent"
      /\ docs'[d].version = docs[d].version
      /\ docs'[d].lineage_id = docs[d].lineage_id
      /\ docs'[d].content_hash = docs[d].content_hash
  BY <1>3, <1>6 DEF Persists, DocsPersist, KeepsRecord, Inserted
<1>8. Inserted(DocOf(w))'
  BY <1>5, <1>6, <1>7 DEF Inserted
<1> QED BY <1>2, <1>3, <1>5, <1>6, <1>7, <1>8

\* Whoever keeps what it has at hand is right about it as long as it is at hand.
LEMMA VersionsStay ==
    ASSUME TypeOK, Registered, Persists, NEW w \in Workers, worker[w].pc # "idle",
           worker'[w].msg = worker[w].msg, KeepsVersion(w)
    PROVE  /\ LoadedVersion(w) => LoadedVersion(w)'
           /\ ChosePredecessor(w) /\ worker'[w].pred = worker[w].pred => ChosePredecessor(w)'
<1>1. LoadedVersion(w) => LoadedVersion(w)'
  BY DocumentStays DEF LoadedVersion, KeepsVersion
<1>2. ASSUME ChosePredecessor(w), worker'[w].pred = worker[w].pred PROVE ChosePredecessor(w)'
  <2>1. PICK p \in Docs : p = worker[w].pred /\ Inserted(p)
    BY <1>2 DEF ChosePredecessor
  <2>2. /\ docs'[p].status # "absent"
        /\ docs'[p].version = docs[p].version
        /\ docs'[p].lineage_id = docs[p].lineage_id
    BY <2>1 DEF Persists, DocsPersist, KeepsRecord, Inserted
  <2> QED BY <1>2, <2>1, <2>2 DEF ChosePredecessor, KeepsVersion, Inserted
<1> QED BY <1>1, <1>2

\* A worker whose step it is not stays loaded.
LEMMA OthersStayLoaded ==
    ASSUME TypeOK, Registered, Persists, NEW w \in Workers, worker'[w] = worker[w], Loaded(w)
    PROVE  Loaded(w)'
<1>1. CASE worker[w].pc = "idle"
  BY <1>1 DEF Loaded
<1>2. CASE worker[w].pc # "idle"
  <2>1. KeepsVersion(w) /\ worker'[w].msg = worker[w].msg /\ worker'[w].pred = worker[w].pred
    BY DEF KeepsVersion
  <2> QED BY <1>2, <2>1, VersionsStay DEF Loaded
<1> QED BY <1>1, <1>2

\* A worker stays loaded through its own steps.
LEMMA StepsStayLoaded ==
    ASSUME TypeOK, Registered, Persists, NEW w \in Workers, Loaded(w),
           WorkerProceeds(w) \/ WorkerFails(w)
    PROVE  Loaded(w)'
<1> DEFINE Past == {"dedup", "upsert", "findPred", "deletePred", "archive"}
<1>1. worker'[w].pc \notin Past => Loaded(w)'
  BY DEF Loaded
<1>2. ASSUME LoadDocument(w), Loading(w) PROVE Loaded(w)'
  <2>1. worker[w].pc # "idle" /\ worker'[w].msg = worker[w].msg
    BY <1>2 DEF LoadDocument, At, Loading, KeepsMessage
  <2>2. LoadedVersion(w)'
    BY <1>2, <2>1, DocumentStays DEF LoadedVersion, Loading
  <2> QED BY <1>2, <2>2 DEF Loaded, Loading
<1>3. ASSUME NEW pc \in {"upsert", "findPred"}, NEW fresh, Freshening(w, pc, fresh),
             worker[w].pc \in {"dedup", "upsert"}
      PROVE  Loaded(w)'
  <2>1. worker'[w].msg = worker[w].msg /\ KeepsVersion(w) /\ worker'[w].pc = pc
    BY <1>3 DEF Freshening, KeepsMessage
  <2>2. LoadedVersion(w)
    BY <1>3 DEF Loaded
  <2>3. LoadedVersion(w)'
    BY <1>3, <2>1, <2>2, VersionsStay
  <2> QED BY <1>3, <2>1, <2>3 DEF Loaded
<1>4. ASSUME NEW p \in Superseded(w), Choosing(w, p), At(w, "findPred"), docs' = docs
      PROVE  Loaded(w)'
  <2>1. worker'[w].msg = worker[w].msg /\ KeepsVersion(w) /\ worker'[w].pred = p
    BY <1>4 DEF Choosing, KeepsMessage
  <2>2. LoadedVersion(w) /\ worker[w].pc # "idle"
    BY <1>4 DEF Loaded, At
  <2>3. LoadedVersion(w)'
    BY <2>1, <2>2, VersionsStay
  <2>4. /\ p \in Docs /\ Inserted(p)
        /\ worker[w].version > 1
        /\ docs[p].lineage_id = worker[w].lineage_id
        /\ docs[p].version = worker[w].version - 1
    BY DEF Superseded, Live, Exists, Inserted
  <2>5. ChosePredecessor(w)'
    BY <1>4, <2>1, <2>4 DEF ChosePredecessor, KeepsVersion, Inserted
  <2> QED BY <2>3, <2>5 DEF Loaded
<1>5. ASSUME DeletePredecessorVectors(w) PROVE Loaded(w)'
  <2>1. Turn(w, "archive") /\ worker[w].pc = "deletePred"
    BY <1>5, WorkerTurns DEF DeletePredecessorVectors, At
  <2>2. LoadedVersion(w) /\ ChosePredecessor(w)
    BY <2>1 DEF Loaded
  <2>3. LoadedVersion(w)' /\ ChosePredecessor(w)'
    BY <2>1, <2>2, VersionsStay DEF Turn, KeepsMessage
  <2> QED BY <2>3 DEF Loaded
<1>6. Ended(w) \/ Failing(w) => worker'[w].pc \notin Past
  BY DEF Ended, Failing
<1>7. \A pc : pc \notin Past /\ Turn(w, pc) => worker'[w].pc \notin Past
  BY DEF Turn
<1>8. ASSUME \/ Claim(w) \/ SkipClaimed(w) \/ MarkDocumentProcessing(w) \/ RollbackVectors(w)
             \/ ArchivePredecessor(w) \/ ReadyJob(w) \/ ReadyDoc(w) \/ FailJob(w) \/ FailDoc(w)
             \/ Ack(w) \/ GiveUpDoc(w) \/ GiveUpJob(w) \/ Drop(w) \/ WorkerFails(w)
      PROVE  Loaded(w)'
  <2>1. Ended(w) \/ Failing(w) \/ \E pc : pc \notin Past /\ Turn(w, pc)
    <3>1. \/ Ended(w) \/ Failing(w)
          \/ \E pc \in {"markDoc", "ack", "load", "readyJob", "readyDoc", "failDoc", "giveUpDoc",
                        "giveUpJob", "drop", "rollback"} : Turn(w, pc)
      BY <1>8, WorkerTurns DEF WorkerFails
    <3> QED BY <3>1
  <2> QED BY <1>1, <1>6, <1>7, <2>1
<1>9. ASSUME NEW m \in Messages, Receive(w, m) PROVE Loaded(w)'
  <2>1. worker'[w].pc = "claim"
    BY <1>9, ReceptionTurns
  <2> QED BY <1>1, <2>1
<1>10. LoadDocument(w) => Loaded(w)'
  BY <1>1, <1>2, <1>6, WorkerTurns
<1>11. Deduplicate(w) => Loaded(w)'
  BY <1>1, <1>3, <1>6, WorkerTurns DEF Deduplicate, At
<1>12. Upsert(w) => Loaded(w)'
  BY <1>3, WorkerTurns DEF Upsert, At
<1>13. FindPredecessorToArchive(w) => Loaded(w)'
  <2>1. FindPredecessorToArchive(w) => At(w, "findPred") /\ docs' = docs
    BY DEF FindPredecessorToArchive
  <2> QED BY <1>1, <1>4, <1>6, <1>7, <2>1, WorkerTurns
<1> QED BY <1>5, <1>8, <1>9, <1>10, <1>11, <1>12, <1>13 DEF WorkerProceeds

-----------------------------------------------------------------------------

SuccessorsKept == \A p \in Docs : docs'[p].superseded_by \in {docs[p].superseded_by, None}

\* Writing a status, or a job, leaves superseded_by_document_id alone.
LEMMA StatusKeepsSuccessors ==
    ASSUME TypeOK
    PROVE  /\ \A d, s : docs' = SetDocStatus(d, s) => SuccessorsKept
           /\ docs' = docs => SuccessorsKept
           /\ \A d \in Docs : \A j, s :
                 docs' = (IF Exists(docs[d]) THEN [docs EXCEPT ![d].status = s, ![d].job_id = j]
                          ELSE docs) => SuccessorsKept
<1>y. docs \in [Docs -> Document]
  BY DEF TypeOK, StoreTypeOK
<1>o. \A e \in Docs : docs[e] \in Document
  BY <1>y
<1>1. ASSUME NEW d, NEW s, docs' = SetDocStatus(d, s) PROVE SuccessorsKept
  <2>1. \A e \in Docs : docs'[e] = docs[e] \/ docs'[e] = [docs[e] EXCEPT !.status = s]
    BY <1>1, <1>y DEF SetDocStatus
  <2> QED BY <1>o, <2>1 DEF SuccessorsKept, Document
<1>2. ASSUME NEW d \in Docs, NEW j, NEW s,
             docs' = IF Exists(docs[d]) THEN [docs EXCEPT ![d].status = s, ![d].job_id = j] ELSE docs
      PROVE  SuccessorsKept
  <2> DEFINE old == docs[d]
             new == [status |-> s, job_id |-> j, version |-> old.version,
                     lineage_id |-> old.lineage_id, superseded_by |-> old.superseded_by,
                     content_hash |-> old.content_hash]
             mid == [status |-> s, job_id |-> old.job_id, version |-> old.version,
                     lineage_id |-> old.lineage_id, superseded_by |-> old.superseded_by,
                     content_hash |-> old.content_hash]
  <2>a. old \in Document
    BY <1>y
  <2>b. [old EXCEPT !.status = s] = mid /\ [mid EXCEPT !.job_id = j] = new
    BY <2>a DEF Document
  <2>c. docs' = docs \/ docs' = [docs EXCEPT ![d] = [[old EXCEPT !.status = s] EXCEPT !.job_id = j]]
    BY <1>2
  <2>1. docs' = docs \/ docs' = [docs EXCEPT ![d] = new]
    <3> HIDE DEF old, mid, new
    <3> QED BY <2>b, <2>c
  <2>2. new.superseded_by = docs[d].superseded_by
    OBVIOUS
  <2> HIDE DEF new
  <2> QED BY <1>y, <2>1, <2>2 DEF SuccessorsKept
<1> QED BY <1>1, <1>2 DEF SuccessorsKept

\* Only the finalization of a replacement names a successor.
LEMMA SuccessorsStay ==
    ASSUME TypeOK, Registered, [Next]_vars
    PROVE  SuccessorsKept \/ \E w \in Workers : ArchivePredecessor(w)
<1>y. docs \in [Docs -> Document]
  BY DEF TypeOK, StoreTypeOK
<1>k. docs' = docs => SuccessorsKept
  BY StatusKeepsSuccessors
<1>1. CASE UploadStep
  <2>1. PICK d \in Docs : UploadProceeds(d) \/ \E c \in Contents : StartUpload(d, c)
    BY <1>1 DEF UploadStep
  <2>2. ASSUME InsertDocument(d) PROVE SuccessorsKept
    <3>1. docs'[d].superseded_by = None /\ \A e \in Docs \ {d} : docs'[e] = docs[e]
      BY <1>y, <2>2 DEF InsertDocument
    <3> QED BY <3>1 DEF SuccessorsKept
  <2>3. UndoDocument(d) \/ FailUploadedDocument(d) => SuccessorsKept
    BY StatusKeepsSuccessors DEF UndoDocument, FailUploadedDocument
  <2>4. ~InsertDocument(d) /\ ~UndoDocument(d) /\ ~FailUploadedDocument(d) => docs' = docs
    BY <2>1 DEF UploadProceeds, StartUpload, FindPredecessor, PutFile, InsertUploadJob,
                SendUploadMessage, LoseUploadMessage, UndoFile, FailUploadedJob,
                UploadCallRaises, UploadCrashes
  <2> QED BY <1>k, <2>2, <2>3, <2>4
<1>2. CASE BrokerStep
  BY <1>2, <1>k, BrokerSilent
<1>3. CASE WorkerStep
  <2>1. PICK w \in Workers : WorkerProceeds(w) \/ WorkerFails(w)
    BY <1>3 DEF WorkerStep
  <2>2. MarkDocumentProcessing(w) \/ ReadyDoc(w) \/ FailDoc(w) \/ GiveUpDoc(w) => SuccessorsKept
    BY StatusKeepsSuccessors DEF MarkDocumentProcessing, ReadyDoc, FailDoc, GiveUpDoc
  <2>3. \/ \E m \in Messages : Receive(w, m)
        \/ Claim(w) \/ SkipClaimed(w) \/ LoadDocument(w) \/ Deduplicate(w) \/ Upsert(w)
        \/ FindPredecessorToArchive(w) \/ DeletePredecessorVectors(w) \/ RollbackVectors(w)
        \/ Ack(w) \/ Drop(w) \/ ReadyJob(w) \/ GiveUpJob(w) \/ FailJob(w)
        => docs' = docs
    BY DEF Receive, Claim, SkipClaimed, LoadDocument, Deduplicate, Upsert, FindPredecessorToArchive,
           DeletePredecessorVectors, RollbackVectors, Ack, Drop, ReadyJob, GiveUpJob, FailJob
  <2>4. WorkerFails(w) => docs' = docs
    BY DEF WorkerFails, PredecessorDeletionRaises, GuardedCallRaises, UnguardedCallRaises,
           GiveUpRaises, WorkerCrashes
  <2> QED BY <1>k, <2>1, <2>2, <2>3, <2>4 DEF WorkerProceeds
<1>4. CASE DeletionStep
  <2>1. PICK d \in Deletable : StartDeletion(d) \/ DeleteVectors(d) \/ DeleteJobs(d)
                               \/ DeleteDocument(d) \/ DeletionFails(d)
    BY <1>4 DEF DeletionStep
  <2> QED BY <1>k, <2>1, StatusKeepsSuccessors
          DEF StartDeletion, DeleteVectors, DeleteJobs, DeleteDocument, DeletionFails
<1>5. CASE ReindexStep
  <2>1. PICK r \in Reindexers :
           \/ StartReindex(r) \/ WipeNamespace(r) \/ FindReady(r) \/ InsertReindexJob(r)
           \/ PointDocument(r) \/ SendReindexMessage(r) \/ FinishReindex(r)
           \/ ReindexSendRaises(r) \/ FailReindexDocument(r) \/ FailReindexJob(r)
           \/ ReindexFails(r)
    BY <1>5 DEF ReindexStep
  <2>2. docs' = docs \/ PointDocument(r) \/ FailReindexDocument(r)
    BY <2>1 DEF StartReindex, WipeNamespace, FindReady, InsertReindexJob, SendReindexMessage,
                FinishReindex, ReindexSendRaises, FailReindexJob, ReindexFails
  <2>3. \A d, j, s :
           docs' = (IF Exists(docs[d]) THEN [docs EXCEPT ![d].status = s, ![d].job_id = j] ELSE docs)
           => SuccessorsKept
    <3> SUFFICES ASSUME NEW d, NEW j, NEW s,
           docs' = IF Exists(docs[d]) THEN [docs EXCEPT ![d].status = s, ![d].job_id = j] ELSE docs
                 PROVE SuccessorsKept
      OBVIOUS
    <3>1. CASE d \in Docs
      BY <3>1, StatusKeepsSuccessors
    <3>2. CASE d \notin Docs
      <4>1. docs' = docs \/ docs' = [docs EXCEPT ![d] = [[docs[d] EXCEPT !.status = s] EXCEPT !.job_id = j]]
        OBVIOUS
      <4>2. docs' = docs
        BY <1>y, <3>2, <4>1
      <4> QED BY <1>k, <4>2
    <3> QED BY <3>1, <3>2
  <2> QED BY <1>k, <2>2, <2>3 DEF PointDocument, FailReindexDocument
<1>6. CASE SweepStep
  <2>1. docs' = docs
    BY <1>6 DEF SweepStep, ReadFailedJobs, SweepProceeds, FindSweptDocument, SendSweptMessage,
                CountRetry, FinishSweep, SweepFails
  <2> QED BY <1>k, <2>1
<1>7. CASE UNCHANGED vars
  BY <1>7, <1>k DEF vars
<1> QED BY <1>1, <1>2, <1>3, <1>4, <1>5, <1>6, <1>7 DEF Next

\* A chain stays one as long as nobody adds a link.
LEMMA ChainStays ==
    ASSUME TypeOK, Registered, Persists, SuccessorsKept, NEW p \in Docs,
           Archived(p) => LET q == docs[p].superseded_by IN
                          /\ Inserted(q) /\ docs[q].version > 1
                          /\ docs[q].lineage_id = docs[p].lineage_id
                          /\ docs[q].version = docs[p].version + 1
    PROVE  Archived(p)' => LET q == docs'[p].superseded_by IN
                           /\ docs'[q].status # "absent" /\ docs'[q].version > 1
                           /\ docs'[q].lineage_id = docs'[p].lineage_id
                           /\ docs'[q].version = docs'[p].version + 1
<1> SUFFICES ASSUME Archived(p)'
             PROVE  LET q == docs'[p].superseded_by IN
                    /\ docs'[q].status # "absent" /\ docs'[q].version > 1
                    /\ docs'[q].lineage_id = docs'[p].lineage_id
                    /\ docs'[q].version = docs'[p].version + 1
  OBVIOUS
<1>1. docs'[p].superseded_by = docs[p].superseded_by /\ Archived(p)
  BY DEF SuccessorsKept, Archived
<1>2. docs[p] \in Document
  BY DEF TypeOK, StoreTypeOK
<1>3. PICK q \in Docs : q = docs[p].superseded_by
  BY <1>1, <1>2 DEF Archived, Document
<1>4. Inserted(p)
  BY <1>1 DEF Registered, RecordOf, Archived
<1>5. /\ docs'[p].version = docs[p].version
      /\ docs'[p].lineage_id = docs[p].lineage_id
  BY <1>4 DEF Persists, DocsPersist, KeepsRecord
<1>6. /\ Inserted(q) /\ docs[q].version > 1
      /\ docs[q].lineage_id = docs[p].lineage_id
      /\ docs[q].version = docs[p].version + 1
  BY <1>1, <1>3
<1>7. /\ docs'[q].status # "absent"
      /\ docs'[q].version = docs[q].version
      /\ docs'[q].lineage_id = docs[q].lineage_id
  BY <1>6 DEF Persists, DocsPersist, KeepsRecord, Inserted
<1> QED BY <1>1, <1>3, <1>5, <1>6, <1>7

\* The link a worker adds leads to the version after.
LEMMA ChainGrows ==
    ASSUME TypeOK, Registered, Persists, ChainInvariant, NEW w \in Workers, ArchivePredecessor(w),
           NEW p \in Docs
    PROVE  Archived(p)' => LET q == docs'[p].superseded_by IN
                           /\ docs'[q].status # "absent" /\ docs'[q].version > 1
                           /\ docs'[q].lineage_id = docs'[p].lineage_id
                           /\ docs'[q].version = docs'[p].version + 1
<1>1. worker[w].pc = "archive" /\ worker[w].pc # "idle"
  BY DEF ArchivePredecessor, At
<1>2. LoadedVersion(w) /\ ChosePredecessor(w)
  BY <1>1 DEF ChainInvariant, Loaded
<1>3. PICK e \in Docs : e = worker[w].pred
  BY <1>2 DEF ChosePredecessor
<1>4. worker'[w].msg = worker[w].msg
  BY WorkerTurns DEF Turn, KeepsMessage
<1>5. PICK d \in Docs : d = DocOf(w) /\ Inserted(d)
  BY <1>1, <1>4, DocumentStays
<1>6. docs' = IF Exists(docs[e]) THEN [docs EXCEPT ![e].superseded_by = d] ELSE docs
  BY <1>3, <1>5 DEF ArchivePredecessor
<1>y. docs \in [Docs -> Document]
  BY DEF TypeOK, StoreTypeOK
<1>7. docs'[e].superseded_by \in {docs[e].superseded_by, d}
      /\ \A x \in Docs \ {e} : docs'[x] = docs[x]
  BY <1>y, <1>6 DEF Document
<1>8. CASE docs'[p].superseded_by = docs[p].superseded_by
  <2> DEFINE q == docs[p].superseded_by
  <2>1. CASE Archived(p)
    <3>1. /\ Inserted(q) /\ docs[q].version > 1
          /\ docs[q].lineage_id = docs[p].lineage_id
          /\ docs[q].version = docs[p].version + 1
      BY <2>1 DEF ChainInvariant, ArchivedChain
    <3>2. PICK x \in Docs : x = q
      BY <1>y, <2>1 DEF Archived, Document
    <3>3. Inserted(p)
      BY <2>1 DEF Registered, RecordOf, Archived
    <3>4. /\ docs'[p].version = docs[p].version
          /\ docs'[p].lineage_id = docs[p].lineage_id
      BY <3>3 DEF Persists, DocsPersist, KeepsRecord
    <3>5. /\ docs'[x].status # "absent"
          /\ docs'[x].version = docs[x].version
          /\ docs'[x].lineage_id = docs[x].lineage_id
      BY <3>1, <3>2 DEF Persists, DocsPersist, KeepsRecord, Inserted
    <3> QED BY <1>8, <3>1, <3>2, <3>4, <3>5
  <2>2. CASE ~Archived(p)
    BY <1>8, <2>2 DEF Archived
  <2> QED BY <2>1, <2>2
<1>9. CASE p = e /\ docs'[p].superseded_by = d
  <2>1. /\ Inserted(p) /\ docs[p].lineage_id = docs[d].lineage_id
        /\ docs[p].version = docs[d].version - 1 /\ docs[d].version > 1
    BY <1>2, <1>3, <1>5, <1>9 DEF LoadedVersion, ChosePredecessor
  <2>2. /\ docs'[p].version = docs[p].version
        /\ docs'[p].lineage_id = docs[p].lineage_id
    BY <2>1 DEF Persists, DocsPersist, KeepsRecord
  <2>3. /\ docs'[d].status # "absent"
        /\ docs'[d].version = docs[d].version
        /\ docs'[d].lineage_id = docs[d].lineage_id
    BY <1>5 DEF Persists, DocsPersist, KeepsRecord, Inserted
  <2>4. docs[d].version \in Nat /\ docs[p].version \in Nat
    BY <1>y DEF Document
  <2>5. docs[d].version = docs[p].version + 1
    BY <2>1, <2>4
  <2> QED BY <1>9, <2>1, <2>2, <2>3, <2>5
<1> QED BY <1>7, <1>8, <1>9

\* Every step keeps archived documents chained to the next version.
LEMMA ChainPreserved == IInv /\ Registered /\ ChainInvariant /\ [Next]_vars => ChainInvariant'
<1> SUFFICES ASSUME IInv, Registered, ChainInvariant, [Next]_vars PROVE ChainInvariant'
  OBVIOUS
<1>1. TypeOK /\ Persists
  BY RegisteredPreserved DEF IInv
<1>2. \A p \in Docs :
         Archived(p)' => LET q == docs'[p].superseded_by IN
                         /\ docs'[q].status # "absent" /\ docs'[q].version > 1
                         /\ docs'[q].lineage_id = docs'[p].lineage_id
                         /\ docs'[q].version = docs'[p].version + 1
  <2>1. CASE SuccessorsKept
    <3> SUFFICES ASSUME NEW p \in Docs
                 PROVE  Archived(p)' => LET q == docs'[p].superseded_by IN
                         /\ docs'[q].status # "absent" /\ docs'[q].version > 1
                         /\ docs'[q].lineage_id = docs'[p].lineage_id
                         /\ docs'[q].version = docs'[p].version + 1
      OBVIOUS
    <3>1. Archived(p) => LET q == docs[p].superseded_by IN
                          /\ Inserted(q) /\ docs[q].version > 1
                          /\ docs[q].lineage_id = docs[p].lineage_id
                          /\ docs[q].version = docs[p].version + 1
      BY DEF ChainInvariant, ArchivedChain
    <3> QED BY <1>1, <2>1, <3>1, ChainStays
  <2>2. CASE \E w \in Workers : ArchivePredecessor(w)
    BY <1>1, <2>2, ChainGrows
  <2> QED BY <1>1, <2>1, <2>2, SuccessorsStay
<1>3. /\ ArchivedChain'
      /\ \A p \in Docs :
            Archived(p)' => Inserted(docs[p].superseded_by)' /\ docs'[docs'[p].superseded_by].version > 1
  BY <1>2 DEF ArchivedChain, Archived, Inserted
<1>4. ASSUME NEW w \in Workers PROVE Loaded(w)'
  <2>1. Loaded(w)
    BY DEF ChainInvariant
  <2>2. CASE worker'[w] = worker[w]
    BY <1>1, <2>1, <2>2, OthersStayLoaded
  <2>3. CASE worker'[w] # worker[w]
    <3>1. worker' # worker
      BY <2>3
    <3>2. PICK v \in Workers : WorkerProceeds(v) \/ WorkerFails(v)
      BY <3>1 DEF Next, vars, WorkerStep
    <3>3. v = w
      <4>1. Alone(v)
        BY <1>1, <3>2, AloneTurns
      <4> QED BY <2>3, <4>1 DEF Alone
    <3> QED BY <1>1, <2>1, <3>2, <3>3, StepsStayLoaded
  <2> QED BY <2>2, <2>3
<1> QED BY <1>3, <1>4 DEF ChainInvariant

\* At first nothing is archived, and nobody is about to archive anything.
LEMMA ChainInitially == Init => ChainInvariant
  BY DEF Init, StoreInit, WorkerInit, ChainInvariant, Loaded, ArchivedChain, Archived,
         NoDocument, Idle

\* An archived document is superseded by the next version of its own lineage, however the
\* uploads and workers of a lineage interleave and fail, on every backend.
THEOREM SuccessorsAreNextVersions == Spec => []ArchivedChain
<1>1. Init => IInv /\ Registered /\ ChainInvariant
  BY ChainInitially, InitialInvariant, RegisteredInitially
<1>2. IInv /\ Registered /\ ChainInvariant /\ [Next]_vars => (IInv /\ Registered /\ ChainInvariant)'
  BY InvariantPreserved, RegisteredPreserved, ChainPreserved
<1>3. ChainInvariant => ArchivedChain
  BY DEF ChainInvariant
<1> QED BY <1>1, <1>2, <1>3, PTL DEF Spec

-----------------------------------------------------------------------------
(* One job after the other: who is done with a document. *)

\* From the claim of a job to the write that makes its document ready.
Working == Owning \cup {"readyDoc"}
Busy(w, j) == worker[w].pc \in Working /\ JobOf(w) = j

Started(j) == jobs[j].status \notin {"absent", "queued"}

\* No worker has job j in hand, and none will.
Finished(j) == Started(j) /\ \A w \in Workers : ~Busy(w, j)

\* Reindexing has listed document d, and maybe created a job for it.
Restarted(d) ==
    \/ \E r \in Reindexers : d \in reindex[r].todo
    \/ \E j \in Jobs : Renewed(d, j)

OneProcessor ==
    /\ \A w \in Workers, j \in Jobs : Busy(w, j) => Started(j)
    /\ \A v, w \in Workers, j \in Jobs : Busy(v, j) /\ Busy(w, j) => v = w

\* The upload's job of a document that is ready, or processed anew, is finished.
ReadyFinished == \A d \in Docs : docs[d].status = "ready" \/ Restarted(d) => Finished(d)

\* A later version is uploaded after one before it was finished.
Predecessor(d, p) ==
    /\ Inserted(p) /\ Finished(p)
    /\ docs[p].lineage_id = uploads[d].lineage_id
    /\ docs[p].version + 1 = uploads[d].version
VersionsFollow ==
    \A d \in Docs : uploads[d].version > 1 => \E p \in Docs : Predecessor(d, p)

OrderInvariant == OneProcessor /\ ReadyFinished /\ VersionsFollow

\* A job that was claimed or settled is never queued again.
LEMMA StartedStays ==
    ASSUME IInv, [Next]_vars, NEW j \in Jobs, Started(j)
    PROVE  Started(j)'
<1>y. TypeOK /\ NotInsertedYet /\ ReindexInOrder /\ JobHasDocument /\ BusyHasMessage
      /\ OwnedJobClaimed
  BY DEF IInv
<1>1. JobMoves(j) \/ JobCreated(j) => Started(j)'
  BY DEF JobMoves, JobCreated, Started
<1>2. ASSUME NEW w \in Workers, WorkerProceeds(w) \/ WorkerFails(w) PROVE Started(j)'
  <2>1. ClaimsJob(w) \/ KeepsJob(w)
    BY <1>2, <1>y, WorkerSteps DEF WorkerChange
  <2>2. ClaimsJob(w) => Started(j)'
    <3>1. jobs \in [Jobs -> Job]
      BY <1>y DEF TypeOK, StoreTypeOK
    <3> QED BY <3>1 DEF ClaimsJob, Started
  <2>3. KeepsJob(w) => JobMoves(j)
    BY DEF KeepsJob
  <2> QED BY <1>1, <2>1, <2>2, <2>3
<1>3. UploadStep => JobMoves(j) \/ JobCreated(j)
  BY <1>y, UploadJobs
<1>4. DeletionStep \/ ReindexStep => JobMoves(j) \/ JobCreated(j)
  BY <1>y, AdminJobs
<1>5. SweepStep => JobMoves(j)
  BY <1>y, SweepJobs
<1>6. BrokerStep \/ UNCHANGED vars => JobMoves(j)
  BY <1>y, BrokerSilent DEF JobMoves, vars
<1> QED BY <1>1, <1>2, <1>3, <1>4, <1>5, <1>6 DEF Next, WorkerStep

\* Only a claim takes a job in hand.
LEMMA BusyTurns ==
    ASSUME TypeOK, NEW w \in Workers, WorkerProceeds(w) \/ WorkerFails(w),
           worker'[w].pc \in Working
    PROVE  /\ worker'[w].msg = worker[w].msg
           /\ worker[w].pc \in Working \/ Claim(w)
<1>1. \A m \in Messages : ~Receive(w, m)
  BY ReceptionTurns DEF Working, Owning
<1>2. ~Ended(w)
  BY DEF Ended, Working, Owning
<1>3. \A pc : Turn(w, pc) => pc \in Working
  BY DEF Turn
<1>4. KeepsMessage(w)
  <2>1. \A pc : Turn(w, pc) => KeepsMessage(w)
    BY DEF Turn
  <2>2. \A pc, f : Freshening(w, pc, f) => KeepsMessage(w)
    BY DEF Freshening
  <2>3. \A p : Choosing(w, p) => KeepsMessage(w)
    BY DEF Choosing
  <2>4. Failing(w) \/ Loading(w) => KeepsMessage(w)
    BY DEF Failing, Loading
  <2> QED BY <1>1, <1>2, <2>1, <2>2, <2>3, <2>4, WorkerTurns DEF WorkerProceeds, WorkerFails
<1>5. ~SkipClaimed(w) /\ ~ReadyDoc(w) /\ ~FailJob(w) /\ ~FailDoc(w) /\ ~Ack(w) /\ ~GiveUpDoc(w)
      /\ ~GiveUpJob(w) /\ ~Drop(w) /\ ~UnguardedCallRaises(w) /\ ~GiveUpRaises(w) /\ ~WorkerCrashes(w)
  <2>1. {"ack", "failDoc", "giveUpDoc", "giveUpJob", "drop"} \cap Working = {}
    BY DEF Working, Owning
  <2> QED BY <1>2, <1>3, <2>1, WorkerTurns
<1>6. MarkDocumentProcessing(w) \/ LoadDocument(w) \/ Deduplicate(w) \/ Upsert(w)
      \/ FindPredecessorToArchive(w) \/ DeletePredecessorVectors(w) \/ RollbackVectors(w)
      \/ ArchivePredecessor(w) \/ ReadyJob(w)
      => worker[w].pc \in Working
  BY DEF MarkDocumentProcessing, LoadDocument, Deduplicate, Upsert, FindPredecessorToArchive,
         DeletePredecessorVectors, RollbackVectors, ArchivePredecessor, ReadyJob, At, Working, Owning
<1>7. PredecessorDeletionRaises(w) \/ GuardedCallRaises(w) => worker[w].pc \in Working
  BY DEF PredecessorDeletionRaises, GuardedCallRaises, At, Guarded, Working, Owning
<1>8. worker[w].pc \in Working \/ Claim(w)
  BY <1>1, <1>5, <1>6, <1>7 DEF WorkerProceeds, WorkerFails
<1> QED BY <1>4, <1>8 DEF KeepsMessage

\* Every step: who is busy was, or claimed a queued job nobody had in hand.
LEMMA BusyStays ==
    ASSUME TypeOK, Registered, [Next]_vars, NEW w \in Workers, NEW j \in Jobs, Busy(w, j)'
    PROVE  \/ Busy(w, j)
           \/ /\ Claim(w) /\ JobOf(w) = j
              /\ \A v \in Workers \ {w} : worker'[v] = worker[v]
<1>1. CASE worker'[w] = worker[w]
  BY <1>1 DEF Busy, JobOf
<1>2. CASE worker'[w] # worker[w]
  <2>1. worker' # worker
    BY <1>2
  <2>2. PICK v \in Workers : WorkerProceeds(v) \/ WorkerFails(v)
    BY <2>1 DEF Next, vars, WorkerStep
  <2>3. Alone(v)
    BY <2>2, AloneTurns
  <2>4. v = w
    BY <1>2, <2>3 DEF Alone
  <2>5. worker'[w].msg = worker[w].msg /\ (worker[w].pc \in Working \/ Claim(w))
    BY <2>2, <2>4, BusyTurns DEF Busy
  <2> QED BY <2>3, <2>4, <2>5 DEF Busy, JobOf, Alone
<1> QED BY <1>1, <1>2

\* Every step keeps one processor for each job.
LEMMA OneProcessorStays ==
    ASSUME IInv, Registered, OneProcessor, [Next]_vars
    PROVE  OneProcessor'
<1>y. TypeOK
  BY DEF IInv
<1>1. ASSUME NEW w \in Workers, NEW j \in Jobs, Busy(w, j)' PROVE Started(j)'
  <2>1. CASE Busy(w, j)
    BY <2>1, StartedStays DEF OneProcessor
  <2>2. CASE Claim(w) /\ JobOf(w) = j
    <3>1. jobs \in [Jobs -> Job] /\ jobs' = [jobs EXCEPT ![j].status = "processing"]
      BY <1>y, <2>2 DEF Claim, TypeOK, StoreTypeOK
    <3> QED BY <3>1 DEF Started, Job
  <2> QED BY <1>1, <1>y, <2>1, <2>2, BusyStays
<1>2. ASSUME NEW v \in Workers, NEW w \in Workers, NEW j \in Jobs, Busy(v, j)', Busy(w, j)', v # w
      PROVE  FALSE
  <2>1. \A x \in Workers : Claim(x) /\ JobOf(x) = j => \A z \in Workers : ~Busy(z, j)
    BY DEF Claim, Claimable, OneProcessor, Started
  <2>2. Busy(v, j) \/ (Claim(v) /\ JobOf(v) = j /\ \A x \in Workers \ {v} : worker'[x] = worker[x])
    BY <1>2, <1>y, BusyStays
  <2>3. Busy(w, j) \/ (Claim(w) /\ JobOf(w) = j /\ \A x \in Workers \ {w} : worker'[x] = worker[x])
    BY <1>2, <1>y, BusyStays
  <2>4. ~(Busy(v, j) /\ Busy(w, j))
    BY <1>2 DEF OneProcessor
  <2>5. CASE Claim(v) /\ JobOf(v) = j /\ \A x \in Workers \ {v} : worker'[x] = worker[x]
    <3>1. ~Busy(w, j) /\ worker'[w] = worker[w]
      BY <1>2, <2>1, <2>5
    <3>2. Busy(w, j)
      BY <1>2, <3>1 DEF Busy, JobOf
    <3> QED BY <3>1, <3>2
  <2>6. CASE Claim(w) /\ JobOf(w) = j /\ \A x \in Workers \ {w} : worker'[x] = worker[x]
    <3>1. ~Busy(v, j) /\ worker'[v] = worker[v]
      BY <1>2, <2>1, <2>6
    <3>2. Busy(v, j)
      BY <1>2, <3>1 DEF Busy, JobOf
    <3> QED BY <3>1, <3>2
  <2> QED BY <2>2, <2>3, <2>4, <2>5, <2>6
<1> QED BY <1>1, <1>2 DEF OneProcessor

\* What is finished stays so.
LEMMA FinishedStays ==
    ASSUME IInv, Registered, [Next]_vars, NEW j \in Jobs, Finished(j)
    PROVE  Finished(j)'
<1>y. TypeOK
  BY DEF IInv
<1>1. Started(j)'
  BY StartedStays DEF Finished
<1>2. ASSUME NEW w \in Workers PROVE ~Busy(w, j)'
  <2>1. ~Busy(w, j) /\ Started(j)
    BY DEF Finished
  <2>2. ~(Claim(w) /\ JobOf(w) = j)
    BY <2>1 DEF Claim, Claimable, Started
  <2> QED BY <1>y, <2>1, <2>2, BusyStays
<1> QED BY <1>1, <1>2 DEF Finished

\* Only a worker makes a document ready.
LEMMA BecomesReady ==
    ASSUME TypeOK, [Next]_vars, NEW d \in Docs, docs'[d].status = "ready"
    PROVE  docs[d].status = "ready" \/ \E w \in Workers : ReadyDoc(w) /\ DocOf(w) = d
<1>y. docs \in [Docs -> Document] /\ \A e \in Docs : docs[e] \in Document
  BY DEF TypeOK, StoreTypeOK
<1>s. \A e, s : s # "ready" /\ docs' = SetDocStatus(e, s) => docs[d].status = "ready"
  <2> SUFFICES ASSUME NEW e, NEW s, s # "ready", docs' = SetDocStatus(e, s)
               PROVE  docs[d].status = "ready"
    OBVIOUS
  <2>1. docs'[d] = docs[d] \/ docs'[d] = [docs[d] EXCEPT !.status = s]
    BY <1>y DEF SetDocStatus
  <2> QED BY <1>y, <2>1 DEF Document
<1>p. \A e, j, s :
         s # "ready" /\ docs' = (IF Exists(docs[e]) THEN [docs EXCEPT ![e].status = s, ![e].job_id = j]
                                 ELSE docs)
         => docs[d].status = "ready"
  <2> SUFFICES ASSUME NEW e, NEW j, NEW s, s # "ready",
                      docs' = IF Exists(docs[e])
                              THEN [docs EXCEPT ![e].status = s, ![e].job_id = j] ELSE docs
               PROVE  docs[d].status = "ready"
    OBVIOUS
  <2> DEFINE old == docs[d]
             mid == [status |-> s, job_id |-> old.job_id, version |-> old.version,
                     lineage_id |-> old.lineage_id, superseded_by |-> old.superseded_by,
                     content_hash |-> old.content_hash]
  <2>1. docs'[d] = old \/ docs'[d] = [[old EXCEPT !.status = s] EXCEPT !.job_id = j]
    BY <1>y
  <2>2. [old EXCEPT !.status = s] = mid
    BY <1>y DEF Document
  <2>3. [mid EXCEPT !.job_id = j].status = s
    OBVIOUS
  <2>4. docs'[d] = old \/ docs'[d].status = s
    <3> HIDE DEF old, mid
    <3> QED BY <2>1, <2>2, <2>3
  <2> QED BY <2>4
<1>k. docs' = docs => docs[d].status = "ready"
  OBVIOUS
<1>1. CASE UploadStep
  <2>1. PICK e \in Docs : UploadProceeds(e) \/ \E c \in Contents : StartUpload(e, c)
    BY <1>1 DEF UploadStep
  <2>2. InsertDocument(e) => docs[d].status = "ready"
    BY <1>y DEF InsertDocument
  <2>3. UndoDocument(e) \/ FailUploadedDocument(e) => docs[d].status = "ready"
    BY <1>s DEF UndoDocument, FailUploadedDocument
  <2>4. ~InsertDocument(e) /\ ~UndoDocument(e) /\ ~FailUploadedDocument(e) => docs' = docs
    BY <2>1 DEF UploadProceeds, StartUpload, FindPredecessor, PutFile, InsertUploadJob,
                SendUploadMessage, LoseUploadMessage, UndoFile, FailUploadedJob,
                UploadCallRaises, UploadCrashes
  <2> QED BY <1>k, <2>2, <2>3, <2>4
<1>2. CASE BrokerStep
  BY <1>2, <1>k, BrokerSilent
<1>3. CASE WorkerStep
  <2>1. PICK w \in Workers : WorkerProceeds(w) \/ WorkerFails(w)
    BY <1>3 DEF WorkerStep
  <2>2. MarkDocumentProcessing(w) \/ FailDoc(w) \/ GiveUpDoc(w) => docs[d].status = "ready"
    BY <1>s DEF MarkDocumentProcessing, FailDoc, GiveUpDoc
  <2>3. ASSUME ReadyDoc(w), DocOf(w) # d PROVE docs[d].status = "ready"
    <3>1. docs'[d] = docs[d]
      BY <1>y, <2>3 DEF ReadyDoc, SetDocStatus
    <3> QED BY <3>1
  <2>4. ArchivePredecessor(w) => docs[d].status = "ready"
    <3> SUFFICES ASSUME ArchivePredecessor(w) PROVE docs[d].status = "ready"
      OBVIOUS
    <3>1. docs'[d] = docs[d] \/ docs'[d] = [docs[d] EXCEPT !.superseded_by = DocOf(w)]
      BY <1>y DEF ArchivePredecessor
    <3> QED BY <1>y, <3>1 DEF Document
  <2>5. \/ \E m \in Messages : Receive(w, m)
        \/ Claim(w) \/ SkipClaimed(w) \/ LoadDocument(w) \/ Deduplicate(w) \/ Upsert(w)
        \/ FindPredecessorToArchive(w) \/ DeletePredecessorVectors(w) \/ RollbackVectors(w)
        \/ Ack(w) \/ Drop(w) \/ ReadyJob(w) \/ GiveUpJob(w) \/ FailJob(w)
        => docs' = docs
    BY DEF Receive, Claim, SkipClaimed, LoadDocument, Deduplicate, Upsert, FindPredecessorToArchive,
           DeletePredecessorVectors, RollbackVectors, Ack, Drop, ReadyJob, GiveUpJob, FailJob
  <2>6. WorkerFails(w) => docs' = docs
    BY DEF WorkerFails, PredecessorDeletionRaises, GuardedCallRaises, UnguardedCallRaises,
           GiveUpRaises, WorkerCrashes
  <2> QED BY <1>k, <2>1, <2>2, <2>3, <2>4, <2>5, <2>6 DEF WorkerProceeds
<1>4. CASE DeletionStep
  <2>1. PICK e \in Deletable : StartDeletion(e) \/ DeleteVectors(e) \/ DeleteJobs(e)
                               \/ DeleteDocument(e) \/ DeletionFails(e)
    BY <1>4 DEF DeletionStep
  <2> QED BY <1>k, <1>s, <2>1 DEF StartDeletion, DeleteVectors, DeleteJobs, DeleteDocument, DeletionFails
<1>5. CASE ReindexStep
  <2>1. PICK r \in Reindexers :
           \/ StartReindex(r) \/ WipeNamespace(r) \/ FindReady(r) \/ InsertReindexJob(r)
           \/ PointDocument(r) \/ SendReindexMessage(r) \/ FinishReindex(r)
           \/ ReindexSendRaises(r) \/ FailReindexDocument(r) \/ FailReindexJob(r)
           \/ ReindexFails(r)
    BY <1>5 DEF ReindexStep
  <2>2. docs' = docs \/ PointDocument(r) \/ FailReindexDocument(r)
    BY <2>1 DEF StartReindex, WipeNamespace, FindReady, InsertReindexJob, SendReindexMessage,
                FinishReindex, ReindexSendRaises, FailReindexJob, ReindexFails
  <2> QED BY <1>k, <1>p, <2>2 DEF PointDocument, FailReindexDocument
<1>6. CASE SweepStep
  <2>1. docs' = docs
    BY <1>6 DEF SweepStep, ReadFailedJobs, SweepProceeds, FindSweptDocument, SendSweptMessage,
                CountRetry, FinishSweep, SweepFails
  <2> QED BY <1>k, <2>1
<1>7. CASE UNCHANGED vars
  BY <1>7, <1>k DEF vars
<1> QED BY <1>1, <1>2, <1>3, <1>4, <1>5, <1>6, <1>7 DEF Next

\* Only reindexing creates jobs of its own.
LEMMA ReindexingCreates ==
    ASSUME IInv, Registered, [Next]_vars, \A r \in Reindexers : ~InsertReindexJob(r)
    PROVE  \A j \in Jobs \ Docs : ~Known(j) => ~Known(j)'
<1> DEFINE Kept == \A j \in Jobs \ Docs : ~Known(j) => ~Known(j)'
<1>y. TypeOK /\ ReindexInOrder
  BY DEF IInv
<1>p. JobsPersist({}) => Kept
  BY DEF JobsPersist
<1>u. jobs' = jobs => Kept
  BY DEF Known
<1>1. CASE UploadStep
  <2>1. PICK e \in Docs : Uploading(e)
    BY <1>1 DEF UploadStep, Uploading
  <2>2. JobsPersist({e})
    BY <1>y, <2>1, UploadEffects
  <2> QED BY <2>2 DEF JobsPersist
<1>2. BrokerStep => Kept
  BY <1>u, <1>y, BrokerSilent
<1>3. WorkerStep => Kept
  BY <1>p, <1>y, WorkersPersist DEF WorkerStep
<1>4. DeletionStep => Kept
  BY <1>p, <1>y, DeletionsPersist DEF DeletionStep
<1>5. SweepStep => Kept
  <2>1. SweepStep => \A j \in Jobs : JobMoves(j)
    BY <1>y, SweepJobs
  <2> QED BY <2>1 DEF JobMoves, Known, Exists
<1>6. ASSUME ReindexStep PROVE Kept
  <2>1. PICK r \in Reindexers :
           \/ StartReindex(r) \/ WipeNamespace(r) \/ FindReady(r) \/ InsertReindexJob(r)
           \/ PointDocument(r) \/ SendReindexMessage(r) \/ FinishReindex(r)
           \/ ReindexSendRaises(r) \/ FailReindexDocument(r) \/ FailReindexJob(r)
           \/ ReindexFails(r)
    BY <1>6 DEF ReindexStep
  <2>2. ~FailReindexJob(r) => jobs' = jobs
    BY <2>1 DEF StartReindex, WipeNamespace, FindReady, PointDocument, SendReindexMessage,
                FinishReindex, ReindexSendRaises, FailReindexDocument, ReindexFails
  <2>3. FailReindexJob(r) => JobsPersist({})
    BY <1>y, StatusPersists DEF FailReindexJob
  <2> QED BY <1>p, <1>u, <2>2, <2>3
<1>7. UNCHANGED vars => Kept
  BY <1>u DEF vars
<1> HIDE DEF Kept
<1>8. Kept
  BY <1>1, <1>2, <1>3, <1>4, <1>5, <1>6, <1>7 DEF Next, Kept
<1> QED BY <1>8 DEF Kept

\* Reindexing starts with a document that is ready.
LEMMA BecomesRestarted ==
    ASSUME IInv, Registered, [Next]_vars, NEW d \in Docs, Restarted(d)'
    PROVE  Restarted(d) \/ docs[d].status = "ready"
<1>y. TypeOK /\ ReindexInOrder /\ Persists
  BY RegisteredPreserved DEF IInv
<1>j. jobs \in [Jobs -> Job]
  BY <1>y DEF TypeOK, StoreTypeOK
<1>1. ASSUME \A r \in Reindexers : ~InsertReindexJob(r)
      PROVE  \A j \in Jobs : Renewed(d, j)' => Renewed(d, j)
  <2>1. \A j \in Jobs \ Docs : ~Known(j) => ~Known(j)'
    BY <1>1, ReindexingCreates
  <2> QED BY <1>y, <2>1 DEF Renewed, Persists, JobsPersist
<1>2. CASE ~ReindexStep
  <2>1. reindex' = reindex
    <3>1. DeletionStep => reindex' = reindex
      BY DEF DeletionStep, StartDeletion, DeleteVectors, DeleteJobs, DeleteDocument, DeletionFails
    <3> QED BY <1>2, <3>1 DEF Next, vars
  <2>2. \A r \in Reindexers : ~InsertReindexJob(r)
    BY <1>2 DEF ReindexStep
  <2> QED BY <1>1, <2>1, <2>2 DEF Restarted
<1>3. CASE ReindexStep
  <2>1. PICK r \in Reindexers :
           \/ StartReindex(r) \/ WipeNamespace(r) \/ FindReady(r) \/ InsertReindexJob(r)
           \/ PointDocument(r) \/ SendReindexMessage(r) \/ FinishReindex(r)
           \/ ReindexSendRaises(r) \/ FailReindexDocument(r) \/ FailReindexJob(r)
           \/ ReindexFails(r)
    BY <1>3 DEF ReindexStep
  <2> DEFINE ready == {e \in Docs : docs[e].status = "ready" /\ ~Archived(e)}
  <2>2. \A s \in Reindexers \ {r} : reindex'[s] = reindex[s]
    BY <1>y, <2>1, RequestTurns DEF Request
  <2>3. reindex'[r].todo \subseteq reindex[r].todo \cup ready
    BY <1>y, <2>1, RequestTurns DEF Request
  <2>4. CASE \A s \in Reindexers : ~InsertReindexJob(s)
    BY <1>1, <2>2, <2>3, <2>4 DEF Restarted
  <2>5. CASE \E s \in Reindexers : InsertReindexJob(s)
    <3>1. PICK s \in Reindexers : InsertReindexJob(s)
      BY <2>5
    <3>2. PICK e \in reindex[s].todo, i \in Jobs \ Docs :
             jobs[i].status = "absent" /\ jobs' = InsertJob(i, e)
      BY <1>y, <3>1, RequestTurns
    <3>3. \A j \in Jobs : Renewed(d, j)' => Renewed(d, j) \/ d = e
      BY <1>j, <3>2 DEF Renewed, Known, InsertJob, NoJob
    <3> QED BY <2>2, <2>3, <3>2, <3>3 DEF Restarted
  <2> QED BY <2>4, <2>5
<1> QED BY <1>2, <1>3

\* Only finished jobs make documents ready.
LEMMA ReadyFinishedStays ==
    ASSUME IInv, Registered, OneProcessor, ReadyFinished, [Next]_vars
    PROVE  ReadyFinished'
<1> SUFFICES ASSUME NEW d \in Docs, docs'[d].status = "ready" \/ Restarted(d)'
             PROVE  Finished(d)'
  BY DEF ReadyFinished
<1>y. TypeOK /\ Persists /\ d \in Jobs
  BY RegisteredPreserved, BoundsAssumption DEF IInv, Docs, Jobs
<1>1. CASE docs[d].status = "ready" \/ Restarted(d)
  BY <1>1, <1>y, FinishedStays DEF ReadyFinished
<1>2. CASE \E w \in Workers : ReadyDoc(w) /\ DocOf(w) = d
  <2>1. PICK w \in Workers : ReadyDoc(w) /\ DocOf(w) = d
    BY <1>2
  <2>2. worker[w].pc = "readyDoc" /\ worker[w].msg \in Messages
    BY <2>1 DEF ReadyDoc, At, Registered, HoldsMessage
  <2>3. PICK j \in Jobs : j = JobOf(w) /\ Known(j) /\ jobs[j].document_id = d
    BY <2>1, <2>2 DEF Registered, HoldsMessage, JobOf, DocOf, Messages
  <2>4. CASE j \notin Docs
    BY <1>1, <2>3, <2>4 DEF Restarted, Renewed
  <2>5. CASE j \in Docs
    <3>1. j = d
      BY <2>3, <2>5 DEF Registered, JobRecord
    <3>2. Busy(w, d)
      BY <2>2, <2>3, <3>1 DEF Busy, Working
    <3>3. Started(d)'
      BY <1>y, <3>2, StartedStays DEF OneProcessor
    <3>4. worker'[w].pc = "ack" /\ Alone(w)
      BY <1>y, <2>1, WorkerTurns DEF Turn, KeepsMessage
    <3>5. ASSUME NEW v \in Workers PROVE ~Busy(v, d)'
      <4>1. CASE v = w
        BY <3>4, <4>1 DEF Busy, Working, Owning
      <4>2. CASE v # w
        BY <1>y, <3>2, <3>4, <4>2 DEF OneProcessor, Alone, Busy, JobOf
      <4> QED BY <4>1, <4>2
    <3> QED BY <3>3, <3>5 DEF Finished
  <2> QED BY <2>4, <2>5
<1> QED BY <1>1, <1>2, <1>y, BecomesReady, BecomesRestarted

\* A later version is uploaded only after its predecessor was finished.
LEMMA VersionsFollowOn ==
    ASSUME IInv, Registered, ReadyFinished, VersionsFollow, [Next]_vars
    PROVE  VersionsFollow'
<1> SUFFICES ASSUME NEW d \in Docs, uploads'[d].version > 1
             PROVE  \E p \in Docs : Predecessor(d, p)'
  BY DEF VersionsFollow
<1>y. TypeOK /\ Persists /\ UploadTypeOK /\ Docs \subseteq Jobs
  BY RegisteredPreserved, BoundsAssumption DEF IInv, Docs, Jobs, TypeOK
<1>1. ASSUME uploads'[d].version = uploads[d].version, uploads'[d].lineage_id = uploads[d].lineage_id
      PROVE  \E p \in Docs : Predecessor(d, p)'
  <2>1. PICK p \in Docs : Predecessor(d, p)
    BY <1>1 DEF VersionsFollow
  <2>2. Finished(p)'
    BY <1>y, <2>1, FinishedStays DEF Predecessor
  <2>3. /\ docs'[p].status # "absent"
        /\ docs'[p].version = docs[p].version
        /\ docs'[p].lineage_id = docs[p].lineage_id
    BY <1>y, <2>1 DEF Predecessor, Persists, DocsPersist, KeepsRecord, Inserted
  <2>4. Predecessor(d, p)'
    BY <1>1, <2>1, <2>2, <2>3 DEF Predecessor, Inserted
  <2> QED BY <2>4
<1>2. ASSUME FindPredecessor(d) PROVE \E p \in Docs : Predecessor(d, p)'
  <2>1. \E p \in Predecessors(uploads[d].content) :
           /\ uploads'[d].version = docs[p].version + 1
           /\ uploads'[d].lineage_id = docs[p].lineage_id
    BY <1>2, <1>y, FindTurns
  <2>2. PICK p \in Docs : /\ docs[p].status = "ready"
                          /\ uploads'[d].version = docs[p].version + 1
                          /\ uploads'[d].lineage_id = docs[p].lineage_id
    BY <2>1 DEF Predecessors
  <2>3. docs' = docs
    BY <1>2 DEF FindPredecessor
  <2>4. Finished(p)'
    BY <1>y, <2>2, FinishedStays DEF ReadyFinished
  <2>5. Predecessor(d, p)'
    BY <2>2, <2>3, <2>4 DEF Predecessor, Inserted
  <2> QED BY <2>5
<1>3. CASE uploads'[d] = uploads[d]
  BY <1>1, <1>3
<1>4. CASE uploads'[d] # uploads[d]
  <2>1. uploads' # uploads
    BY <1>4
  <2>2. PICK e \in Docs : Uploading(e)
    BY <2>1 DEF Next, vars, UploadStep, Uploading
  <2>3. e = d
    BY <1>4, <1>y, <2>2, UploadEffects
  <2>4. \A pc : Goto(d, pc) => UploadTurn(d, pc)
    BY <1>y, GotoTurns
  <2>5. \A c \in Contents : StartUpload(d, c) => uploads'[d].version = uploads[d].version
                                             /\ uploads'[d].lineage_id = uploads[d].lineage_id
    BY <1>y, StartTurns
  <2>6. UploadProceeds(d) => FindPredecessor(d) \/ \E pc : Goto(d, pc)
    BY DEF UploadProceeds, PutFile, InsertDocument, InsertUploadJob, SendUploadMessage,
           LoseUploadMessage, UndoFile, UndoDocument, FailUploadedDocument, FailUploadedJob,
           UploadCallRaises, UploadCrashes
  <2> QED BY <1>1, <1>2, <2>2, <2>3, <2>4, <2>5, <2>6 DEF Uploading, UploadTurn
<1> QED BY <1>3, <1>4

\* Every step keeps jobs in order.
LEMMA OrderPreserved ==
    IInv /\ Registered /\ OrderInvariant /\ [Next]_vars => OrderInvariant'
  BY OneProcessorStays, ReadyFinishedStays, VersionsFollowOn DEF OrderInvariant

\* No job has been started.
LEMMA OrderInitially == Init => OrderInvariant
<1> SUFFICES ASSUME Init PROVE OrderInvariant
  OBVIOUS
<1>1. OneProcessor
  BY DEF Init, WorkerInit, OneProcessor, Busy, Idle, Working, Owning
<1>2. \A d \in Docs : docs[d].status # "ready" /\ ~Restarted(d)
  BY DEF Init, StoreInit, AdminInit, NoDocument, NoJob, NoReindex, Restarted, Renewed, Known
<1>3. VersionsFollow
  BY DEF Init, UploadInit, VersionsFollow
<1> QED BY <1>1, <1>2, <1>3 DEF OrderInvariant, ReadyFinished

-----------------------------------------------------------------------------
(* The vectors of archived documents. *)

\* No reindexing created a job.
NoReindexJobs == \A j \in Jobs \ Docs : ~Known(j)

\* The document a worker is about to archive cannot be found any more.
Cleared(w) ==
    worker[w].pc = "archive" /\ ~HasSibling(worker[w].pred) => VectorsOf(worker[w].pred) = {}

ReplacedInvariant ==
    /\ NoReindexJobs
    /\ \A w \in Workers : Cleared(w)
    /\ ArchivedNotSearchable

\* Only an upsert adds vectors, those of the document it is about.
LEMMA VectorsShrink ==
    ASSUME TypeOK, [Next]_vars
    PROVE  \/ vectors' \subseteq vectors
           \/ \E w \in Workers : /\ Upsert(w)
                                 /\ vectors' = vectors \cup ({DocOf(w)} \X worker[w].fresh)
<1>1. CASE UploadStep
  BY <1>1 DEF UploadStep, UploadProceeds, StartUpload, FindPredecessor, PutFile, InsertDocument,
     InsertUploadJob, SendUploadMessage, LoseUploadMessage, UndoFile, UndoDocument,
     FailUploadedDocument, FailUploadedJob, UploadCallRaises, UploadCrashes
<1>2. CASE BrokerStep
  BY <1>2, BrokerSilent
<1>3. CASE WorkerStep
  <2>1. PICK w \in Workers : WorkerProceeds(w) \/ WorkerFails(w)
    BY <1>3 DEF WorkerStep
  <2>2. Upsert(w) => vectors' = vectors \cup ({DocOf(w)} \X worker[w].fresh)
    BY DEF Upsert
  <2>3. DeletePredecessorVectors(w) \/ RollbackVectors(w) => vectors' \subseteq vectors
    BY DEF DeletePredecessorVectors, RollbackVectors
  <2>4. \/ \E m \in Messages : Receive(w, m)
        \/ Claim(w) \/ SkipClaimed(w) \/ MarkDocumentProcessing(w) \/ LoadDocument(w)
        \/ Deduplicate(w) \/ FindPredecessorToArchive(w) \/ ArchivePredecessor(w)
        \/ ReadyJob(w) \/ ReadyDoc(w) \/ FailJob(w) \/ FailDoc(w)
        \/ Ack(w) \/ GiveUpDoc(w) \/ GiveUpJob(w) \/ Drop(w)
        => vectors' = vectors
    BY DEF Receive, Claim, SkipClaimed, MarkDocumentProcessing, LoadDocument, Deduplicate,
           FindPredecessorToArchive, ArchivePredecessor, ReadyJob, ReadyDoc, FailJob, FailDoc,
           Ack, GiveUpDoc, GiveUpJob, Drop
  <2>5. WorkerFails(w) => vectors' = vectors
    BY DEF WorkerFails, PredecessorDeletionRaises, GuardedCallRaises, UnguardedCallRaises,
           GiveUpRaises, WorkerCrashes
  <2> QED BY <2>1, <2>2, <2>3, <2>4, <2>5 DEF WorkerProceeds
<1>4. CASE DeletionStep
  BY <1>4 DEF DeletionStep, StartDeletion, DeleteVectors, DeleteJobs, DeleteDocument, DeletionFails
<1>5. CASE ReindexStep
  BY <1>5 DEF ReindexStep, StartReindex, WipeNamespace, FindReady, InsertReindexJob, PointDocument,
     SendReindexMessage, FinishReindex, ReindexSendRaises, FailReindexDocument, FailReindexJob,
     ReindexFails
<1>6. CASE SweepStep
  BY <1>6 DEF SweepStep, ReadFailedJobs, SweepProceeds, FindSweptDocument, SendSweptMessage,
     CountRetry, FinishSweep, SweepFails
<1>7. CASE UNCHANGED vars
  BY <1>7 DEF vars
<1> QED BY <1>1, <1>2, <1>3, <1>4, <1>5, <1>6, <1>7 DEF Next

\* A sibling stays one.
LEMMA SiblingsStay ==
    ASSUME Persists, NEW p \in Docs, Inserted(p), HasSibling(p)
    PROVE  HasSibling(p)'
<1>1. PICK q \in Docs \ {p} : /\ docs[q].status # "absent"
                              /\ docs[q].lineage_id = docs[p].lineage_id
                              /\ docs[q].version = docs[p].version
  BY DEF HasSibling
<1>2. \A e \in {p, q} : /\ docs'[e].status # "absent"
                        /\ docs'[e].lineage_id = docs[e].lineage_id
                        /\ docs'[e].version = docs[e].version
  BY <1>1 DEF Persists, DocsPersist, KeepsRecord, Inserted
<1> QED BY <1>1, <1>2 DEF HasSibling

\* Nobody processes a document without siblings that a later version was uploaded after.
LEMMA ReplacedStaysCleared ==
    ASSUME IInv, Registered, OrderInvariant, NoReindexJobs, [Next]_vars,
           NEW p \in Docs, NEW d \in Docs, Inserted(p), Inserted(d),
           docs[d].version > 1,
           docs[d].version = docs[p].version + 1,
           docs[d].lineage_id = docs[p].lineage_id,
           ~HasSibling(p), VectorsOf(p) = {}
    PROVE  VectorsOf(p)' = {}
<1>y. TypeOK /\ docs \in [Docs -> Document] /\ Docs \subseteq Jobs
  BY BoundsAssumption DEF IInv, TypeOK, StoreTypeOK, Docs, Jobs
<1>1. CASE vectors' \subseteq vectors
  BY <1>1 DEF VectorsOf
<1>2. CASE \E w \in Workers : Upsert(w) /\ vectors' = vectors \cup ({DocOf(w)} \X worker[w].fresh)
  <2>1. PICK w \in Workers : Upsert(w) /\ vectors' = vectors \cup ({DocOf(w)} \X worker[w].fresh)
    BY <1>2
  <2>2. CASE DocOf(w) # p
    BY <2>1, <2>2 DEF VectorsOf
  <2>3. CASE DocOf(w) = p
    <3>1. worker[w].pc = "upsert"
      BY <2>1 DEF Upsert, At
    <3>2. worker[w].msg \in Messages /\ broker[worker[w].msg].state # "unsent"
      BY <3>1 DEF Registered, HoldsMessage
    <3>3. JobOf(w) \in Jobs /\ Known(JobOf(w))
      BY <3>2 DEF Registered, JobOf, Messages
    <3>4. JobOf(w) = p
      BY <2>3, <3>3 DEF Registered, JobRecord, NoReindexJobs, DocOf
    <3>5. Busy(w, p)
      BY <3>1, <3>4 DEF Busy, Working, Owning
    <3>6. uploads[d].version > 1
      BY DEF Registered, RecordOf
    <3>7. PICK x \in Docs : Predecessor(d, x)
      BY <3>6 DEF OrderInvariant, VersionsFollow
    <3>8. /\ Inserted(x) /\ Finished(x)
          /\ docs[x].lineage_id = docs[d].lineage_id
          /\ docs[x].version + 1 = docs[d].version
      BY <3>7 DEF Predecessor, Registered, RecordOf
    <3>9. docs[x].version \in Nat /\ docs[p].version \in Nat
      BY <1>y DEF Document
    <3>10. docs[x].version = docs[p].version
      BY <3>8, <3>9
    <3>11. x = p
      BY <3>8, <3>10 DEF HasSibling, Inserted
    <3> QED BY <3>5, <3>8, <3>11 DEF Finished
  <2> QED BY <2>2, <2>3
<1> QED BY <1>1, <1>2, <1>y, VectorsShrink

\* Without reindex requests nothing but uploads creates jobs.
LEMMA NoReindexJobsStays ==
    ASSUME IInv, Registered, NoReindexJobs, Reindexers = {}, [Next]_vars
    PROVE  NoReindexJobs'
<1>1. \A j \in Jobs \ Docs : ~Known(j) => ~Known(j)'
  BY ReindexingCreates
<1> QED BY <1>1 DEF NoReindexJobs

\* The deletion of its vectors comes between a worker's choice and its archiving.
LEMMA ClearedStays ==
    ASSUME IInv, Registered, ChainInvariant, OrderInvariant, ReplacedInvariant, [Next]_vars,
           NEW w \in Workers
    PROVE  Cleared(w)'
<1>y. TypeOK /\ Persists
  BY RegisteredPreserved DEF IInv
<1>1. CASE worker'[w] = worker[w] /\ worker[w].pc = "archive"
  <2>1. LoadedVersion(w) /\ ChosePredecessor(w)
    BY <1>1 DEF ChainInvariant, Loaded
  <2>2. PICK p \in Docs : p = worker[w].pred /\ Inserted(p)
    BY <2>1 DEF ChosePredecessor
  <2>3. PICK d \in Docs : d = DocOf(w) /\ Inserted(d)
    BY <1>1, <1>y, DocumentStays
  <2>4. docs[d].version \in Nat /\ docs[p].version \in Nat
    BY <1>y DEF TypeOK, StoreTypeOK, Document
  <2>5. /\ docs[d].version > 1
        /\ docs[d].version = docs[p].version + 1
        /\ docs[d].lineage_id = docs[p].lineage_id
    BY <2>1, <2>2, <2>3, <2>4 DEF LoadedVersion, ChosePredecessor
  <2>6. ASSUME ~HasSibling(p)' PROVE VectorsOf(p)' = {}
    <3>1. ~HasSibling(p)
      BY <1>y, <2>2, <2>6, SiblingsStay
    <3>2. VectorsOf(p) = {}
      BY <1>1, <2>2, <3>1 DEF ReplacedInvariant, Cleared
    <3> QED BY <2>2, <2>3, <2>5, <3>1, <3>2, ReplacedStaysCleared DEF ReplacedInvariant
  <2>7. worker'[w].pred = p
    BY <1>1, <2>2
  <2> QED BY <2>6, <2>7 DEF Cleared, HasSibling, VectorsOf
<1>2. CASE worker'[w].pc # "archive"
  BY <1>2 DEF Cleared
<1>3. CASE worker'[w] # worker[w] /\ worker'[w].pc = "archive"
  <2>1. worker' # worker
    BY <1>3
  <2>2. PICK v \in Workers : WorkerProceeds(v) \/ WorkerFails(v)
    BY <2>1 DEF Next, vars, WorkerStep
  <2>3. v = w
    <3>1. Alone(v)
      BY <1>y, <2>2, AloneTurns
    <3> QED BY <1>3, <3>1 DEF Alone
  <2>4. DeletePredecessorVectors(w)
    <3>1. \A m \in Messages : ~Receive(w, m)
      BY <1>3, <1>y, ReceptionTurns
    <3>2. ~Ended(w) /\ ~Failing(w) /\ ~Loading(w)
      BY <1>3 DEF Ended, Failing, Loading
    <3>3. \A pc : Turn(w, pc) => pc = "archive"
      BY <1>3 DEF Turn
    <3>4. \A pc, f : Freshening(w, pc, f) => pc = "archive"
      BY <1>3 DEF Freshening
    <3>5. \A p : ~Choosing(w, p)
      BY <1>3 DEF Choosing
    <3> QED BY <1>y, <2>2, <2>3, <3>1, <3>2, <3>3, <3>4, <3>5, WorkerTurns
            DEF WorkerProceeds, WorkerFails
  <2>5. worker'[w].pred = worker[w].pred
    BY <1>y, <2>4, WorkerTurns DEF Turn
  <2>6. vectors' = vectors \ VectorsOf(worker[w].pred)
    BY <2>4 DEF DeletePredecessorVectors
  <2> QED BY <2>5, <2>6 DEF Cleared, VectorsOf
<1> QED BY <1>1, <1>2, <1>3

\* What is archived was cleared before, and stays so.
LEMMA ArchivedStaysCleared ==
    ASSUME IInv, Registered, ChainInvariant, OrderInvariant, ReplacedInvariant, [Next]_vars
    PROVE  ArchivedNotSearchable'
<1>y. TypeOK /\ Persists
  BY RegisteredPreserved DEF IInv
<1> SUFFICES ASSUME NEW p \in Docs, Archived(p)', ~HasSibling(p)'
             PROVE  VectorsOf(p)' = {}
  BY DEF ArchivedNotSearchable
<1>1. CASE Archived(p)
  <2>1. Inserted(p)
    BY <1>1 DEF Registered, RecordOf, Archived
  <2>2. ~HasSibling(p)
    BY <1>y, <2>1, SiblingsStay
  <2>3. VectorsOf(p) = {}
    BY <1>1, <2>2 DEF ReplacedInvariant, ArchivedNotSearchable
  <2>4. PICK d \in Docs : d = docs[p].superseded_by
    BY <1>1, <1>y DEF Archived, TypeOK, StoreTypeOK, Document
  <2>5. /\ Inserted(d) /\ docs[d].version > 1
        /\ docs[d].version = docs[p].version + 1
        /\ docs[d].lineage_id = docs[p].lineage_id
    BY <1>1, <2>4 DEF ChainInvariant, ArchivedChain
  <2> QED BY <2>1, <2>2, <2>3, <2>5, ReplacedStaysCleared DEF ReplacedInvariant
<1>2. CASE ~Archived(p)
  <2>1. ~SuccessorsKept
    BY <1>2 DEF SuccessorsKept, Archived
  <2>2. PICK w \in Workers : ArchivePredecessor(w)
    BY <1>y, <2>1, SuccessorsStay
  <2>3. worker[w].pc = "archive" /\ vectors' = vectors
    BY <2>2 DEF ArchivePredecessor, At
  <2>4. p = worker[w].pred
    <3>1. docs \in [Docs -> Document]
      BY <1>y DEF TypeOK, StoreTypeOK
    <3>2. docs'[p] = docs[p] \/ p = worker[w].pred
      BY <2>2, <3>1 DEF ArchivePredecessor
    <3> QED BY <1>2, <3>2 DEF Archived
  <2>5. Inserted(p)
    BY <2>3, <2>4 DEF ChainInvariant, Loaded, ChosePredecessor
  <2>6. ~HasSibling(p)
    BY <1>y, <2>5, SiblingsStay
  <2>7. VectorsOf(p) = {}
    BY <2>3, <2>4, <2>6 DEF ReplacedInvariant, Cleared
  <2> QED BY <2>3, <2>7 DEF VectorsOf
<1> QED BY <1>1, <1>2

\* Queries no longer find an archived version, whatever is redelivered or fails, unless
\* concurrent uploads gave it a sibling.  A reindex request may process an archived document
\* once more; without one nothing does.
THEOREM ArchivedVersionsAreNotSearchable ==
    Reindexers = {} => (Spec => []ArchivedNotSearchable)
<1> SUFFICES ASSUME Reindexers = {} PROVE Spec => []ArchivedNotSearchable
  OBVIOUS
<1> DEFINE Inv == IInv /\ Registered /\ ChainInvariant /\ OrderInvariant /\ ReplacedInvariant
<1>1. Init => Inv
  <2>1. Init => ReplacedInvariant
    BY DEF Init, StoreInit, WorkerInit, ReplacedInvariant, NoReindexJobs, Known, Cleared,
           ArchivedNotSearchable, Archived, NoDocument, NoJob, Idle
  <2> QED BY <2>1, ChainInitially, InitialInvariant, RegisteredInitially, OrderInitially
<1>2. Inv /\ [Next]_vars => Inv'
  <2> SUFFICES ASSUME Inv, [Next]_vars PROVE Inv'
    OBVIOUS
  <2>1. (IInv /\ Registered /\ ChainInvariant /\ OrderInvariant)'
    BY InvariantPreserved, RegisteredPreserved, ChainPreserved, OrderPreserved
  <2>2. NoReindexJobs'
    BY NoReindexJobsStays DEF ReplacedInvariant
  <2>3. \A w \in Workers : Cleared(w)'
    BY ClearedStays
  <2>4. ArchivedNotSearchable'
    BY ArchivedStaysCleared
  <2> QED BY <2>1, <2>2, <2>3, <2>4 DEF ReplacedInvariant
<1>3. Inv => ArchivedNotSearchable
  BY DEF ReplacedInvariant
<1> QED BY <1>1, <1>2, <1>3, PTL DEF Spec

-----------------------------------------------------------------------------
(* Uploads that answer with an error. *)

\* Until its message is sent, an upload has its document to itself.
Withheld ==
    {"off", "find", "put", "insertDoc", "insertJob", "send", "undoFile", "undoJobFile",
     "undoDoc", "failDoc", "failJob"}
WithheldUpload(d) ==
    uploads[d].pc \in Withheld =>
      /\ Unheard(d) /\ ~Restarted(d)
      /\ docs[d].status \in {"absent", "queued", "failed", "deleted"}
      /\ jobs[d].status \in {"absent", "queued", "deleted"}
      /\ docs[d].status = "deleted" => d \in Deletable
      /\ uploads[d].pc \in {"off", "find", "put", "undoDoc"} => files[d] = NoContent
      /\ uploads[d].pc = "failJob" => docs[d].status \in {"failed", "deleted"}

\* A worker that does nothing for its job any more, unless it claims it.
Dead(w) == worker[w].pc \in {"idle", "claim", "ack", "giveUpDoc", "giveUpJob", "drop"}

\* What a rejected upload left behind, and nobody works for it.
RejectedUpload(d) ==
    uploads[d].pc = "rejected" /\ d \notin abandoned =>
      /\ docs[d].status \in {"absent", "failed", "deleted"}
      /\ jobs[d].status \in {"absent", "failed", "deleted"}
      /\ Exists(docs[d]) => Exists(jobs[d]) \/ d \in Deletable
      /\ Exists(docs[d]) \/ d \in Deletable \/ files[d] = NoContent
      /\ ~Restarted(d)
      /\ \A w \in Workers : JobOf(w) = d => Dead(w)

Rejecting(d) ==
    /\ WithheldUpload(d) /\ RejectedUpload(d)
    /\ jobs[d].status = "deleted" => d \in Deletable

\* The head of a request's queue is a job it created.
LEMMA HeadOfQueue ==
    ASSUME TypeOK, Registered, NEW r \in Reindexers, reindex[r].queued # <<>>
    PROVE  /\ Head(reindex[r].queued) \in ToSet(reindex[r].queued)
           /\ Renewed(Head(reindex[r].queued)[1], Head(reindex[r].queued)[2])
<1>1. reindex[r].queued \in Seq(Docs \X Jobs)
  BY DEF TypeOK, AdminTypeOK
<1>2. Head(reindex[r].queued) \in ToSet(reindex[r].queued)
  BY <1>1, ElementsOfTail
<1>3. \A p \in ToSet(reindex[r].queued) : Renewed(p[1], p[2])
  BY DEF Registered, ReindexKnown
<1> QED BY <1>2, <1>3

\* Reindexing and the workers touch an upload's document only for one of its jobs.
LEMMA UploadedDocumentMoves ==
    ASSUME IInv, Registered, [Next]_vars, NEW d \in Docs, ~Restarted(d)
    PROVE  \/ DocStays(d)
           \/ InsertDocument(d) /\ docs'[d].status = "queued"
           \/ UndoDocument(d) /\ DocBecomes(d, "deleted")
           \/ FailUploadedDocument(d) /\ DocBecomes(d, "failed")
           \/ \E w \in Workers : worker[w].pc # "idle" /\ JobOf(w) = d /\ WorkerMovesDoc(w, d)
           \/ d \in Deletable /\ DocBecomes(d, "deleted")
<1>y. TypeOK /\ ReindexInOrder
  BY DEF IInv
<1>1. ASSUME NEW w \in Workers, WorkerMovesDoc(w, d) PROVE worker[w].pc # "idle" /\ JobOf(w) = d
  <2>1. worker[w].pc # "idle" /\ DocOf(w) = d
    BY <1>1 DEF WorkerMovesDoc, MarkDocumentProcessing, ReadyDoc, FailDoc, GiveUpDoc, At
  <2>2. JobOf(w) \in Jobs /\ Known(JobOf(w))
    BY <2>1 DEF Registered, HoldsMessage, JobOf, Messages
  <2>3. JobOf(w) \in Docs
    BY <2>1, <2>2 DEF Restarted, Renewed, DocOf
  <2> QED BY <2>1, <2>2, <2>3 DEF Registered, JobRecord, DocOf
<1>2. ASSUME NEW r \in Reindexers, PointDocument(r) PROVE reindex[r].current[1] # d
  <2>1. Renewed(reindex[r].current[1], reindex[r].current[2])
    BY <1>2 DEF Registered, ReindexKnown, PointDocument, ReindexAt
  <2> QED BY <2>1 DEF Restarted, Renewed
<1>3. ASSUME NEW r \in Reindexers, FailReindexDocument(r) PROVE Head(reindex[r].queued)[1] # d
  <2>1. Renewed(Head(reindex[r].queued)[1], Head(reindex[r].queued)[2])
    BY <1>3, <1>y, HeadOfQueue DEF FailReindexDocument, ReindexAt, ReindexInOrder, InOrder
  <2> QED BY <2>1 DEF Restarted, Renewed
<1> QED BY <1>1, <1>2, <1>3, <1>y, DocumentsMove DEF DocMoves

\* Its job is moved by the upload, by workers that hold it, and by its own deletion.
LEMMA UploadedJobMoves ==
    ASSUME IInv, Registered, [Next]_vars, NEW d \in Docs
    PROVE  \/ JobStays(d)
           \/ InsertUploadJob(d) /\ jobs'[d].status = "queued"
           \/ FailUploadedJob(d) /\ JobBecomes(d, "failed")
           \/ \E w \in Workers : worker[w].pc # "idle" /\ WorkerMovesJob(w, d)
           \/ d \in Deletable /\ JobBecomes(d, "deleted")
<1>y. TypeOK /\ ReindexInOrder /\ d \in Jobs
  BY BoundsAssumption DEF IInv, Docs, Jobs
<1>1. ASSUME NEW w \in Workers, WorkerMovesJob(w, d) PROVE worker[w].pc # "idle"
  BY <1>1 DEF WorkerMovesJob, Claim, ReadyJob, FailJob, GiveUpJob, At
<1>2. ASSUME NEW r \in Reindexers, FailReindexJob(r) PROVE Head(reindex[r].queued)[2] # d
  <2>1. Renewed(Head(reindex[r].queued)[1], Head(reindex[r].queued)[2])
    BY <1>2, <1>y, HeadOfQueue DEF FailReindexJob, ReindexAt, ReindexInOrder, InOrder
  <2> QED BY <2>1 DEF Renewed
<1>3. ASSUME NEW e \in Deletable, DeleteJobs(e), jobs[d].document_id = e, JobBecomes(d, "deleted")
      PROVE  d \in Deletable
  <2>1. Known(d)
    BY <1>3 DEF JobBecomes, Exists, Known
  <2> QED BY <1>3, <1>y, <2>1 DEF Registered, JobRecord
<1> QED BY <1>1, <1>2, <1>3, <1>y, JobsMove DEF JobMovesBy

\* Only its own request writes an upload's file, and nobody is taken off the abandoned jobs.
LEMMA FilesAndHistory ==
    ASSUME TypeOK, [Next]_vars
    PROVE  /\ \A d \in Docs : files'[d] = files[d] \/ PutFile(d) \/ UndoFile(d)
           /\ abandoned \subseteq abandoned'
<1>y. files \in [Docs -> Contents \cup {NoContent}]
  BY DEF TypeOK, StoreTypeOK
<1> DEFINE Goal == /\ \A d \in Docs : files'[d] = files[d] \/ PutFile(d) \/ UndoFile(d)
                   /\ abandoned \subseteq abandoned'
<1>k. files' = files /\ abandoned \subseteq abandoned' => Goal
  OBVIOUS
<1> SUFFICES Goal
  OBVIOUS
<1>1. CASE UploadStep
  <2>1. PICK e \in Docs : UploadProceeds(e) \/ \E c \in Contents : StartUpload(e, c)
    BY <1>1 DEF UploadStep
  <2>2. abandoned \subseteq abandoned'
    BY <2>1 DEF UploadProceeds, StartUpload, FindPredecessor, PutFile, InsertDocument, InsertUploadJob,
     SendUploadMessage, LoseUploadMessage, UndoFile, UndoDocument,
     FailUploadedDocument, FailUploadedJob, UploadCallRaises, UploadCrashes, NoFault
  <2>3. ~PutFile(e) /\ ~UndoFile(e) => files' = files
    BY <2>1 DEF UploadProceeds, StartUpload, FindPredecessor, InsertDocument, InsertUploadJob,
     SendUploadMessage, LoseUploadMessage, UndoDocument,
     FailUploadedDocument, FailUploadedJob, UploadCallRaises, UploadCrashes
  <2>4. PutFile(e) \/ UndoFile(e) => \A d \in Docs \ {e} : files'[d] = files[d]
    BY <1>y DEF PutFile, UndoFile
  <2> QED BY <2>2, <2>3, <2>4
<1>2. CASE BrokerStep
  BY <1>2, <1>k, BrokerSilent
<1>3. CASE WorkerStep
  <2>1. PICK w \in Workers : WorkerProceeds(w) \/ WorkerFails(w)
    BY <1>3 DEF WorkerStep
  <2>2. WorkerProceeds(w) => files' = files
    BY DEF WorkerProceeds, Receive, Claim, SkipClaimed, MarkDocumentProcessing, LoadDocument,
           Deduplicate, Upsert, FindPredecessorToArchive, DeletePredecessorVectors, RollbackVectors,
           ArchivePredecessor, ReadyJob, ReadyDoc, FailJob, FailDoc, Ack, GiveUpDoc, GiveUpJob, Drop
  <2>3. WorkerProceeds(w) => abandoned' = abandoned
    BY DEF WorkerProceeds, Receive, Claim, SkipClaimed, MarkDocumentProcessing, LoadDocument,
           Deduplicate, Upsert, FindPredecessorToArchive, DeletePredecessorVectors, RollbackVectors,
           ArchivePredecessor, ReadyJob, ReadyDoc, FailJob, FailDoc, Ack, GiveUpDoc, GiveUpJob, Drop,
           NoFault
  <2>4. WorkerFails(w) => files' = files /\ abandoned \subseteq abandoned'
    BY DEF WorkerFails, PredecessorDeletionRaises, GuardedCallRaises, UnguardedCallRaises,
           GiveUpRaises, WorkerCrashes
  <2> QED BY <1>k, <2>1, <2>2, <2>3, <2>4
<1>4. CASE DeletionStep
  BY <1>4, <1>k DEF DeletionStep, StartDeletion, DeleteVectors, DeleteJobs, DeleteDocument,
     DeletionFails, NoFault
<1>5. CASE ReindexStep
  BY <1>5, <1>k DEF ReindexStep, StartReindex, WipeNamespace, FindReady, InsertReindexJob, PointDocument,
     SendReindexMessage, FinishReindex, ReindexSendRaises, FailReindexDocument, FailReindexJob,
     ReindexFails, ReindexUnchanged, NoFault
<1>6. CASE SweepStep
  BY <1>6, <1>k DEF SweepStep, ReadFailedJobs, SweepProceeds, FindSweptDocument, SendSweptMessage,
     CountRetry, FinishSweep, SweepFails, NoFault
<1>7. CASE UNCHANGED vars
  BY <1>7, <1>k DEF vars
<1> QED BY <1>1, <1>2, <1>3, <1>4, <1>5, <1>6, <1>7 DEF Next

\* A dead worker stays dead, unless it claims a job.
LEMMA DeadStays ==
    ASSUME TypeOK, NEW w \in Workers, WorkerProceeds(w) \/ WorkerFails(w), Dead(w)
    PROVE  Dead(w)' \/ Claim(w)
<1>1. Ended(w) => Dead(w)'
  BY DEF Ended, Dead
<1>2. \A pc \in {"ack", "giveUpDoc", "giveUpJob", "drop"} : Turn(w, pc) => Dead(w)'
  BY DEF Turn, Dead
<1>3. \A m \in Messages : Receive(w, m) => Dead(w)'
  BY ReceptionTurns DEF Dead
<1>4. SkipClaimed(w) \/ Ack(w) \/ GiveUpDoc(w) \/ GiveUpJob(w) \/ Drop(w) \/ UnguardedCallRaises(w)
      \/ GiveUpRaises(w) \/ WorkerCrashes(w) => Dead(w)'
  BY <1>1, <1>2, WorkerTurns
<1>5. ~MarkDocumentProcessing(w) /\ ~LoadDocument(w) /\ ~Deduplicate(w) /\ ~Upsert(w)
      /\ ~FindPredecessorToArchive(w) /\ ~DeletePredecessorVectors(w) /\ ~RollbackVectors(w)
      /\ ~ArchivePredecessor(w) /\ ~ReadyJob(w) /\ ~ReadyDoc(w) /\ ~FailJob(w) /\ ~FailDoc(w)
      /\ ~PredecessorDeletionRaises(w) /\ ~GuardedCallRaises(w)
  BY DEF MarkDocumentProcessing, LoadDocument, Deduplicate, Upsert,
         FindPredecessorToArchive, DeletePredecessorVectors, RollbackVectors,
         ArchivePredecessor, ReadyJob, ReadyDoc, FailJob, FailDoc, PredecessorDeletionRaises,
         GuardedCallRaises, At, Guarded, Dead
<1> QED BY <1>3, <1>4, <1>5 DEF WorkerProceeds, WorkerFails

\* What a withheld upload's document is to the others, whoever acts.
LEMMA WithheldUntouched ==
    ASSUME IInv, Registered, ~AmbiguousSend, [Next]_vars, NEW d \in Docs,
           uploads[d].pc \in Withheld, WithheldUpload(d)
    PROVE  /\ ~SendUploadMessage(d) => Unheard(d)'
           /\ ~Restarted(d)'
           /\ \/ DocStays(d)
              \/ InsertDocument(d) /\ docs'[d].status = "queued"
              \/ UndoDocument(d) /\ DocBecomes(d, "deleted")
              \/ FailUploadedDocument(d) /\ DocBecomes(d, "failed")
              \/ d \in Deletable /\ DocBecomes(d, "deleted")
           /\ \/ JobStays(d)
              \/ InsertUploadJob(d) /\ jobs'[d].status = "queued"
              \/ FailUploadedJob(d) /\ JobBecomes(d, "failed")
              \/ d \in Deletable /\ JobBecomes(d, "deleted")
<1>y. TypeOK /\ ReindexInOrder /\ d \in Jobs
  BY BoundsAssumption DEF IInv, Docs, Jobs
<1>1. /\ Unheard(d) /\ ~Restarted(d)
      /\ docs[d].status # "ready" /\ jobs[d].status # "failed"
  BY DEF WithheldUpload
<1>2. \A w \in Workers : ~(worker[w].pc # "idle" /\ JobOf(w) = d)
  BY <1>1 DEF Unheard
<1>3. ASSUME NEW r \in Reindexers, SendReindexMessage(r) PROVE Head(reindex[r].queued)[2] # d
  <2>1. Renewed(Head(reindex[r].queued)[1], Head(reindex[r].queued)[2])
    BY <1>3, <1>y, HeadOfQueue DEF SendReindexMessage
  <2> QED BY <2>1 DEF Renewed
<1>4. ~SendUploadMessage(d) => Unheard(d)'
  BY <1>1, <1>3, <1>y, UnheardStays
<1>5. ~Restarted(d)'
  BY <1>1, BecomesRestarted
<1>6. \/ DocStays(d)
      \/ InsertDocument(d) /\ docs'[d].status = "queued"
      \/ UndoDocument(d) /\ DocBecomes(d, "deleted")
      \/ FailUploadedDocument(d) /\ DocBecomes(d, "failed")
      \/ d \in Deletable /\ DocBecomes(d, "deleted")
  BY <1>1, <1>2, UploadedDocumentMoves
<1>7. \/ JobStays(d)
      \/ InsertUploadJob(d) /\ jobs'[d].status = "queued"
      \/ FailUploadedJob(d) /\ JobBecomes(d, "failed")
      \/ d \in Deletable /\ JobBecomes(d, "deleted")
  BY <1>2, UploadedJobMoves DEF WorkerMovesJob
<1> QED BY <1>4, <1>5, <1>6, <1>7

\* The steps of an upload change its pc.
LEMMA UploadMovesOn ==
    ASSUME TypeOK, NEW d \in Docs,
           InsertDocument(d) \/ UndoDocument(d) \/ FailUploadedDocument(d) \/ InsertUploadJob(d)
           \/ FailUploadedJob(d) \/ PutFile(d) \/ UndoFile(d) \/ SendUploadMessage(d)
    PROVE  uploads'[d] # uploads[d]
<1>1. UploadTypeOK
  BY DEF TypeOK
<1>2. \A pc : Goto(d, pc) => uploads'[d].pc = pc
  BY <1>1, GotoTurns DEF UploadTurn
<1> QED BY <1>2 DEF InsertDocument, UndoDocument, FailUploadedDocument, InsertUploadJob,
       FailUploadedJob, PutFile, UndoFile, SendUploadMessage

\* The job of an upload is only deleted with its document.
LEMMA DeletedOnRequest ==
    ASSUME IInv, Registered, [Next]_vars, NEW d \in Docs,
           jobs[d].status = "deleted" => d \in Deletable, jobs'[d].status = "deleted"
    PROVE  d \in Deletable
  BY UploadedJobMoves DEF JobStays, JobBecomes, WorkerMovesJob

\* The others leave a withheld upload withheld.
LEMMA WithheldElsewhere ==
    ASSUME IInv, Registered, ~AmbiguousSend, [Next]_vars, NEW d \in Docs,
           WithheldUpload(d), uploads'[d] = uploads[d]
    PROVE  WithheldUpload(d)'
<1>y. TypeOK
  BY DEF IInv
<1> SUFFICES ASSUME uploads[d].pc \in Withheld
             PROVE  WithheldUpload(d)'
  BY DEF WithheldUpload
<1>1. /\ ~InsertDocument(d) /\ ~UndoDocument(d) /\ ~FailUploadedDocument(d)
      /\ ~InsertUploadJob(d) /\ ~FailUploadedJob(d) /\ ~PutFile(d) /\ ~UndoFile(d)
      /\ ~SendUploadMessage(d)
  BY <1>y, UploadMovesOn
<1>2. files'[d] = files[d]
  BY <1>1, <1>y, FilesAndHistory
<1>3. Unheard(d)' /\ ~Restarted(d)'
  BY <1>1, WithheldUntouched
<1>4. \/ docs'[d].status = docs[d].status
      \/ docs'[d].status = "deleted" /\ d \in Deletable
  BY <1>1, WithheldUntouched DEF DocStays, DocBecomes, Repoints
<1>5. jobs'[d].status = jobs[d].status \/ jobs'[d].status = "deleted"
  BY <1>1, WithheldUntouched DEF JobStays, JobBecomes
<1>6. /\ docs[d].status \in {"absent", "queued", "failed", "deleted"}
      /\ jobs[d].status \in {"absent", "queued", "deleted"}
      /\ docs[d].status = "deleted" => d \in Deletable
      /\ uploads[d].pc \in {"off", "find", "put", "undoDoc"} => files[d] = NoContent
      /\ uploads[d].pc = "failJob" => docs[d].status \in {"failed", "deleted"}
  BY DEF WithheldUpload
<1> QED BY <1>2, <1>3, <1>4, <1>5, <1>6 DEF WithheldUpload

\* The others leave a rejected upload rejected.
LEMMA RejectedElsewhere ==
    ASSUME IInv, Registered, [Next]_vars, NEW d \in Docs,
           RejectedUpload(d), uploads'[d] = uploads[d],
           jobs'[d].status = "deleted" => d \in Deletable
    PROVE  RejectedUpload(d)'
<1>y. TypeOK
  BY DEF IInv
<1>a. abandoned \subseteq abandoned'
  BY <1>y, FilesAndHistory
<1> SUFFICES ASSUME uploads[d].pc = "rejected", d \notin abandoned
             PROVE  RejectedUpload(d)'
  BY <1>a DEF RejectedUpload
<1>1. /\ ~InsertDocument(d) /\ ~UndoDocument(d) /\ ~FailUploadedDocument(d)
      /\ ~InsertUploadJob(d) /\ ~FailUploadedJob(d) /\ ~PutFile(d) /\ ~UndoFile(d)
  BY <1>y, UploadMovesOn
<1>2. files'[d] = files[d]
  BY <1>1, <1>y, FilesAndHistory
<1>3. /\ docs[d].status \in {"absent", "failed", "deleted"}
      /\ jobs[d].status \in {"absent", "failed", "deleted"}
      /\ Exists(docs[d]) => Exists(jobs[d]) \/ d \in Deletable
      /\ Exists(docs[d]) \/ d \in Deletable \/ files[d] = NoContent
      /\ ~Restarted(d)
      /\ \A w \in Workers : JobOf(w) = d => Dead(w)
  BY DEF RejectedUpload
<1>4. ~Restarted(d)'
  BY <1>3, BecomesRestarted
<1>5. \A w \in Workers : JobOf(w) = d => ~Claim(w)
  BY <1>3 DEF Claim, Claimable
<1>6. \/ docs'[d].status = docs[d].status
      \/ Exists(docs[d]) /\ docs'[d].status = "failed"
      \/ docs'[d].status = "deleted" /\ d \in Deletable
  <2>1. ASSUME NEW w \in Workers, JobOf(w) = d, WorkerMovesDoc(w, d)
        PROVE  DocBecomes(d, "failed")
    <3>1. Dead(w)
      BY <1>3, <2>1
    <3> QED BY <2>1, <3>1 DEF WorkerMovesDoc, MarkDocumentProcessing, ReadyDoc, At, Dead
  <2> QED BY <1>1, <1>3, <2>1, UploadedDocumentMoves DEF DocStays, DocBecomes, Repoints
<1>7. \/ jobs'[d].status = jobs[d].status
      \/ Exists(jobs[d]) /\ jobs'[d].status = "failed"
      \/ jobs'[d].status = "deleted" /\ d \in Deletable
  <2>1. ASSUME NEW w \in Workers, WorkerMovesJob(w, d)
        PROVE  JobBecomes(d, "failed")
    <3>1. JobOf(w) = d /\ Dead(w)
      BY <1>3, <2>1 DEF WorkerMovesJob
    <3> QED BY <1>5, <2>1, <3>1 DEF WorkerMovesJob, ReadyJob, At, Dead
  <2> QED BY <1>1, <2>1, UploadedJobMoves DEF JobStays, JobBecomes
<1>8. ASSUME NEW w \in Workers, JobOf(w)' = d PROVE Dead(w)'
  <2>1. CASE worker'[w] = worker[w]
    <3>1. Dead(w)
      BY <1>3, <1>8, <2>1 DEF JobOf
    <3> QED BY <2>1, <3>1 DEF Dead
  <2>2. CASE worker'[w] # worker[w] /\ worker'[w].pc # "idle"
    <3>1. worker' # worker
      BY <2>2
    <3>2. PICK v \in Workers : WorkerProceeds(v) \/ WorkerFails(v)
      BY <3>1 DEF Next, vars, WorkerStep
    <3>3. v = w
      <4>1. Alone(v)
        BY <1>y, <3>2, AloneTurns
      <4> QED BY <2>2, <4>1 DEF Alone
    <3>4. CASE \E m \in Messages : Receive(w, m)
      BY <1>y, <3>4, ReceptionTurns DEF Dead
    <3>5. CASE ~\E m \in Messages : Receive(w, m)
      <4>1. JobOf(w) = d
        BY <1>8, <1>y, <2>2, <3>2, <3>3, <3>5, MessageKept DEF Ended, KeepsMessage, JobOf
      <4> QED BY <1>3, <1>5, <1>y, <3>2, <3>3, <4>1, DeadStays
    <3> QED BY <3>4, <3>5
  <2>3. CASE worker'[w].pc = "idle"
    BY <2>3 DEF Dead
  <2> QED BY <2>1, <2>2, <2>3
<1>9. docs'[d].status \in {"absent", "failed", "deleted"} /\ jobs'[d].status \in {"absent", "failed", "deleted"}
  BY <1>3, <1>6, <1>7
<1>10. Exists(docs'[d]) => Exists(jobs'[d]) \/ d \in Deletable
  BY <1>3, <1>6, <1>7 DEF Exists
<1>11. Exists(docs'[d]) \/ d \in Deletable \/ files'[d] = NoContent
  BY <1>2, <1>3, <1>6 DEF Exists
<1> QED BY <1>4, <1>8, <1>9, <1>10, <1>11 DEF RejectedUpload, Exists

\* Each step of an upload that has not been accepted keeps what holds until it is rejected.
LEMMA RejectingOnward ==
    ASSUME IInv, Registered, ~AmbiguousSend, [Next]_vars, NEW d \in Docs, Uploading(d),
           worker' = worker, Rejecting(d), jobs'[d].status = "deleted" => d \in Deletable
    PROVE  WithheldUpload(d)' /\ RejectedUpload(d)'
<1>y. TypeOK /\ UploadTypeOK
  BY DEF IInv, TypeOK
<1>g. \A pc : Goto(d, pc) => uploads'[d].pc = pc
  BY <1>y, GotoTurns DEF UploadTurn
<1>w. uploads[d].pc \in Withheld
  BY DEF Uploading, UploadProceeds, StartUpload, FindPredecessor, PutFile, InsertDocument,
         InsertUploadJob, SendUploadMessage, LoseUploadMessage, UndoFile, UndoDocument,
         FailUploadedDocument, FailUploadedJob, UploadCallRaises, UploadCrashes, UploadActive,
         UploadState, Withheld
<1>h. /\ WithheldUpload(d) /\ Unheard(d) /\ ~Restarted(d)
      /\ docs[d].status \in {"absent", "queued", "failed", "deleted"}
      /\ jobs[d].status \in {"absent", "queued", "deleted"}
      /\ docs[d].status = "deleted" => d \in Deletable
      /\ jobs[d].status = "deleted" => d \in Deletable
      /\ uploads[d].pc \in {"off", "find", "put", "undoDoc"} => files[d] = NoContent
      /\ uploads[d].pc = "failJob" => docs[d].status \in {"failed", "deleted"}
  BY <1>w DEF Rejecting, WithheldUpload
<1>u. /\ ~SendUploadMessage(d) => Unheard(d)'
      /\ ~Restarted(d)'
  BY <1>h, <1>w, WithheldUntouched
<1>t. UploadStage(d)
  BY DEF Registered
\* Nobody but idle workers has the job at hand.
<1>q. \A v \in Workers : JobOf(v)' = d => Dead(v)'
  <2>1. \A v \in Workers : JobOf(v) = d => worker[v].pc = "idle"
    BY <1>h DEF Unheard
  <2> QED BY <2>1 DEF JobOf, Dead
<1>0. /\ docs' = docs => docs'[d].status = docs[d].status
      /\ jobs' = jobs => jobs'[d].status = jobs[d].status
      /\ files' = files => files'[d] = files[d]
  OBVIOUS
\* A step to a pc where nothing more is known than at the last one.
<1>k. ASSUME ~SendUploadMessage(d), uploads'[d].pc # "rejected",
             uploads'[d].pc \in {"off", "find", "put", "undoDoc"} => files'[d] = NoContent,
             uploads'[d].pc = "failJob" => docs'[d].status \in {"failed", "deleted"},
             docs'[d].status \in {docs[d].status, "queued"},
             jobs'[d].status \in {jobs[d].status, "queued"}
      PROVE  WithheldUpload(d)' /\ RejectedUpload(d)'
  <2>1. RejectedUpload(d)'
    BY <1>k DEF RejectedUpload
  <2>2. /\ docs'[d].status \in {"absent", "queued", "failed", "deleted"}
        /\ jobs'[d].status \in {"absent", "queued", "deleted"}
        /\ docs'[d].status = "deleted" => d \in Deletable
    BY <1>h, <1>k
  <2> QED BY <1>k, <1>u, <2>1, <2>2 DEF WithheldUpload
\* A step that rejects the upload.
<1>r. ASSUME uploads'[d].pc = "rejected",
             \/ d \in abandoned'
             \/ /\ docs'[d].status \in {"absent", "failed", "deleted"}
                /\ jobs'[d].status \in {"absent", "failed", "deleted"}
                /\ Exists(docs'[d]) => Exists(jobs'[d]) \/ d \in Deletable
                /\ Exists(docs'[d]) \/ d \in Deletable \/ files'[d] = NoContent
      PROVE  WithheldUpload(d)' /\ RejectedUpload(d)'
  <2>1. WithheldUpload(d)'
    BY <1>r DEF WithheldUpload, Withheld
  <2>2. CASE d \in abandoned'
    BY <2>1, <2>2 DEF RejectedUpload
  <2>3. CASE d \notin abandoned'
    BY <1>q, <1>r, <1>u, <2>1, <2>3 DEF RejectedUpload, Exists
  <2> QED BY <2>2, <2>3
\* A step after which the message is on its way, or nobody answers any more.
<1>e. uploads'[d].pc \in {"accepted", "crashed"} => WithheldUpload(d)' /\ RejectedUpload(d)'
  BY DEF WithheldUpload, RejectedUpload, Withheld
<1>1. ASSUME NEW c \in Contents, StartUpload(d, c) PROVE WithheldUpload(d)' /\ RejectedUpload(d)'
  <2>1. uploads'[d].pc = "find"
    BY <1>1, <1>y, StartTurns
  <2>2. uploads[d].pc = "off" /\ docs' = docs /\ jobs' = jobs /\ files' = files
    BY <1>1 DEF StartUpload
  <2>3. ~SendUploadMessage(d)
    BY <2>2 DEF SendUploadMessage
  <2> QED BY <1>0, <1>h, <1>k, <2>1, <2>2, <2>3
<1>2. ASSUME FindPredecessor(d) PROVE WithheldUpload(d)' /\ RejectedUpload(d)'
  <2>1. uploads'[d].pc = "put"
    BY <1>2, <1>y, FindTurns
  <2>2. uploads[d].pc = "find" /\ docs' = docs /\ jobs' = jobs /\ files' = files
    BY <1>2 DEF FindPredecessor
  <2>3. ~SendUploadMessage(d)
    BY <2>2 DEF SendUploadMessage
  <2> QED BY <1>0, <1>h, <1>k, <2>1, <2>2, <2>3
<1>3. ASSUME PutFile(d) PROVE WithheldUpload(d)' /\ RejectedUpload(d)'
  <2>1. uploads'[d].pc = "insertDoc" /\ docs' = docs /\ jobs' = jobs /\ uploads[d].pc = "put"
    BY <1>3, <1>g DEF PutFile
  <2>2. ~SendUploadMessage(d)
    BY <2>1 DEF SendUploadMessage
  <2> QED BY <1>0, <1>k, <2>1, <2>2
<1>4. ASSUME InsertDocument(d) PROVE WithheldUpload(d)' /\ RejectedUpload(d)'
  <2>1. uploads'[d].pc = "insertJob" /\ jobs' = jobs /\ uploads[d].pc = "insertDoc"
    BY <1>4, <1>g DEF InsertDocument
  <2>2. docs'[d].status = "queued"
    <3>1. docs \in [Docs -> Document]
      BY <1>y DEF TypeOK, StoreTypeOK
    <3> QED BY <1>4, <3>1 DEF InsertDocument
  <2>3. ~SendUploadMessage(d)
    BY <2>1 DEF SendUploadMessage
  <2> QED BY <1>0, <1>k, <2>1, <2>2, <2>3
<1>5. ASSUME InsertUploadJob(d) PROVE WithheldUpload(d)' /\ RejectedUpload(d)'
  <2>1. uploads'[d].pc = "send" /\ docs' = docs /\ uploads[d].pc = "insertJob"
    BY <1>5, <1>g DEF InsertUploadJob
  <2>2. jobs'[d].status \in {jobs[d].status, "queued"}
    <3>1. jobs \in [Jobs -> Job] /\ d \in Jobs
      BY <1>y, BoundsAssumption DEF TypeOK, StoreTypeOK, Docs, Jobs
    <3> QED BY <1>5, <3>1 DEF InsertUploadJob, InsertJob, NoJob
  <2>3. ~SendUploadMessage(d)
    BY <2>1 DEF SendUploadMessage
  <2> QED BY <1>0, <1>k, <2>1, <2>2, <2>3
<1>6. SendUploadMessage(d) \/ LoseUploadMessage(d) \/ UploadCrashes(d)
        => WithheldUpload(d)' /\ RejectedUpload(d)'
  BY <1>e, <1>g DEF SendUploadMessage, LoseUploadMessage, UploadCrashes
<1>7. ASSUME UndoFile(d) PROVE WithheldUpload(d)' /\ RejectedUpload(d)'
  <2>1. files'[d] = NoContent
    <3>1. files \in [Docs -> Contents \cup {NoContent}]
      BY <1>y DEF TypeOK, StoreTypeOK
    <3> QED BY <1>7, <3>1 DEF UndoFile
  <2>2. docs' = docs /\ jobs' = jobs
    BY <1>7 DEF UndoFile
  <2>3. CASE uploads[d].pc = "undoFile"
    <3>1. uploads'[d].pc = "rejected"
      BY <1>7, <1>g, <2>3 DEF UndoFile
    <3>2. docs[d].status = "absent" /\ jobs[d].status = "absent"
      BY <1>t, <2>3 DEF UploadStage, BeforeDoc, BeforeJob, Inserted, Known
    <3>3. docs'[d].status = "absent" /\ jobs'[d].status = "absent" /\ ~Exists(docs'[d])
      BY <1>0, <2>2, <3>2 DEF Exists
    <3> QED BY <1>r, <2>1, <3>1, <3>3
  <2>4. CASE uploads[d].pc = "undoJobFile"
    <3>1. uploads'[d].pc = "undoDoc" /\ ~SendUploadMessage(d)
      BY <1>7, <1>g, <2>4 DEF UndoFile, SendUploadMessage
    <3> QED BY <1>0, <1>k, <2>1, <2>2, <3>1
  <2> QED BY <1>7, <2>3, <2>4 DEF UndoFile
<1>8. ASSUME UndoDocument(d) PROVE WithheldUpload(d)' /\ RejectedUpload(d)'
  <2>1. /\ uploads[d].pc = "undoDoc" /\ uploads'[d].pc = "rejected"
        /\ docs' = SetDocStatus(d, "deleted") /\ jobs' = jobs /\ files' = files
    BY <1>8, <1>g DEF UndoDocument
  <2>2. docs \in [Docs -> Document]
    BY <1>y DEF TypeOK, StoreTypeOK
  <2>3. ~Exists(docs'[d]) /\ docs'[d].status \in {"absent", "deleted"}
    <3>1. DocStays(d) \/ DocBecomes(d, "deleted")
      BY <2>1, <2>2, SetDocStatusMoves
    <3>2. CASE Exists(docs[d])
      BY <2>1, <2>2, <3>2 DEF SetDocStatus, Document, Exists
    <3>3. CASE ~Exists(docs[d])
      BY <1>h, <2>1, <3>3 DEF SetDocStatus, Exists
    <3> QED BY <3>2, <3>3
  <2>4. jobs'[d].status = "absent"
    BY <1>t, <2>1 DEF UploadStage, BeforeJob, Known
  <2>5. files'[d] = NoContent
    BY <1>h, <2>1
  <2> QED BY <1>r, <2>1, <2>3, <2>4, <2>5
<1>9. ASSUME FailUploadedDocument(d) PROVE WithheldUpload(d)' /\ RejectedUpload(d)'
  <2>1. /\ uploads[d].pc = "failDoc" /\ uploads'[d].pc = "failJob"
        /\ docs' = SetDocStatus(d, "failed") /\ jobs' = jobs
    BY <1>9, <1>g DEF FailUploadedDocument
  <2>2. docs \in [Docs -> Document] /\ Inserted(d)
    BY <1>t, <1>y, <2>1 DEF TypeOK, StoreTypeOK, UploadStage, AfterDoc
  <2>3. \/ docs'[d].status = "failed"
        \/ docs'[d].status = "deleted" /\ docs[d].status = "deleted"
    <3>1. CASE Exists(docs[d])
      BY <2>1, <2>2, <3>1 DEF SetDocStatus, Document
    <3>2. CASE ~Exists(docs[d])
      BY <2>1, <2>2, <3>2 DEF SetDocStatus, Exists, Inserted
    <3> QED BY <3>1, <3>2
  <2>4. Unheard(d)' /\ ~Restarted(d)'
    BY <1>u, <2>1 DEF SendUploadMessage
  <2>5. jobs'[d].status \in {"absent", "queued", "deleted"}
    BY <1>h, <2>1
  <2>6. docs'[d].status \in {"failed", "deleted"} /\ (docs'[d].status = "deleted" => d \in Deletable)
    BY <1>h, <2>3
  <2> QED BY <2>1, <2>4, <2>5, <2>6 DEF WithheldUpload, RejectedUpload
<1>10. ASSUME FailUploadedJob(d) PROVE WithheldUpload(d)' /\ RejectedUpload(d)'
  <2>1. /\ uploads[d].pc = "failJob" /\ uploads'[d].pc = "rejected"
        /\ docs' = docs /\ jobs' = SetJobStatus(d, "failed")
    BY <1>10, <1>g DEF FailUploadedJob
  <2>2. jobs \in [Jobs -> Job] /\ d \in Jobs /\ Known(d)
    BY <1>t, <1>y, <2>1, BoundsAssumption DEF TypeOK, StoreTypeOK, UploadStage, AfterJob, Docs, Jobs
  <2>3. \/ jobs'[d].status = "failed"
        \/ jobs'[d].status = "deleted" /\ jobs[d].status = "deleted"
    <3>1. CASE Exists(jobs[d])
      BY <2>1, <2>2, <3>1 DEF SetJobStatus, Job
    <3>2. CASE ~Exists(jobs[d])
      BY <2>1, <2>2, <3>2 DEF SetJobStatus, Exists, Known
    <3> QED BY <3>1, <3>2
  <2>4. docs'[d].status \in {"failed", "deleted"}
    BY <1>h, <2>1
  <2>5. docs'[d].status = "deleted" => d \in Deletable
    BY <1>h, <2>1
  <2>6. Exists(jobs'[d]) \/ d \in Deletable
    BY <1>h, <2>3 DEF Exists
  <2>7. Exists(docs'[d]) \/ d \in Deletable
    BY <2>4, <2>5 DEF Exists
  <2> QED BY <1>r, <2>1, <2>3, <2>4, <2>6, <2>7
<1>11. ASSUME UploadCallRaises(d) PROVE WithheldUpload(d)' /\ RejectedUpload(d)'
  <2>1. /\ uploads'[d].pc = AfterUploadError(uploads[d].pc)
        /\ docs' = docs /\ jobs' = jobs /\ files' = files
        /\ uploads[d].pc \in UploadActive
        /\ uploads[d].pc \in Compensating => d \in abandoned'
    BY <1>11, <1>g DEF UploadCallRaises
  <2>2. ~SendUploadMessage(d)
    BY <1>g, <2>1 DEF SendUploadMessage, AfterUploadError
  <2>3. CASE uploads[d].pc \in {"insertDoc", "insertJob", "send"}
    <3>1. uploads'[d].pc \in {"undoFile", "undoJobFile", "failDoc"}
      BY <2>1, <2>3 DEF AfterUploadError
    <3> QED BY <1>0, <1>k, <2>1, <2>2, <3>1
  <2>4. CASE uploads[d].pc \in {"find", "put"}
    <3>1. uploads'[d].pc = "rejected"
      BY <2>1, <2>4 DEF AfterUploadError
    <3>2. docs[d].status = "absent" /\ jobs[d].status = "absent" /\ files[d] = NoContent
      BY <1>h, <1>t, <2>4 DEF UploadStage, BeforeDoc, BeforeJob, Inserted, Known
    <3>3. /\ docs'[d].status = "absent" /\ jobs'[d].status = "absent" /\ files'[d] = NoContent
          /\ ~Exists(docs'[d])
      BY <1>0, <2>1, <3>2 DEF Exists
    <3> QED BY <1>r, <3>1, <3>3
  <2>5. CASE uploads[d].pc \in Compensating
    <3>1. uploads'[d].pc = "rejected"
      BY <2>1, <2>5 DEF AfterUploadError, Compensating
    <3> QED BY <1>r, <2>1, <2>5, <3>1
  <2> QED BY <2>1, <2>3, <2>4, <2>5 DEF UploadActive, UploadState, Compensating
<1> QED BY <1>1, <1>2, <1>3, <1>4, <1>5, <1>6, <1>7, <1>8, <1>9, <1>10, <1>11
        DEF Uploading, UploadProceeds

\* Every step keeps it.
LEMMA RejectingStays ==
    ASSUME IInv, Registered, ~AmbiguousSend, [Next]_vars, NEW d \in Docs, Rejecting(d)
    PROVE  Rejecting(d)'
<1>y. TypeOK
  BY DEF IInv
<1>1. jobs'[d].status = "deleted" => d \in Deletable
  BY DeletedOnRequest DEF Rejecting
<1>2. CASE uploads'[d] = uploads[d]
  BY <1>1, <1>2, WithheldElsewhere, RejectedElsewhere DEF Rejecting
<1>3. CASE uploads'[d] # uploads[d]
  <2>1. uploads' # uploads
    BY <1>3
  <2>2. PICK e \in Docs : Uploading(e)
    BY <2>1 DEF Next, vars, UploadStep, Uploading
  <2>3. e = d
    BY <1>3, <1>y, <2>2, UploadEffects
  <2>4. worker' = worker
    BY <2>1 DEF Next, vars
  <2> QED BY <1>1, <2>2, <2>3, <2>4, RejectingOnward DEF Rejecting
<1> QED BY <1>2, <1>3

\* At first nothing was uploaded.
LEMMA RejectingInitially == Init => \A d \in Docs : Rejecting(d)
<1> SUFFICES ASSUME Init, NEW d \in Docs PROVE Rejecting(d)
  OBVIOUS
<1> USE DEF Init, StoreInit, UploadInit, WorkerInit, AdminInit, SweepInit
<1>1. docs[d].status = "absent" /\ jobs[d].status = "absent" /\ files[d] = NoContent
      /\ uploads[d].pc = "off"
  <2>1. d \in Jobs
    BY BoundsAssumption DEF Docs, Jobs
  <2> QED BY <2>1 DEF NoDocument, NoJob
<1>2. ~Restarted(d)
  BY DEF Restarted, Renewed, Known, NoReindex, NoJob
<1>3. Unheard(d)
  <2>1. \A s \in Sweeps : sweeps[s].todo = {} /\ sweeps[s].current = None
    OBVIOUS
  <2>2. d # None
    BY DEF Docs, None
  <2>3. \A w \in Workers : worker[w].pc = "idle"
    BY DEF Idle
  <2>4. \A m \in Messages : broker[m].state = "unsent"
    OBVIOUS
  <2> QED BY <2>1, <2>2, <2>3, <2>4 DEF Unheard
<1> QED BY <1>1, <1>2, <1>3 DEF Rejecting, WithheldUpload, RejectedUpload

\* An upload that answers with an error leaves nothing behind that looks alive, whatever fails
\* and whoever else is at work, as long as a send that raises has sent nothing.
THEOREM RejectionLeavesNothing ==
    AmbiguousSend = FALSE => (Spec => []RejectedUploadLeavesNothing)
<1> SUFFICES ASSUME AmbiguousSend = FALSE PROVE Spec => []RejectedUploadLeavesNothing
  OBVIOUS
<1> DEFINE Inv == IInv /\ Registered /\ \A d \in Docs : Rejecting(d)
<1>1. Init => Inv
  BY InitialInvariant, RegisteredInitially, RejectingInitially
<1>2. Inv /\ [Next]_vars => Inv'
  <2> SUFFICES ASSUME Inv, [Next]_vars PROVE Inv'
    OBVIOUS
  <2>1. IInv' /\ Registered'
    BY InvariantPreserved, RegisteredPreserved
  <2>2. \A d \in Docs : Rejecting(d)'
    BY RejectingStays
  <2> QED BY <2>1, <2>2
<1>3. Inv => RejectedUploadLeavesNothing
  BY DEF Rejecting, RejectedUpload, RejectedUploadLeavesNothing
<1> QED BY <1>1, <1>2, <1>3, PTL DEF Spec

-----------------------------------------------------------------------------
(* Ready documents can be found. *)

\* Its steps leave the content of an upload once it has started.
LEMMA UploadsGoOn ==
    ASSUME TypeOK, NEW d \in Docs, Uploading(d)
    PROVE  \/ \E c \in Contents : StartUpload(d, c)
           \/ /\ uploads[d].pc # "off" /\ uploads'[d].pc # "off"
              /\ uploads'[d].content = uploads[d].content
              /\ FindPredecessor(d) \/ uploads'[d].version = uploads[d].version
<1>y. UploadTypeOK
  BY DEF TypeOK
<1>1. \A pc \in UploadState \ {"off"} :
         Goto(d, pc) => /\ uploads'[d].pc # "off"
                        /\ uploads'[d].content = uploads[d].content
                        /\ uploads'[d].version = uploads[d].version
  BY <1>y, GotoTurns DEF UploadTurn
<1>2. FindPredecessor(d) => /\ uploads[d].pc # "off" /\ uploads'[d].pc # "off"
                            /\ uploads'[d].content = uploads[d].content
  BY FindTurns DEF FindPredecessor
<1>3. PutFile(d) \/ InsertDocument(d) \/ InsertUploadJob(d) \/ SendUploadMessage(d)
      \/ LoseUploadMessage(d) \/ UndoFile(d) \/ UndoDocument(d) \/ FailUploadedDocument(d)
      \/ FailUploadedJob(d) \/ UploadCrashes(d)
        => uploads[d].pc # "off" /\ \E pc \in UploadState \ {"off"} : Goto(d, pc)
  BY DEF PutFile, InsertDocument, InsertUploadJob, SendUploadMessage, LoseUploadMessage, UndoFile,
         UndoDocument, FailUploadedDocument, FailUploadedJob, UploadCrashes, UploadActive, UploadState
<1>4. UploadCallRaises(d) => uploads[d].pc # "off" /\ \E pc \in UploadState \ {"off"} : Goto(d, pc)
  <2>1. AfterUploadError(uploads[d].pc) \in UploadState \ {"off"}
    BY DEF AfterUploadError, UploadState
  <2> QED BY <2>1 DEF UploadCallRaises, UploadActive
<1> QED BY <1>1, <1>2, <1>3, <1>4 DEF Uploading, UploadProceeds

\* Every step: whose content, and whose version, it may set.
LEMMA ContentsStay ==
    ASSUME TypeOK, Registered, [Next]_vars, NEW d \in Docs
    PROVE  /\ \/ \E c \in Contents : StartUpload(d, c)
              \/ /\ uploads'[d].content = uploads[d].content
                 /\ uploads'[d].pc = "off" <=> uploads[d].pc = "off"
           /\ uploads'[d].version = uploads[d].version \/ FindPredecessor(d)
<1>1. CASE uploads'[d] = uploads[d]
  BY <1>1
<1>2. CASE uploads'[d] # uploads[d]
  <2>1. uploads' # uploads
    BY <1>2
  <2>2. PICK e \in Docs : Uploading(e)
    BY <2>1 DEF Next, vars, UploadStep, Uploading
  <2>3. e = d
    BY <1>2, <2>2, UploadEffects
  <2>4. \A c \in Contents : StartUpload(d, c) => uploads'[d].version = uploads[d].version
    BY StartTurns DEF TypeOK
  <2> QED BY <2>2, <2>3, <2>4, UploadsGoOn
<1> QED BY <1>1, <1>2

-----------------------------------------------------------------------------

OneReindexer == \A r, s \in Reindexers : r = s

Chunks(d) == ChunksOf[uploads[d].content]

\* No two uploads bring the same content, and none replaces another.
DistinctUploads ==
    /\ \A d, e \in Docs :
          d # e /\ uploads[d].pc # "off" /\ uploads[e].pc # "off"
            => uploads[d].content # uploads[e].content
    /\ \A d \in Docs : uploads[d].version <= 1
    /\ \A d \in Docs : files[d] \in {NoContent, uploads[d].content}
    /\ \A d \in Docs : uploads[d].pc = "off" => files[d] = NoContent

NothingReplaced == \A w \in Workers : worker[w].pc \notin {"deletePred", "archive", "rollback"}

\* A reindex request creates its jobs after it has wiped the namespace.
WipedFirst ==
    \A r \in Reindexers : reindex[r].pc \in {"off", "wipe", "find"} => NoReindexJobs

\* The jobs whose chunks no wipe can take away any more.
Tracked(j) == Reindexers = {} \/ j \notin Docs

FoundByWorker(w) ==
    worker[w].pc # "idle" /\ Tracked(JobOf(w)) =>
      /\ worker[w].pc = "upsert" => Chunks(DocOf(w)) \subseteq SearchableHashes \cup worker[w].fresh
      /\ worker[w].pc \in {"findPred", "readyJob", "readyDoc"} => Chunks(DocOf(w)) \subseteq SearchableHashes

FoundWhenReady(d) ==
    docs[d].status = "ready" /\ Tracked(docs[d].job_id) => Chunks(d) \subseteq SearchableHashes

SearchInvariant ==
    /\ DistinctUploads /\ NothingReplaced /\ WipedFirst
    /\ \A w \in Workers : FoundByWorker(w)
    /\ \A d \in Docs : FoundWhenReady(d)

\* With distinct contents an upload finds no predecessor.
LEMMA DistinctUploadsStay ==
    ASSUME IInv, Registered, DistinctContents, DistinctUploads, [Next]_vars
    PROVE  DistinctUploads'
<1>y. TypeOK /\ UploadTypeOK /\ \A d \in Docs : files[d] \in Contents \cup {NoContent}
  BY DEF IInv, TypeOK, StoreTypeOK
<1>c. \A d \in Docs : \/ \E c \in Contents : StartUpload(d, c)
                      \/ /\ uploads'[d].content = uploads[d].content
                         /\ uploads'[d].pc = "off" <=> uploads[d].pc = "off"
  BY <1>y, ContentsStay
<1>n. ASSUME NEW d \in Docs, NEW c \in Contents, StartUpload(d, c)
      PROVE  /\ \A e \in Docs : uploads[e].content # c
             /\ \A e \in Docs \ {d} : uploads'[e] = uploads[e]
             /\ uploads'[d].content = c /\ uploads'[d].pc = "find" /\ uploads[d].pc = "off"
             /\ files' = files
  BY <1>n, <1>y, StartTurns DEF StartUpload
<1>1. ASSUME NEW d \in Docs, NEW e \in Docs, d # e, uploads'[d].pc # "off", uploads'[e].pc # "off",
             uploads'[d].content = uploads'[e].content
      PROVE  FALSE
  <2>1. CASE \E c \in Contents : StartUpload(d, c)
    BY <1>1, <1>n, <2>1
  <2>2. CASE \E c \in Contents : StartUpload(e, c)
    BY <1>1, <1>n, <2>2
  <2>3. CASE /\ ~\E c \in Contents : StartUpload(d, c)
             /\ ~\E c \in Contents : StartUpload(e, c)
    BY <1>1, <1>c, <2>3 DEF DistinctUploads
  <2> QED BY <2>1, <2>2, <2>3
<1>2. ASSUME NEW d \in Docs PROVE uploads'[d].version <= 1
  <2>1. CASE uploads'[d].version = uploads[d].version
    BY <2>1 DEF DistinctUploads
  <2>2. CASE FindPredecessor(d)
    <3>1. uploads[d].pc = "find" /\ ~Inserted(d)
      BY <2>2 DEF FindPredecessor, Registered, UploadStage, BeforeDoc
    <3>2. ASSUME NEW p \in Predecessors(uploads[d].content) PROVE FALSE
      <4>1. p \in Docs /\ docs[p].content_hash = uploads[d].content /\ Inserted(p)
        BY DEF Predecessors, Inserted
      <4>2. uploads[p].content = uploads[d].content /\ uploads[p].pc # "off"
        BY <4>1 DEF Registered, RecordOf, UploadStage, BeforeDoc
      <4> QED BY <3>1, <4>1, <4>2 DEF DistinctUploads
    <3>3. uploads'[d].version = 1
      BY <1>y, <2>2, <3>2, FindTurns
    <3> QED BY <3>3
  <2> QED BY <1>y, <2>1, <2>2, ContentsStay
<1>3. ASSUME NEW d \in Docs
      PROVE  /\ files'[d] \in {NoContent, uploads'[d].content}
             /\ uploads'[d].pc = "off" => files'[d] = NoContent
  <2>1. CASE \E c \in Contents : StartUpload(d, c)
    <3>1. files[d] = NoContent /\ files'[d] = files[d] /\ uploads'[d].pc # "off"
      BY <1>n, <2>1 DEF DistinctUploads
    <3> QED BY <3>1
  <2>2. CASE ~\E c \in Contents : StartUpload(d, c)
    <3>1. /\ uploads'[d].content = uploads[d].content
          /\ uploads'[d].pc = "off" <=> uploads[d].pc = "off"
      BY <1>c, <2>2
    <3>2. files'[d] = files[d] \/ PutFile(d) \/ UndoFile(d)
      BY <1>y, FilesAndHistory
    <3>3. files \in [Docs -> Contents \cup {NoContent}]
      BY <1>y DEF TypeOK, StoreTypeOK
    <3>4. PutFile(d) => files'[d] = uploads[d].content /\ uploads[d].pc # "off"
      BY <3>3 DEF PutFile
    <3>5. UndoFile(d) => files'[d] = NoContent
      BY <3>3 DEF UndoFile
    <3> QED BY <3>1, <3>2, <3>4, <3>5 DEF DistinctUploads
  <2> QED BY <2>1, <2>2
<1> QED BY <1>1, <1>2, <1>3 DEF DistinctUploads

\* A worker whose document replaces none never gets to the steps that replace one.
LEMMA NothingReplacedStays ==
    ASSUME IInv, Registered, ChainInvariant, DistinctUploads, NothingReplaced, [Next]_vars
    PROVE  NothingReplaced'
<1>y. TypeOK
  BY DEF IInv
<1> DEFINE Replacing == {"deletePred", "archive", "rollback"}
<1> SUFFICES ASSUME NEW w \in Workers, worker'[w].pc \in Replacing PROVE FALSE
  BY DEF NothingReplaced
<1>1. worker[w].pc \notin Replacing
  BY DEF NothingReplaced
<1>2. PICK v \in Workers : WorkerProceeds(v) \/ WorkerFails(v)
  <2>1. worker' # worker
    BY <1>1
  <2> QED BY <2>1 DEF Next, vars, WorkerStep
<1>3. v = w
  <2>1. Alone(v)
    BY <1>2, <1>y, AloneTurns
  <2> QED BY <1>1, <2>1 DEF Alone
<1>4. ~DeletePredecessorVectors(w) /\ ~RollbackVectors(w) /\ ~ArchivePredecessor(w)
      /\ ~PredecessorDeletionRaises(w)
  BY <1>1 DEF DeletePredecessorVectors, RollbackVectors, ArchivePredecessor, PredecessorDeletionRaises, At
<1>5. ~Ended(w) /\ ~Failing(w) /\ ~Loading(w)
  BY DEF Ended, Failing, Loading
<1>6. /\ ~Turn(w, "markDoc") /\ ~Turn(w, "load") /\ ~Turn(w, "ack") /\ ~Turn(w, "readyJob")
      /\ ~Turn(w, "readyDoc") /\ ~Turn(w, "failDoc") /\ ~Turn(w, "giveUpDoc")
      /\ ~Turn(w, "giveUpJob") /\ ~Turn(w, "drop")
  BY DEF Turn
<1>7. \A f : ~Freshening(w, "upsert", f) /\ ~Freshening(w, "findPred", f)
  BY DEF Freshening
<1>8. \A m \in Messages : ~Receive(w, m)
  BY <1>y, ReceptionTurns
<1>9. FindPredecessorToArchive(w)
  <2>1. ~Claim(w) /\ ~SkipClaimed(w) /\ ~MarkDocumentProcessing(w) /\ ~LoadDocument(w)
    BY <1>5, <1>6, <1>y, WorkerTurns
  <2>2. ~Deduplicate(w) /\ ~Upsert(w) /\ ~ReadyJob(w) /\ ~ReadyDoc(w)
    BY <1>5, <1>6, <1>7, <1>y, WorkerTurns
  <2>3. ~FailJob(w) /\ ~FailDoc(w) /\ ~Ack(w) /\ ~GiveUpDoc(w) /\ ~GiveUpJob(w) /\ ~Drop(w)
    BY <1>5, <1>6, <1>y, WorkerTurns
  <2>4. ~GuardedCallRaises(w) /\ ~UnguardedCallRaises(w) /\ ~GiveUpRaises(w) /\ ~WorkerCrashes(w)
    BY <1>5, <1>6, <1>y, WorkerTurns
  <2> QED BY <1>2, <1>3, <1>4, <1>8, <2>1, <2>2, <2>3, <2>4 DEF WorkerProceeds, WorkerFails
<1>10. PICK p \in Superseded(w) : Choosing(w, p)
  BY <1>5, <1>6, <1>9, <1>y, WorkerTurns
<1>11. worker[w].pc = "findPred" /\ worker[w].version > 1 /\ worker'[w].msg = worker[w].msg
  BY <1>9, <1>10 DEF FindPredecessorToArchive, At, Superseded, Choosing, KeepsMessage
<1>12. worker[w].version = docs[DocOf(w)].version
  BY <1>11 DEF ChainInvariant, Loaded, LoadedVersion
<1>13. DocOf(w) \in Docs /\ Inserted(DocOf(w))
  BY <1>11, <1>y, RegisteredPreserved, DocumentStays
<1>14. uploads[DocOf(w)].version > 1
  BY <1>11, <1>12, <1>13 DEF Registered, RecordOf
<1>15. uploads[DocOf(w)].version \in Nat
  BY <1>13, <1>y DEF TypeOK, UploadTypeOK, Upload
<1> QED BY <1>13, <1>14, <1>15 DEF DistinctUploads

\* With one request there are no jobs of reindexing before it inserts the first.
LEMMA WipedFirstStays ==
    ASSUME IInv, Registered, OneReindexer, WipedFirst, [Next]_vars
    PROVE  WipedFirst'
<1>y. TypeOK
  BY DEF IInv
<1> SUFFICES ASSUME NEW r \in Reindexers, reindex'[r].pc \in {"off", "wipe", "find"}
             PROVE  NoReindexJobs'
  BY DEF WipedFirst
<1>1. reindex[r].pc \in {"off", "wipe", "find"} /\ \A s \in Reindexers : ~InsertReindexJob(s)
  <2>1. CASE reindex'[r] = reindex[r]
    <3>1. \A s \in Reindexers : InsertReindexJob(s) => reindex[s].pc = "insertJob"
      BY DEF InsertReindexJob, ReindexAt
    <3> QED BY <2>1, <3>1 DEF OneReindexer
  <2>2. CASE reindex'[r] # reindex[r]
    <3>1. reindex' # reindex
      BY <2>2
    <3>2. ReindexStep
      <4>1. DeletionStep => reindex' = reindex
        BY DEF DeletionStep, StartDeletion, DeleteVectors, DeleteJobs, DeleteDocument, DeletionFails
      <4> QED BY <3>1, <4>1 DEF Next, vars
    <3>3. \/ StartReindex(r) \/ WipeNamespace(r) \/ FindReady(r) \/ InsertReindexJob(r)
          \/ PointDocument(r) \/ SendReindexMessage(r) \/ FinishReindex(r)
          \/ ReindexSendRaises(r) \/ FailReindexDocument(r) \/ FailReindexJob(r)
          \/ ReindexFails(r)
      BY <3>2 DEF ReindexStep, OneReindexer
    <3>4. StartReindex(r) \/ WipeNamespace(r)
      <4>1. FindReady(r) \/ PointDocument(r) => \E t : reindex'[r].pc = NextStep(t)
        BY <1>y, RequestTurns DEF Request
      <4>2. \A t : NextStep(t) \notin {"off", "wipe", "find"}
        BY DEF NextStep
      <4>3. ~FindReady(r) /\ ~InsertReindexJob(r) /\ ~PointDocument(r)
        <5>1. InsertReindexJob(r) => reindex'[r].pc = "pointDoc"
          BY <1>y, RequestTurns DEF Request
        <5> QED BY <4>1, <4>2, <5>1
      <4>4. ~SendReindexMessage(r) /\ ~FinishReindex(r) /\ ~ReindexSendRaises(r)
            /\ ~FailReindexDocument(r) /\ ~FailReindexJob(r) /\ ~ReindexFails(r)
        <5>1. SendReindexMessage(r) => reindex'[r].pc = "send"
          BY <1>y, RequestTurns DEF Request
        <5>2. FinishReindex(r) => reindex'[r].pc = "done"
          BY <1>y, RequestTurns DEF Request
        <5>3. ReindexSendRaises(r) \/ FailReindexDocument(r)
                => reindex'[r].pc \in {"failDoc", "failJob"}
          BY <1>y, RequestTurns DEF Request
        <5>4. FailReindexJob(r) => reindex'[r].pc \in {"aborted", "failDoc"}
          BY <1>y, RequestTurns DEF Request
        <5>5. ReindexFails(r) => reindex'[r].pc = "aborted"
          BY <1>y, RequestTurns DEF Request
        <5> QED BY <5>1, <5>2, <5>3, <5>4, <5>5
      <4> QED BY <3>3, <4>3, <4>4
    <3>5. reindex[r].pc \in {"off", "wipe"}
      BY <3>4 DEF StartReindex, WipeNamespace, ReindexAt
    <3>6. \A s \in Reindexers : InsertReindexJob(s) => reindex[s].pc = "insertJob"
      BY DEF InsertReindexJob, ReindexAt
    <3> QED BY <3>5, <3>6 DEF OneReindexer
  <2> QED BY <2>1, <2>2
<1>2. NoReindexJobs
  BY <1>1 DEF WipedFirst
<1>3. \A j \in Jobs \ Docs : ~Known(j) => ~Known(j)'
  BY <1>1, ReindexingCreates
<1> QED BY <1>2, <1>3 DEF NoReindexJobs

\* With nothing to replace or delete only the wipe of a reindex request takes chunks away.
LEMMA ChunksStay ==
    ASSUME TypeOK, NothingReplaced, Deletable = {}, [Next]_vars
    PROVE  vectors \subseteq vectors' \/ \E r \in Reindexers : WipeNamespace(r)
<1> DEFINE Goal == vectors \subseteq vectors' \/ \E r \in Reindexers : WipeNamespace(r)
<1>1. CASE UploadStep
  BY <1>1 DEF UploadStep, UploadProceeds, StartUpload, FindPredecessor, PutFile, InsertDocument,
     InsertUploadJob, SendUploadMessage, LoseUploadMessage, UndoFile, UndoDocument,
     FailUploadedDocument, FailUploadedJob, UploadCallRaises, UploadCrashes
<1>2. CASE BrokerStep
  BY <1>2, BrokerSilent
<1>3. CASE WorkerStep
  <2>1. PICK w \in Workers : WorkerProceeds(w) \/ WorkerFails(w)
    BY <1>3 DEF WorkerStep
  <2>2. Upsert(w) => vectors \subseteq vectors'
    BY DEF Upsert
  <2>3. ~DeletePredecessorVectors(w) /\ ~RollbackVectors(w)
    BY DEF DeletePredecessorVectors, RollbackVectors, NothingReplaced, At
  <2>4. \/ \E m \in Messages : Receive(w, m)
        \/ Claim(w) \/ SkipClaimed(w) \/ MarkDocumentProcessing(w) \/ LoadDocument(w)
        \/ Deduplicate(w) \/ FindPredecessorToArchive(w) \/ ArchivePredecessor(w)
        \/ ReadyJob(w) \/ ReadyDoc(w) \/ FailJob(w) \/ FailDoc(w)
        \/ Ack(w) \/ GiveUpDoc(w) \/ GiveUpJob(w) \/ Drop(w)
        => vectors' = vectors
    BY DEF Receive, Claim, SkipClaimed, MarkDocumentProcessing, LoadDocument, Deduplicate,
           FindPredecessorToArchive, ArchivePredecessor, ReadyJob, ReadyDoc, FailJob, FailDoc,
           Ack, GiveUpDoc, GiveUpJob, Drop
  <2>5. WorkerFails(w) => vectors' = vectors
    BY DEF WorkerFails, PredecessorDeletionRaises, GuardedCallRaises, UnguardedCallRaises,
           GiveUpRaises, WorkerCrashes
  <2> QED BY <2>1, <2>2, <2>3, <2>4, <2>5 DEF WorkerProceeds
<1>4. ~DeletionStep
  BY DEF DeletionStep
<1>5. CASE ReindexStep
  BY <1>5 DEF ReindexStep, StartReindex, FindReady, InsertReindexJob, PointDocument,
     SendReindexMessage, FinishReindex, ReindexSendRaises, FailReindexDocument, FailReindexJob,
     ReindexFails
<1>6. CASE SweepStep
  BY <1>6 DEF SweepStep, ReadFailedJobs, SweepProceeds, FindSweptDocument, SendSweptMessage,
     CountRetry, FinishSweep, SweepFails
<1>7. CASE UNCHANGED vars
  BY <1>7 DEF vars
<1> QED BY <1>1, <1>2, <1>3, <1>4, <1>5, <1>6, <1>7 DEF Next

\* A job that is there is not tracked while a request may still wipe the namespace.
LEMMA TrackedOutliveWipes ==
    ASSUME TypeOK, Registered, WipedFirst, NothingReplaced, Deletable = {}, [Next]_vars,
           NEW j \in Jobs, Known(j), Tracked(j)
    PROVE  vectors \subseteq vectors' /\ SearchableHashes \subseteq SearchableHashes'
<1>1. ASSUME NEW r \in Reindexers, WipeNamespace(r) PROVE FALSE
  <2>1. reindex[r].pc = "wipe"
    BY <1>1 DEF WipeNamespace, ReindexAt
  <2>2. NoReindexJobs
    BY <2>1 DEF WipedFirst
  <2> QED BY <1>1, <2>2 DEF NoReindexJobs, Tracked
<1>2. vectors \subseteq vectors'
  BY <1>1, ChunksStay
<1> QED BY <1>2 DEF SearchableHashes

\* The chunks of a document that was inserted stay the same.
LEMMA ChunksKept ==
    ASSUME TypeOK, Registered, [Next]_vars, NEW d \in Docs, Inserted(d)
    PROVE  uploads[d].pc # "off" /\ Chunks(d)' = Chunks(d)
<1>1. uploads[d].pc # "off"
  BY DEF Registered, UploadStage, BeforeDoc
<1>2. \A c \in Contents : ~StartUpload(d, c)
  BY <1>1 DEF StartUpload
<1>3. uploads'[d].content = uploads[d].content
  BY <1>2, ContentsStay
<1> QED BY <1>1, <1>3 DEF Chunks

\* The steps that may make a worker find the chunks of its document, and what they leave.
LEMMA FinderTurns ==
    ASSUME TypeOK, NothingReplaced, NEW w \in Workers, WorkerProceeds(w) \/ WorkerFails(w),
           worker'[w].pc \in {"upsert", "findPred", "readyJob", "readyDoc"}
    PROVE  /\ worker[w].pc # "idle" /\ worker'[w].msg = worker[w].msg
           /\ \/ /\ Deduplicate(w) /\ worker'[w].pc = "upsert"
                 /\ files[DocOf(w)] # NoContent
                 /\ worker'[w].fresh = ChunksOf[files[DocOf(w)]] \ SearchableHashes
              \/ Upsert(w) /\ worker'[w].pc = "findPred"
              \/ worker[w].pc \in {"findPred", "readyJob"} /\ worker'[w].pc \in {"readyJob", "readyDoc"}
<1> DEFINE Goal ==
      /\ worker[w].pc # "idle" /\ worker'[w].msg = worker[w].msg
      /\ \/ /\ Deduplicate(w) /\ worker'[w].pc = "upsert"
            /\ files[DocOf(w)] # NoContent
            /\ worker'[w].fresh = ChunksOf[files[DocOf(w)]] \ SearchableHashes
         \/ Upsert(w) /\ worker'[w].pc = "findPred"
         \/ worker[w].pc \in {"findPred", "readyJob"} /\ worker'[w].pc \in {"readyJob", "readyDoc"}
<1>1. ~Ended(w) /\ ~Failing(w) /\ ~Loading(w) /\ \A p : ~Choosing(w, p)
  BY DEF Ended, Failing, Loading, Choosing
<1>2. /\ ~Turn(w, "markDoc") /\ ~Turn(w, "load") /\ ~Turn(w, "ack") /\ ~Turn(w, "archive")
      /\ ~Turn(w, "failDoc") /\ ~Turn(w, "giveUpDoc") /\ ~Turn(w, "rollback")
      /\ ~Turn(w, "giveUpJob") /\ ~Turn(w, "drop")
  BY DEF Turn
<1>3. \A m \in Messages : ~Receive(w, m)
  BY ReceptionTurns
<1>4. ~Claim(w) /\ ~SkipClaimed(w) /\ ~MarkDocumentProcessing(w) /\ ~LoadDocument(w)
  BY <1>1, <1>2, WorkerTurns
<1>5. ~DeletePredecessorVectors(w) /\ ~RollbackVectors(w) /\ ~ArchivePredecessor(w)
      /\ ~PredecessorDeletionRaises(w)
  BY DEF DeletePredecessorVectors, RollbackVectors, ArchivePredecessor, PredecessorDeletionRaises,
         At, NothingReplaced
<1>6. ~FailJob(w) /\ ~FailDoc(w) /\ ~Ack(w) /\ ~GiveUpDoc(w) /\ ~GiveUpJob(w) /\ ~Drop(w)
      /\ ~ReadyDoc(w)
  BY <1>1, <1>2, WorkerTurns
<1>7. ~GuardedCallRaises(w) /\ ~UnguardedCallRaises(w) /\ ~GiveUpRaises(w) /\ ~WorkerCrashes(w)
  BY <1>1, <1>2, WorkerTurns
<1>8. ASSUME Deduplicate(w) PROVE Goal
  <2>1. /\ files[DocOf(w)] # NoContent
        /\ Freshening(w, "upsert", ChunksOf[files[DocOf(w)]] \ SearchableHashes)
    BY <1>1, <1>8, WorkerTurns
  <2>2. worker[w].pc = "dedup"
    BY <1>8 DEF Deduplicate, At
  <2> QED BY <1>8, <2>1, <2>2 DEF Freshening, KeepsMessage
<1>9. ASSUME Upsert(w) PROVE Goal
  <2>1. Freshening(w, "findPred", {})
    BY <1>9, WorkerTurns
  <2>2. worker[w].pc = "upsert"
    BY <1>9 DEF Upsert, At
  <2> QED BY <1>9, <2>1, <2>2 DEF Freshening, KeepsMessage
<1>10. ASSUME FindPredecessorToArchive(w) PROVE Goal
  <2>1. Turn(w, "readyJob")
    BY <1>1, <1>10, WorkerTurns
  <2>2. worker[w].pc = "findPred"
    BY <1>10 DEF FindPredecessorToArchive, At
  <2> QED BY <2>1, <2>2 DEF Turn, KeepsMessage
<1>11. ASSUME ReadyJob(w) PROVE Goal
  <2>1. Turn(w, "readyDoc")
    BY <1>11, WorkerTurns
  <2>2. worker[w].pc = "readyJob"
    BY <1>11 DEF ReadyJob, At
  <2> QED BY <2>1, <2>2 DEF Turn, KeepsMessage
<1> HIDE DEF Goal
<1>12. Goal
  BY <1>3, <1>4, <1>5, <1>6, <1>7, <1>8, <1>9, <1>10, <1>11 DEF WorkerProceeds, WorkerFails
<1> QED BY <1>12 DEF Goal

\* A worker past the upsert finds every chunk of its document.
LEMMA FoundByWorkerStays ==
    ASSUME IInv, Registered, SearchInvariant, Deletable = {}, [Next]_vars, NEW w \in Workers
    PROVE  FoundByWorker(w)'
<1>y. TypeOK /\ Persists
  BY RegisteredPreserved DEF IInv
<1> DEFINE Finding == {"upsert", "findPred", "readyJob", "readyDoc"}
<1> SUFFICES ASSUME worker'[w].pc \in Finding, Tracked(JobOf(w))'
             PROVE  /\ worker'[w].pc = "upsert"
                         => Chunks(DocOf(w))' \subseteq SearchableHashes' \cup worker'[w].fresh
                    /\ worker'[w].pc \in {"findPred", "readyJob", "readyDoc"}
                         => Chunks(DocOf(w))' \subseteq SearchableHashes'
  BY DEF FoundByWorker
<1>1. worker[w].pc # "idle" /\ worker'[w].msg = worker[w].msg
      /\ (worker'[w] = worker[w] \/ \E v \in Workers : v = w /\ (WorkerProceeds(v) \/ WorkerFails(v)))
  <2>1. CASE worker'[w] = worker[w]
    BY <2>1
  <2>2. CASE worker'[w] # worker[w]
    <3>1. worker' # worker
      BY <2>2
    <3>2. PICK v \in Workers : WorkerProceeds(v) \/ WorkerFails(v)
      BY <3>1 DEF Next, vars, WorkerStep
    <3>3. v = w
      <4>1. Alone(v)
        BY <1>y, <3>2, AloneTurns
      <4> QED BY <2>2, <4>1 DEF Alone
    <3>4. NothingReplaced
      BY DEF SearchInvariant
    <3>5. worker[w].pc # "idle" /\ worker'[w].msg = worker[w].msg
      BY <1>y, <3>2, <3>3, <3>4, FinderTurns
    <3> QED BY <3>2, <3>3, <3>5
  <2> QED BY <2>1, <2>2
<1>2. PICK d \in Docs : d = DocOf(w)
  BY <1>1, <1>y, DocumentStays
<1>3. PICK j \in Jobs : j = JobOf(w)
  BY <1>1, <1>y, DocumentStays
<1>4. Inserted(d) /\ Known(j) /\ d = DocOf(w)' /\ j = JobOf(w)'
  BY <1>1, <1>2, <1>3, <1>y, DocumentStays
<1>5. Tracked(j) /\ Tracked(JobOf(w))
  BY <1>3, <1>4 DEF Tracked
<1>6. SearchableHashes \subseteq SearchableHashes'
  BY <1>4, <1>5, <1>y, TrackedOutliveWipes DEF SearchInvariant
<1>7. Chunks(d)' = Chunks(d)
  BY <1>4, <1>y, ChunksKept
<1>8. Chunks(DocOf(w))' = Chunks(d)'
  BY <1>4 DEF Chunks
<1>9. /\ worker[w].pc = "upsert" => Chunks(d) \subseteq SearchableHashes \cup worker[w].fresh
      /\ worker[w].pc \in {"findPred", "readyJob", "readyDoc"} => Chunks(d) \subseteq SearchableHashes
  BY <1>1, <1>2, <1>5 DEF SearchInvariant, FoundByWorker
<1>10. CASE worker'[w] = worker[w]
  BY <1>6, <1>7, <1>8, <1>9, <1>10
<1>11. CASE WorkerProceeds(w) \/ WorkerFails(w)
  <2>n. NothingReplaced /\ DistinctUploads
    BY DEF SearchInvariant
  <2>1. \/ /\ Deduplicate(w) /\ worker'[w].pc = "upsert"
           /\ files[DocOf(w)] # NoContent
           /\ worker'[w].fresh = ChunksOf[files[DocOf(w)]] \ SearchableHashes
        \/ Upsert(w) /\ worker'[w].pc = "findPred"
        \/ worker[w].pc \in {"findPred", "readyJob"} /\ worker'[w].pc \in {"readyJob", "readyDoc"}
    BY <1>11, <1>y, <2>n, FinderTurns
  <2>2. CASE /\ Deduplicate(w) /\ worker'[w].pc = "upsert"
             /\ files[DocOf(w)] # NoContent
             /\ worker'[w].fresh = ChunksOf[files[DocOf(w)]] \ SearchableHashes
    <3>1. files[d] = uploads[d].content
      BY <1>2, <2>2, <2>n DEF DistinctUploads
    <3>2. worker'[w].fresh = Chunks(d) \ SearchableHashes
      BY <1>2, <2>2, <3>1 DEF Chunks
    <3>3. Chunks(DocOf(w))' \subseteq SearchableHashes' \cup worker'[w].fresh
      BY <1>6, <1>7, <1>8, <3>2
    <3> QED BY <2>2, <3>3
  <2>3. CASE Upsert(w) /\ worker'[w].pc = "findPred"
    <3>1. worker[w].pc = "upsert" /\ vectors' = vectors \cup ({d} \X worker[w].fresh)
      BY <1>2, <2>3 DEF Upsert, At
    <3>2. SearchableHashes' = {v[2] : v \in vectors'}
      BY DEF SearchableHashes
    <3>3. worker[w].fresh \subseteq SearchableHashes'
      <4> SUFFICES ASSUME NEW h \in worker[w].fresh PROVE h \in SearchableHashes'
        OBVIOUS
      <4>1. <<d, h>> \in vectors'
        BY <3>1
      <4> QED BY <3>2, <4>1
    <3>4. Chunks(DocOf(w))' \subseteq SearchableHashes'
      BY <1>6, <1>7, <1>8, <1>9, <3>1, <3>3
    <3> QED BY <2>3, <3>4
  <2>4. CASE worker[w].pc \in {"findPred", "readyJob"} /\ worker'[w].pc \in {"readyJob", "readyDoc"}
    <3>1. Chunks(DocOf(w))' \subseteq SearchableHashes'
      BY <1>6, <1>7, <1>8, <1>9, <2>4
    <3> QED BY <2>4, <3>1
  <2> QED BY <2>1, <2>2, <2>3, <2>4
<1> QED BY <1>1, <1>10, <1>11

\* A document becomes ready when a worker has found its chunks.
LEMMA FoundWhenReadyStays ==
    ASSUME IInv, Registered, OrderInvariant, SearchInvariant, Deletable = {}, [Next]_vars,
           NEW d \in Docs
    PROVE  FoundWhenReady(d)'
<1>y. TypeOK /\ Persists
  BY RegisteredPreserved DEF IInv
<1> SUFFICES ASSUME docs'[d].status = "ready", Tracked(docs'[d].job_id)
             PROVE  Chunks(d)' \subseteq SearchableHashes'
  BY DEF FoundWhenReady, Tracked
<1>1. /\ docs[d].job_id = docs'[d].job_id /\ Exists(docs[d])
      /\ docs[d].status = "ready" \/ \E w \in Workers : ReadyDoc(w) /\ DocOf(w) = d
  <2>1. DocMoves(d)
    BY <1>y, DocumentsMove
  <2>2. DocStays(d) \/ \E w \in Workers : ReadyDoc(w) /\ DocOf(w) = d /\ DocBecomes(d, "ready")
    BY <2>1 DEF DocMoves, WorkerMovesDoc, DocBecomes, Repoints
  <2> QED BY <2>2 DEF DocStays, DocBecomes, Repoints, Exists
<1>2. Inserted(d) /\ Tracked(docs[d].job_id)
  BY <1>1 DEF Exists, Inserted
<1>3. docs[d].job_id = d \/ Renewed(d, docs[d].job_id)
  BY <1>2 DEF Registered, RecordOf
<1>4. Chunks(d)' = Chunks(d)
  BY <1>2, <1>y, ChunksKept
<1>s. WipedFirst /\ NothingReplaced
  BY DEF SearchInvariant
<1>5. CASE docs[d].status = "ready"
  <2>1. Chunks(d) \subseteq SearchableHashes
    BY <1>2, <1>5 DEF SearchInvariant, FoundWhenReady
  <2>2. PICK j \in Jobs : j = docs[d].job_id
    <3>1. d \in Jobs
      BY BoundsAssumption DEF Docs, Jobs
    <3> QED BY <1>3, <3>1 DEF Renewed
  <2>3. Known(j)
    <3>1. docs[d].job_id = d => Finished(d)
      BY <1>5 DEF OrderInvariant, ReadyFinished
    <3> QED BY <1>3, <2>2, <3>1 DEF Renewed, Finished, Started, Known
  <2>4. SearchableHashes \subseteq SearchableHashes'
    BY <1>2, <1>s, <1>y, <2>2, <2>3, TrackedOutliveWipes
  <2> QED BY <1>4, <2>1, <2>4
<1>6. CASE \E w \in Workers : ReadyDoc(w) /\ DocOf(w) = d
  <2>1. PICK w \in Workers : ReadyDoc(w) /\ DocOf(w) = d
    BY <1>6
  <2>2. worker[w].pc = "readyDoc" /\ vectors' = vectors
    BY <2>1 DEF ReadyDoc, At
  <2>3. worker[w].msg \in Messages /\ broker[worker[w].msg].state # "unsent"
    BY <2>2 DEF Registered, HoldsMessage
  <2>4. JobOf(w) \in Jobs /\ Known(JobOf(w))
    BY <2>3 DEF Registered, JobOf, Messages
  <2>5. Tracked(JobOf(w))
    <3> SUFFICES ASSUME Reindexers # {}, JobOf(w) \in Docs PROVE FALSE
      BY DEF Tracked
    <3>1. JobOf(w) = d
      BY <2>1, <2>4 DEF Registered, JobRecord, DocOf
    <3>2. Busy(w, d)
      BY <2>2, <3>1 DEF Busy, Working
    <3>3. Renewed(d, docs[d].job_id)
      BY <1>2, <1>3 DEF Tracked
    <3>4. Restarted(d)
      BY <3>3 DEF Restarted, Renewed
    <3> QED BY <3>2, <3>4 DEF OrderInvariant, ReadyFinished, Finished
  <2>6. Chunks(d) \subseteq SearchableHashes
    BY <2>1, <2>2, <2>5 DEF SearchInvariant, FoundByWorker
  <2> QED BY <1>4, <2>2, <2>6 DEF SearchableHashes
<1> QED BY <1>1, <1>5, <1>6

\* Nothing has been uploaded, so nothing has to be found.
LEMMA SearchInitially == Init => SearchInvariant
<1> SUFFICES ASSUME Init PROVE SearchInvariant
  OBVIOUS
<1>1. DistinctUploads
  BY DEF Init, UploadInit, StoreInit, DistinctUploads
<1>2. NothingReplaced /\ \A w \in Workers : FoundByWorker(w)
  BY DEF Init, WorkerInit, Idle, NothingReplaced, FoundByWorker
<1>3. WipedFirst
  BY DEF Init, StoreInit, WipedFirst, NoReindexJobs, Known, NoJob, Docs, Jobs
<1>4. \A d \in Docs : FoundWhenReady(d)
  BY DEF Init, StoreInit, NoDocument, FoundWhenReady
<1> QED BY <1>1, <1>2, <1>3, <1>4 DEF SearchInvariant

Searching == IInv /\ Registered /\ ChainInvariant /\ OrderInvariant /\ SearchInvariant

\* Every step keeps ready documents findable.
LEMMA SearchPreserved ==
    ASSUME DistinctContents, Deletable = {}, OneReindexer, Searching, [Next]_vars
    PROVE  Searching'
<1>1. IInv /\ Registered /\ ChainInvariant /\ OrderInvariant /\ SearchInvariant
  BY DEF Searching
<1>2. (IInv /\ Registered /\ ChainInvariant /\ OrderInvariant)'
  BY <1>1, InvariantPreserved, RegisteredPreserved, ChainPreserved, OrderPreserved
<1>3. DistinctUploads /\ NothingReplaced /\ WipedFirst
  BY <1>1 DEF SearchInvariant
<1>4. DistinctUploads' /\ NothingReplaced' /\ WipedFirst'
  BY <1>1, <1>3, DistinctUploadsStay, NothingReplacedStays, WipedFirstStays
<1>5. \A w \in Workers : FoundByWorker(w)'
  BY <1>1, FoundByWorkerStays
<1>6. \A d \in Docs : FoundWhenReady(d)'
  BY <1>1, FoundWhenReadyStays
<1> QED BY <1>2, <1>4, <1>5, <1>6 DEF Searching, SearchInvariant

\* What a reindex job has made ready stays findable, chunks shared with others included,
\* whatever is redelivered or fails: with distinct contents, nothing deleted and one
\* reindex request, every chunk such a document needs is in the namespace.
THEOREM ReindexedStaysSearchable ==
    DistinctContents /\ Deletable = {} /\ OneReindexer => (Spec => []ReindexedIsSearchable)
<1> SUFFICES ASSUME DistinctContents, Deletable = {}, OneReindexer
             PROVE  Spec => []ReindexedIsSearchable
  OBVIOUS
<1>1. Init => Searching
  BY InitialInvariant, RegisteredInitially, ChainInitially, OrderInitially, SearchInitially
     DEF Searching
<1>2. Searching /\ [Next]_vars => Searching'
  BY SearchPreserved
<1>3. Searching => ReindexedIsSearchable
  <2> SUFFICES ASSUME Searching, NEW d \in Docs, docs[d].status = "ready",
                      docs[d].job_id \in Jobs \ Docs
               PROVE  ChunksOf[docs[d].content_hash] \subseteq SearchableHashes
    BY DEF ReindexedIsSearchable
  <2>1. FoundWhenReady(d) /\ Tracked(docs[d].job_id) /\ Inserted(d) /\ Registered
    BY DEF Searching, SearchInvariant, Tracked, Inserted
  <2>2. docs[d].content_hash = uploads[d].content
    BY <2>1 DEF Registered, RecordOf
  <2> QED BY <2>1, <2>2 DEF FoundWhenReady, Chunks
<1> QED BY <1>1, <1>2, <1>3, PTL DEF Spec

\* "Upsert Vector Store --> Mark Document Ready": without deletions and reindex requests,
\* with distinct contents, every chunk of a ready document can be found, although the
\* worker writes only those no other document has put there.
THEOREM ReadyStaysSearchable ==
    DistinctContents /\ Deletable = {} /\ Reindexers = {} => (Spec => []ReadyIsSearchable)
<1> SUFFICES ASSUME DistinctContents, Deletable = {}, Reindexers = {}
             PROVE  Spec => []ReadyIsSearchable
  OBVIOUS
<1>0. OneReindexer
  BY DEF OneReindexer
<1>1. Init => Searching
  BY InitialInvariant, RegisteredInitially, ChainInitially, OrderInitially, SearchInitially
     DEF Searching
<1>2. Searching /\ [Next]_vars => Searching'
  BY <1>0, SearchPreserved
<1>3. Searching => ReadyIsSearchable
  <2> SUFFICES ASSUME Searching, NEW d \in Docs, docs[d].status = "ready"
               PROVE  ChunksOf[docs[d].content_hash] \subseteq SearchableHashes
    BY DEF ReadyIsSearchable
  <2>1. FoundWhenReady(d) /\ Tracked(docs[d].job_id) /\ Inserted(d) /\ Registered
    BY DEF Searching, SearchInvariant, Tracked, Inserted
  <2>2. docs[d].content_hash = uploads[d].content
    BY <2>1 DEF Registered, RecordOf
  <2> QED BY <2>1, <2>2 DEF FoundWhenReady, Chunks
<1> QED BY <1>1, <1>2, <1>3, PTL DEF Spec

=============================================================================
