-------------------------- MODULE IngestionProofs ---------------------------
(***************************************************************************)
(* What keeps two workers from processing one job, and jobs from being     *)
(* lost, for every number of uploads, reindex jobs, workers, sweeps and    *)
(* failures, every backend and every vector store. First the steps         *)
(* preserve the types of the variables, process by process; what the       *)
(* updates of a record leave behind is stated once per pattern of update.  *)
(* Then the compare-and-set of set_processing is the only thing that       *)
(* keeps two workers from processing one job. SingleOwner is not           *)
(* inductive alone: a claim keeps it because no worker owns a queued job   *)
(* (OwnedJobClaimed), and that holds because a job is queued only by its   *)
(* insertion, before which nobody can own it (NotInsertedYet). The last    *)
(* part proves that, on SQS, a queued job has a message.                   *)
(***************************************************************************)
EXTENDS Ingestion, FiniteSetTheorems, SequenceTheorems, TLAPS

-----------------------------------------------------------------------------
(* Types. *)

ReindexRecord ==
    [pc : ReindexState, todo : SUBSET Docs, current : Pair, queued : Seq(Docs \X Jobs)]

\* What the point a reindex request has reached says about the job at hand.
InOrder(request) ==
    /\ request.pc = "pointDoc" => request.current \in Docs \X Jobs
    /\ request.pc \in {"failDoc", "failJob"} => request.queued # <<>>

ReindexInOrder == \A r \in Reindexers : InOrder(reindex[r])

-----------------------------------------------------------------------------
(* Uploads. *)

\* The predecessor query sorts by created_at: a non-empty set of documents has a newest.
LEMMA NewestIsMember ==
    ASSUME NEW ds \in SUBSET Docs, ds # {}
    PROVE  Newest(ds) \in ds
<1> DEFINE Above(p) == {x \in Docs : x > p}
           T == {Above(p) : p \in ds}
           R == StrictSubsetOrdering(Docs)
<1>1. IsFiniteSet(Docs)
  BY FS_Interval, BoundsAssumption DEF Docs
<1>2. IsWellFoundedOn(R, SUBSET Docs)
  BY <1>1, FS_StrictSubsetOrderingWellFounded, FS_FiniteSubsetsOfFinite
<1>3. PICK t \in T : \A y \in T : ~ (<<y, t>> \in R)
  <2>1. T \subseteq SUBSET Docs /\ T # {}
    OBVIOUS
  <2> HIDE DEF T, R
  <2>2. QED
    BY <1>2, <2>1, WFMin
<1>4. PICK p \in ds : t = Above(p)
  OBVIOUS
<1>5. \A q \in ds : q <= p
  <2> SUFFICES ASSUME NEW q \in ds, q > p PROVE FALSE
    BY BoundsAssumption DEF Docs
  <2>1. /\ Above(q) \subseteq Above(p)
        /\ q \in Above(p)
        /\ q \notin Above(q)
    BY BoundsAssumption DEF Docs
  <2>2. <<Above(q), Above(p)>> \in R
    BY <2>1 DEF StrictSubsetOrdering
  <2>3. QED
    BY <1>3, <1>4, <2>2
<1>6. QED
  BY <1>5 DEF Newest

BrokerContents == [Messages -> [state : MessageState, receives : 0..MAX_RECEIVE_COUNT]]

\* What the operators of IngestionStore return has the type of the store they change.
LEMMA HelpersTyped ==
    ASSUME TypeOK
    PROVE  /\ \A d, s : s \in Status => SetDocStatus(d, s) \in [Docs -> Document]
           /\ \A j, s : s \in Status => SetJobStatus(j, s) \in [Jobs -> Job]
           /\ \A j, d : j \in Jobs /\ d \in Docs => InsertJob(j, d) \in [Jobs -> Job]
           /\ \A m : Enqueued(m) \in BrokerContents
           /\ \A m : EnqueuedDespiteError(m) \subseteq BrokerContents
<1> USE DEF TypeOK, StoreTypeOK, BrokerContents, MAX_RECEIVE_COUNT
<1>1. \A d, s : s \in Status => SetDocStatus(d, s) \in [Docs -> Document]
  BY DEF SetDocStatus, Document
<1>2. \A j, s : s \in Status => SetJobStatus(j, s) \in [Jobs -> Job]
  BY DEF SetJobStatus, Job
<1>3. \A j, d : j \in Jobs /\ d \in Docs => InsertJob(j, d) \in [Jobs -> Job]
  BY DEF InsertJob, Job, NoJob, Status
<1>4. \A m : Enqueued(m) \in BrokerContents
  <2> SUFFICES ASSUME NEW m, Backend # "local"
               PROVE  [broker EXCEPT ![m] = [state |-> "visible", receives |-> 0]]
                         \in BrokerContents
    BY DEF Enqueued
  <2>1. [state |-> "visible", receives |-> 0] \in [state : MessageState, receives : 0..3]
    BY DEF MessageState
  <2>2. QED
    BY <2>1
<1>5. \A m : EnqueuedDespiteError(m) \subseteq BrokerContents
  BY <1>4 DEF EnqueuedDespiteError
<1>6. QED
  BY <1>1, <1>2, <1>3, <1>4, <1>5

UploadMoved(d, pc) ==
    /\ UploadTypeOK'
    /\ uploads'[d].pc = pc
    /\ \A e \in Docs \ {d} : uploads'[e].pc = uploads[e].pc

\* An upload that goes to pc is there, and the others stay where they were.
LEMMA UploadGoes ==
    ASSUME UploadTypeOK, NEW d \in Docs, NEW pc \in UploadState, Goto(d, pc)
    PROVE  UploadMoved(d, pc)
  BY DEF Goto, Upload, UploadMoved, UploadTypeOK

\* The first step of a request remembers the content.
LEMMA UploadStarts ==
    ASSUME UploadTypeOK, NEW d \in Docs, NEW c \in Contents, StartUpload(d, c)
    PROVE  UploadMoved(d, "find")
<1> DEFINE old == uploads[d]
           found == [old EXCEPT !.pc = "find"]
           named == [found EXCEPT !.content = c]
<1>1. old \in Upload
  BY DEF UploadTypeOK
<1>2. uploads' = [uploads EXCEPT ![d] = named]
  BY DEF StartUpload
<1>3. found \in Upload /\ found.pc = "find"
  BY <1>1 DEF Upload, UploadState
<1> HIDE DEF found
<1>4. named \in Upload /\ named.pc = "find"
  BY <1>3 DEF Upload
<1> HIDE DEF named
<1>5. QED
  BY <1>2, <1>4 DEF UploadMoved, UploadTypeOK

\* The version and the lineage taken from the predecessor are a version and a lineage.
LEMMA PredecessorFound ==
    ASSUME TypeOK, NEW d \in Docs, FindPredecessor(d)
    PROVE  UploadMoved(d, "put")
<1> DEFINE preds == Predecessors(uploads[d].content)
           p == Newest(preds)
           version == IF preds = {} THEN 1 ELSE docs[p].version + 1
           lineage == IF preds = {} THEN d ELSE docs[p].lineage_id
           old == uploads[d]
           a == [old EXCEPT !.pc = "put"]
           b == [a EXCEPT !.version = version]
           c == [b EXCEPT !.lineage_id = lineage]
<1>1. old \in Upload /\ docs \in [Docs -> Document]
  BY DEF TypeOK, StoreTypeOK, UploadTypeOK
<1>2. preds # {} => p \in Docs
  BY NewestIsMember DEF Predecessors
<1>3. uploads' = [uploads EXCEPT ![d] = c]
  BY DEF FindPredecessor
<1> HIDE DEF preds, p
<1>4. version \in Nat /\ lineage \in Docs \cup {None}
  BY <1>1, <1>2 DEF Document
<1> HIDE DEF version, lineage
<1>5. a \in Upload /\ a.pc = "put"
  BY <1>1 DEF Upload, UploadState
<1> HIDE DEF a
<1>6. b \in Upload /\ b.pc = "put"
  BY <1>4, <1>5 DEF Upload
<1> HIDE DEF b
<1>7. c \in Upload /\ c.pc = "put"
  BY <1>4, <1>6 DEF Upload
<1> HIDE DEF c
<1>8. QED
  BY <1>3, <1>7 DEF UploadMoved, UploadTypeOK, TypeOK

\* Every step of an upload keeps the types.
LEMMA UploadTyped ==
    ASSUME TypeOK, UploadStep
    PROVE  StoreTypeOK' /\ UploadTypeOK'
<1> USE DEF TypeOK, StoreTypeOK, UploadTypeOK, NoFault, BrokerContents
<1>h. /\ \A d, s : s \in Status => SetDocStatus(d, s) \in [Docs -> Document]
      /\ \A j, s : s \in Status => SetJobStatus(j, s) \in [Jobs -> Job]
      /\ \A j, d : j \in Jobs /\ d \in Docs => InsertJob(j, d) \in [Jobs -> Job]
      /\ \A m : Enqueued(m) \in BrokerContents
      /\ \A m : EnqueuedDespiteError(m) \subseteq BrokerContents
  BY HelpersTyped
<1>j. Docs \subseteq Jobs
  BY BoundsAssumption DEF Docs, Jobs
<1>g. \A d \in Docs, pc \in UploadState : Goto(d, pc) => UploadTypeOK'
  BY DEF Goto, Upload
<1>1. ASSUME NEW d \in Docs, NEW c \in Contents, StartUpload(d, c)
      PROVE  StoreTypeOK' /\ UploadTypeOK'
  BY <1>1, UploadStarts DEF StartUpload, UploadMoved
<1>2. ASSUME NEW d \in Docs, FindPredecessor(d) PROVE StoreTypeOK' /\ UploadTypeOK'
  BY <1>2, PredecessorFound DEF FindPredecessor, UploadMoved
<1>3. ASSUME NEW d \in Docs, PutFile(d) PROVE StoreTypeOK' /\ UploadTypeOK'
  BY <1>3, <1>g DEF PutFile, Upload, UploadState
<1>4. ASSUME NEW d \in Docs, InsertDocument(d) PROVE StoreTypeOK' /\ UploadTypeOK'
  BY <1>4, <1>g, <1>j DEF InsertDocument, Upload, UploadState, Document, Status
<1>5. ASSUME NEW d \in Docs, InsertUploadJob(d) PROVE StoreTypeOK' /\ UploadTypeOK'
  BY <1>5, <1>g, <1>h, <1>j DEF InsertUploadJob, UploadState
<1>6. ASSUME NEW d \in Docs, SendUploadMessage(d) PROVE StoreTypeOK' /\ UploadTypeOK'
  BY <1>6, <1>g, <1>h DEF SendUploadMessage, UploadState
<1>7. ASSUME NEW d \in Docs, LoseUploadMessage(d) PROVE StoreTypeOK' /\ UploadTypeOK'
  BY <1>7, <1>g, <1>j, BoundsAssumption DEF LoseUploadMessage, UploadState, Fault
<1>8. ASSUME NEW d \in Docs, UndoFile(d) PROVE StoreTypeOK' /\ UploadTypeOK'
  BY <1>8, <1>g DEF UndoFile, UploadState
<1>9. ASSUME NEW d \in Docs, UndoDocument(d) PROVE StoreTypeOK' /\ UploadTypeOK'
  BY <1>9, <1>g, <1>h DEF UndoDocument, UploadState, Status
<1>10. ASSUME NEW d \in Docs, FailUploadedDocument(d) PROVE StoreTypeOK' /\ UploadTypeOK'
  BY <1>10, <1>g, <1>h DEF FailUploadedDocument, UploadState, Status
<1>11. ASSUME NEW d \in Docs, FailUploadedJob(d) PROVE StoreTypeOK' /\ UploadTypeOK'
  BY <1>11, <1>g, <1>h DEF FailUploadedJob, UploadState, Status
<1>12. ASSUME NEW d \in Docs, UploadCallRaises(d) PROVE StoreTypeOK' /\ UploadTypeOK'
  <2>1. AfterUploadError(uploads[d].pc) \in UploadState
    BY DEF AfterUploadError, UploadState
  <2>2. QED
    BY <1>12, <2>1, <1>g, <1>h, <1>j, BoundsAssumption DEF UploadCallRaises, Fault
<1>13. ASSUME NEW d \in Docs, UploadCrashes(d) PROVE StoreTypeOK' /\ UploadTypeOK'
  BY <1>13, <1>g, <1>j, BoundsAssumption DEF UploadCrashes, UploadState, Fault
<1>14. QED
  BY <1>1, <1>2, <1>3, <1>4, <1>5, <1>6, <1>7, <1>8, <1>9, <1>10, <1>11, <1>12, <1>13
     DEF UploadStep, UploadProceeds

\* A step of the broker keeps the types of the store.
LEMMA BrokerTyped ==
    ASSUME TypeOK, BrokerStep
    PROVE  StoreTypeOK'
<1> USE DEF TypeOK, StoreTypeOK, MessageState
<1>1. ASSUME NEW m \in Messages, Redeliver(m) PROVE StoreTypeOK'
  BY <1>1 DEF Redeliver
<1>2. ASSUME NEW m \in Messages, CommitOffset(m) PROVE StoreTypeOK'
  BY <1>2 DEF CommitOffset
<1>3. QED
  BY <1>1, <1>2 DEF BrokerStep

\* A step of a delete request keeps the types.
LEMMA DeletionTyped ==
    ASSUME TypeOK, DeletionStep
    PROVE  StoreTypeOK' /\ AdminTypeOK'
<1> USE DEF TypeOK, StoreTypeOK, AdminTypeOK, DeletionState, Deletes, NoFault
<1>d. Deletable \subseteq Docs
  BY DeletableAssumption
<1>1. ASSUME NEW d \in Deletable, StartDeletion(d) PROVE StoreTypeOK' /\ AdminTypeOK'
  BY <1>1 DEF StartDeletion
<1>2. ASSUME NEW d \in Deletable, DeleteVectors(d) PROVE StoreTypeOK' /\ AdminTypeOK'
  BY <1>2 DEF DeleteVectors
<1>3. ASSUME NEW d \in Deletable, DeleteJobs(d) PROVE StoreTypeOK' /\ AdminTypeOK'
  <2>1. \A job \in Job : [job EXCEPT !.status = "deleted"] \in Job
    BY DEF Job, Status
  <2>2. jobs' \in [Jobs -> Job]
    BY <1>3, <2>1 DEF DeleteJobs
  <2>3. QED
    BY <1>3, <2>2 DEF DeleteJobs
<1>4. ASSUME NEW d \in Deletable, DeleteDocument(d) PROVE StoreTypeOK' /\ AdminTypeOK'
  <2>1. SetDocStatus(d, "deleted") \in [Docs -> Document]
    BY HelpersTyped DEF Status
  <2>2. QED
    BY <1>4, <2>1 DEF DeleteDocument
<1>5. ASSUME NEW d \in Deletable, DeletionFails(d) PROVE StoreTypeOK' /\ AdminTypeOK'
  BY <1>5, BoundsAssumption DEF DeletionFails, JobsOf, Fault
<1>6. QED
  BY <1>1, <1>2, <1>3, <1>4, <1>5 DEF DeletionStep

SweepRecords == [Sweeps -> [pc : {"off", "find", "send", "count", "done"},
                            todo : SUBSET Jobs, current : Jobs \cup {None}]]

\* A step of the sweep keeps the types.
LEMMA SweepTyped ==
    ASSUME TypeOK, SweepStep
    PROVE  StoreTypeOK' /\ SweepTypeOK'
<1> USE DEF TypeOK, StoreTypeOK, SweepTypeOK, NoFault, BrokerContents
<1>h. /\ \A m : Enqueued(m) \in BrokerContents
      /\ \A m : EnqueuedDespiteError(m) \subseteq BrokerContents
  BY HelpersTyped
<1>1. ASSUME NEW s \in Sweeps, ReadFailedJobs(s) PROVE StoreTypeOK' /\ SweepTypeOK'
  BY <1>1 DEF ReadFailedJobs, Retriable
<1>2. ASSUME NEW s \in Sweeps, FindSweptDocument(s) PROVE StoreTypeOK' /\ SweepTypeOK'
  <2>1. PICK j \in sweeps[s].todo :
          sweeps' = [sweeps EXCEPT
                       ![s].todo = @ \ {j},
                       ![s].current = j,
                       ![s].pc = IF Exists(docs[jobs[j].document_id]) THEN "send" ELSE "find"]
    BY <1>2 DEF FindSweptDocument
  <2> DEFINE left == [sweeps EXCEPT ![s].todo = @ \ {j}]
             chosen == [left EXCEPT ![s].current = j]
             next == IF Exists(docs[jobs[j].document_id]) THEN "send" ELSE "find"
  <2>2. sweeps' = [chosen EXCEPT ![s].pc = next]
    BY <2>1
  <2>3. left \in SweepRecords
    BY DEF SweepRecords
  <2> HIDE DEF left
  <2>4. chosen \in SweepRecords
    BY <2>3 DEF SweepRecords
  <2>5. next \in {"send", "find"}
    OBVIOUS
  <2> HIDE DEF chosen, next
  <2>6. SweepTypeOK'
    BY <2>2, <2>4, <2>5 DEF SweepRecords
  <2>7. QED
    BY <1>2, <2>6 DEF FindSweptDocument
<1>3. ASSUME NEW s \in Sweeps, SendSweptMessage(s) PROVE StoreTypeOK' /\ SweepTypeOK'
  BY <1>3, <1>h, BoundsAssumption DEF SendSweptMessage, Fault
<1>4. ASSUME NEW s \in Sweeps, CountRetry(s) PROVE StoreTypeOK' /\ SweepTypeOK'
  <2> DEFINE j == sweeps[s].current
  <2>1. \A k \in Jobs, n \in Nat : [jobs EXCEPT ![k].retry_count = n] \in [Jobs -> Job]
    <3> SUFFICES ASSUME NEW k \in Jobs, NEW n \in Nat
                 PROVE  [jobs EXCEPT ![k].retry_count = n] \in [Jobs -> Job]
      OBVIOUS
    <3>1. \A job \in Job : [job EXCEPT !.retry_count = n] \in Job
      BY DEF Job
    <3>2. QED
      BY <3>1
  <2> HIDE DEF j
  <2>2. CASE j \in Jobs
    <3>1. jobs[j].retry_count + 1 \in Nat
      BY <2>2 DEF Job
    <3>2. [jobs EXCEPT ![j].retry_count = @ + 1]
             = [jobs EXCEPT ![j].retry_count = jobs[j].retry_count + 1]
      OBVIOUS
    <3>3. jobs' \in [Jobs -> Job]
      BY <1>4, <2>1, <2>2, <3>1, <3>2 DEF CountRetry, j
    <3>4. QED
      BY <1>4, <3>3 DEF CountRetry
  <2>3. CASE j \notin Jobs
    <3>1. [jobs EXCEPT ![j].retry_count = @ + 1] = jobs
      BY <2>3
    <3>2. jobs' = jobs \/ jobs' = [jobs EXCEPT ![j].retry_count = @ + 1]
      BY <1>4 DEF CountRetry, j
    <3>3. jobs' \in [Jobs -> Job]
      BY <3>1, <3>2
    <3>4. QED
      BY <1>4, <3>3 DEF CountRetry
  <2>4. QED
    BY <2>2, <2>3
<1>5. ASSUME NEW s \in Sweeps, FinishSweep(s) PROVE StoreTypeOK' /\ SweepTypeOK'
  BY <1>5 DEF FinishSweep
<1>6. ASSUME NEW s \in Sweeps, SweepFails(s) PROVE StoreTypeOK' /\ SweepTypeOK'
  BY <1>6, <1>h, BoundsAssumption DEF SweepFails, Fault
<1>7. QED
  BY <1>1, <1>2, <1>3, <1>4, <1>5, <1>6 DEF SweepStep, SweepProceeds

\* Jobs that a reindex request still answers for are job ids.
LEMMA UnsentAreJobs ==
    ASSUME TypeOK, NEW r \in Reindexers
    PROVE  Unsent(r) \subseteq Jobs
<1> DEFINE q == reindex[r].queued
           cur == reindex[r].current
<1>1. q \in Seq(Docs \X Jobs) /\ cur \in Pair
  BY DEF TypeOK, AdminTypeOK
<1> HIDE DEF q, cur
<1>2. \A p \in ToSet(q) : p \in Docs \X Jobs
  BY <1>1 DEF ToSet
<1>3. \A p \in ToSet(q) \cup {cur} : p[2] \in Jobs \cup {None}
  BY <1>1, <1>2 DEF Pair
<1>4. Unsent(r) = {p[2] : p \in ToSet(q) \cup {cur}} \ {None}
  BY DEF Unsent, q, cur
<1>5. QED
  BY <1>3, <1>4

\* What the updates of a reindex request give, field by field.
LEMMA RequestMoved ==
    ASSUME NEW q \in ReindexRecord, NEW a
    PROVE  [q EXCEPT !.pc = a] =
              [pc |-> a, todo |-> q.todo, current |-> q.current, queued |-> q.queued]
  BY DEF ReindexRecord

\* The next pair leaves the list.
LEMMA RequestDequeues ==
    ASSUME NEW q \in ReindexRecord, NEW a
    PROVE  [q EXCEPT !.queued = a] =
              [pc |-> q.pc, todo |-> q.todo, current |-> q.current, queued |-> a]
  BY DEF ReindexRecord

\* The next pair leaves the list and the request moves on.
LEMMA RequestDequeuesAndMoves ==
    ASSUME NEW q \in ReindexRecord, NEW a, NEW b
    PROVE  [q EXCEPT !.queued = a, !.pc = b] =
              [pc |-> b, todo |-> q.todo, current |-> q.current, queued |-> a]
<1>1. [q EXCEPT !.queued = a] =
         [pc |-> q.pc, todo |-> q.todo, current |-> q.current, queued |-> a]
  BY RequestDequeues
<1>2. [[pc |-> q.pc, todo |-> q.todo, current |-> q.current, queued |-> a] EXCEPT !.pc = b] =
         [pc |-> b, todo |-> q.todo, current |-> q.current, queued |-> a]
  OBVIOUS
<1>3. QED
  BY <1>1, <1>2

\* The documents to requeue are listed.
LEMMA RequestFinds ==
    ASSUME NEW q \in ReindexRecord, NEW a, NEW b
    PROVE  [q EXCEPT !.todo = a, !.pc = b] =
              [pc |-> b, todo |-> a, current |-> q.current, queued |-> q.queued]
<1>1. [q EXCEPT !.todo = a] =
         [pc |-> q.pc, todo |-> a, current |-> q.current, queued |-> q.queued]
  BY DEF ReindexRecord
<1>2. [[pc |-> q.pc, todo |-> a, current |-> q.current, queued |-> q.queued] EXCEPT !.pc = b] =
         [pc |-> b, todo |-> a, current |-> q.current, queued |-> q.queued]
  OBVIOUS
<1>3. QED
  BY <1>1, <1>2

\* A document is given a status and a job.
LEMMA DocumentPointed ==
    ASSUME docs \in [Docs -> Document], NEW d \in Docs, NEW j \in Jobs, NEW s \in Status
    PROVE  [docs EXCEPT ![d].status = s, ![d].job_id = j] \in [Docs -> Document]
<1> DEFINE mid == [docs EXCEPT ![d].status = s]
<1>1. mid \in [Docs -> Document]
  BY DEF Document
<1> HIDE DEF mid
<1>2. [mid EXCEPT ![d].job_id = j] \in [Docs -> Document]
  BY <1>1 DEF Document
<1>3. QED
  BY <1>2 DEF mid

\* One request is replaced by one that is well formed.
LEMMA RequestReplaced ==
    ASSUME TypeOK, ReindexInOrder, NEW r \in Reindexers, NEW q \in ReindexRecord, InOrder(q),
           reindex' = [reindex EXCEPT ![r] = q], deletions' = deletions
    PROVE  AdminTypeOK' /\ ReindexInOrder'
  BY DEF TypeOK, AdminTypeOK, ReindexInOrder, ReindexRecord

\* A request that only moves on stays well formed.
LEMMA RequestMoves ==
    ASSUME TypeOK, ReindexInOrder, NEW r \in Reindexers,
           NEW pc \in ReindexState \ {"pointDoc", "failDoc", "failJob"},
           reindex' = [reindex EXCEPT ![r].pc = pc], deletions' = deletions
    PROVE  AdminTypeOK' /\ ReindexInOrder'
<1> DEFINE old == reindex[r]
           q == [pc |-> pc, todo |-> old.todo, current |-> old.current, queued |-> old.queued]
<1>1. old \in ReindexRecord
  BY DEF TypeOK, AdminTypeOK, ReindexRecord
<1>2. [old EXCEPT !.pc = pc] = q
  BY <1>1, RequestMoved
<1>3. reindex' = [reindex EXCEPT ![r] = q]
  BY <1>2
<1>4. q \in ReindexRecord /\ InOrder(q)
  BY <1>1 DEF ReindexRecord, InOrder
<1> HIDE DEF q
<1>5. QED
  BY <1>3, <1>4, RequestReplaced

\* A step of a reindex request keeps the types and the order of its phases.
LEMMA ReindexTyped ==
    ASSUME TypeOK, ReindexInOrder, ReindexStep
    PROVE  StoreTypeOK' /\ AdminTypeOK' /\ ReindexInOrder'
<1> DEFINE Typed == StoreTypeOK' /\ AdminTypeOK' /\ ReindexInOrder'
<1> USE DEF StoreTypeOK, NoFault, ReindexUnchanged, ReindexAt, BrokerContents
<1>y. /\ StoreTypeOK
      /\ reindex \in [Reindexers -> ReindexRecord]
      /\ \A r \in Reindexers : InOrder(reindex[r])
  BY DEF TypeOK, AdminTypeOK, ReindexRecord, ReindexInOrder
<1>h. /\ \A j, s : s \in Status => SetJobStatus(j, s) \in [Jobs -> Job]
      /\ \A j, d : j \in Jobs /\ d \in Docs => InsertJob(j, d) \in [Jobs -> Job]
      /\ \A m : Enqueued(m) \in BrokerContents
      /\ \A m : EnqueuedDespiteError(m) \subseteq BrokerContents
  BY HelpersTyped
<1>n. \A todo : NextStep(todo) \in ReindexState \ {"pointDoc", "failDoc", "failJob"}
  BY DEF NextStep, ReindexState
<1>f. \A faultCount \in 0..MaxFaults : faultCount < MaxFaults => faultCount + 1 \in 0..MaxFaults
  BY BoundsAssumption
<1>1. ASSUME NEW r \in Reindexers, StartReindex(r) PROVE Typed
  <2>1. AdminTypeOK' /\ ReindexInOrder'
    BY <1>1, RequestMoves DEF StartReindex, ReindexState
  <2>2. QED
    BY <1>1, <1>y, <2>1 DEF StartReindex
<1>2. ASSUME NEW r \in Reindexers, WipeNamespace(r) PROVE Typed
  <2>1. AdminTypeOK' /\ ReindexInOrder'
    BY <1>2, RequestMoves DEF WipeNamespace, ReindexState
  <2>2. QED
    BY <1>2, <1>y, <2>1 DEF WipeNamespace
<1>3. ASSUME NEW r \in Reindexers, FindReady(r) PROVE Typed
  <2> DEFINE ready == {d \in Docs : docs[d].status = "ready" /\ ~Archived(d)}
             old == reindex[r]
             next == NextStep(ready)
             q == [pc |-> next, todo |-> ready, current |-> old.current,
                   queued |-> old.queued]
  <2>1. old \in ReindexRecord
    BY <1>y
  <2>2. reindex' = [reindex EXCEPT ![r] = [old EXCEPT !.todo = ready, !.pc = next]]
    BY <1>3 DEF FindReady
  <2>3. [old EXCEPT !.todo = ready, !.pc = next] = q
    BY <2>1, RequestFinds
  <2>4. q \in ReindexRecord /\ InOrder(q)
    BY <1>n, <2>1 DEF ReindexRecord, InOrder
  <2> HIDE DEF q
  <2>5. reindex' = [reindex EXCEPT ![r] = q]
    BY <2>2, <2>3
  <2>6. AdminTypeOK' /\ ReindexInOrder'
    BY <1>3, <2>4, <2>5, RequestReplaced DEF FindReady
  <2>7. QED
    BY <1>3, <1>y, <2>6 DEF FindReady
<1>4. ASSUME NEW r \in Reindexers, InsertReindexJob(r) PROVE Typed
  <2> DEFINE old == reindex[r]
  <2>1. old \in ReindexRecord
    BY <1>y
  <2>2. PICK d \in old.todo, j \in Jobs \ Docs :
          /\ jobs' = InsertJob(j, d)
          /\ reindex' = [reindex EXCEPT ![r].todo = @ \ {d}, ![r].current = <<d, j>>,
                                        ![r].pc = "pointDoc"]
    BY <1>4 DEF InsertReindexJob
  <2> DEFINE left == old.todo \ {d}
             cur == <<d, j>>
             q == [pc |-> "pointDoc", todo |-> left, current |-> cur, queued |-> old.queued]
  <2>3. d \in Docs /\ left \in SUBSET Docs /\ cur \in Docs \X Jobs /\ cur \in Pair
    BY <2>1 DEF ReindexRecord, Pair
  <2>4. reindex' = [reindex EXCEPT ![r] = [old EXCEPT !.todo = left, !.current = cur,
                                                      !.pc = "pointDoc"]]
    BY <2>2
  <2> HIDE DEF left, cur
  <2>5. [old EXCEPT !.todo = left, !.current = cur, !.pc = "pointDoc"] = q
    <3> DEFINE q1 == [pc |-> old.pc, todo |-> left, current |-> old.current,
                      queued |-> old.queued]
               q2 == [pc |-> old.pc, todo |-> left, current |-> cur, queued |-> old.queued]
    <3>1. [old EXCEPT !.todo = left] = q1
      BY <2>1 DEF ReindexRecord
    <3>2. [q1 EXCEPT !.current = cur] = q2
      OBVIOUS
    <3>3. [q2 EXCEPT !.pc = "pointDoc"] = q
      OBVIOUS
    <3> HIDE DEF old, q, q1, q2
    <3>4. QED
      BY <3>1, <3>2, <3>3
  <2>6. q \in ReindexRecord /\ InOrder(q)
    BY <2>1, <2>3 DEF ReindexRecord, InOrder, ReindexState
  <2> HIDE DEF q
  <2>7. reindex' = [reindex EXCEPT ![r] = q]
    BY <2>4, <2>5
  <2>8. AdminTypeOK' /\ ReindexInOrder'
    BY <1>4, <2>6, <2>7, RequestReplaced DEF InsertReindexJob
  <2>9. QED
    BY <1>4, <1>y, <1>h, <2>2, <2>3, <2>8 DEF InsertReindexJob
<1>5. ASSUME NEW r \in Reindexers, PointDocument(r) PROVE Typed
  <2> DEFINE old == reindex[r]
             cur == old.current
             longer == Append(old.queued, cur)
             next == NextStep(old.todo)
             none == <<None, None>>
             q == [pc |-> next, todo |-> old.todo, current |-> none, queued |-> longer]
  <2>1. old \in ReindexRecord /\ cur \in Docs \X Jobs
    BY <1>5, <1>y DEF PointDocument, InOrder
  <2>2. /\ longer \in Seq(Docs \X Jobs)
        /\ none \in Pair
        /\ next \in ReindexState \ {"pointDoc", "failDoc", "failJob"}
    BY <1>n, <2>1 DEF ReindexRecord, Pair
  <2>3. reindex' = [reindex EXCEPT ![r] = [old EXCEPT !.queued = longer, !.current = none,
                                                      !.pc = next]]
    BY <1>5 DEF PointDocument
  <2> HIDE DEF longer, next, none
  <2>4. [old EXCEPT !.queued = longer, !.current = none, !.pc = next] = q
    <3> DEFINE q1 == [pc |-> old.pc, todo |-> old.todo, current |-> old.current,
                      queued |-> longer]
               q2 == [pc |-> old.pc, todo |-> old.todo, current |-> none, queued |-> longer]
    <3>1. [old EXCEPT !.queued = longer] = q1
      BY <2>1, RequestDequeues
    <3>2. [q1 EXCEPT !.current = none] = q2
      OBVIOUS
    <3>3. [q2 EXCEPT !.pc = next] = q
      OBVIOUS
    <3> HIDE DEF old, q, q1, q2
    <3>4. QED
      BY <3>1, <3>2, <3>3
  <2>5. q \in ReindexRecord /\ InOrder(q)
    BY <2>1, <2>2 DEF ReindexRecord, InOrder
  <2> HIDE DEF q
  <2>6. reindex' = [reindex EXCEPT ![r] = q]
    BY <2>3, <2>4
  <2>7. AdminTypeOK' /\ ReindexInOrder'
    BY <1>5, <2>5, <2>6, RequestReplaced DEF PointDocument
  <2>8. docs' \in [Docs -> Document]
    <3>1. docs' = docs \/ docs' = [docs EXCEPT ![cur[1]].status = "queued",
                                               ![cur[1]].job_id = cur[2]]
      BY <1>5 DEF PointDocument
    <3>2. cur[1] \in Docs /\ cur[2] \in Jobs /\ "queued" \in Status
      BY <2>1 DEF Status
    <3> HIDE DEF cur
    <3>3. [docs EXCEPT ![cur[1]].status = "queued", ![cur[1]].job_id = cur[2]]
             \in [Docs -> Document]
      BY <1>y, <3>2, DocumentPointed
    <3>4. QED
      BY <1>y, <3>1, <3>3
  <2>9. QED
    BY <1>5, <1>y, <2>7, <2>8 DEF PointDocument
<1>6. ASSUME NEW r \in Reindexers, SendReindexMessage(r) PROVE Typed
  <2> DEFINE old == reindex[r]
             rest == Tail(old.queued)
             job == Head(old.queued)[2]
             q == [pc |-> old.pc, todo |-> old.todo, current |-> old.current, queued |-> rest]
  <2>1. old \in ReindexRecord /\ old.queued # <<>> /\ old.pc = "send"
    BY <1>6, <1>y DEF SendReindexMessage
  <2>2. rest \in Seq(Docs \X Jobs) /\ Head(old.queued) \in Docs \X Jobs
    BY <2>1 DEF ReindexRecord
  <2>3. reindex' = [reindex EXCEPT ![r] = [old EXCEPT !.queued = rest]]
    BY <1>6 DEF SendReindexMessage
  <2>4. \/ broker' = Enqueued(ReindexMessage(r)) /\ UNCHANGED <<faults, abandoned>>
        \/ Fault /\ abandoned' = abandoned \cup {job} /\ UNCHANGED broker
    BY <1>6 DEF SendReindexMessage
  <2>5. job \in Jobs
    BY <2>2
  <2> HIDE DEF rest, job
  <2>6. [old EXCEPT !.queued = rest] = q
    BY <2>1, RequestDequeues
  <2>7. q \in ReindexRecord /\ InOrder(q)
    BY <2>1, <2>2 DEF ReindexRecord, InOrder
  <2> HIDE DEF q
  <2>8. reindex' = [reindex EXCEPT ![r] = q]
    BY <2>3, <2>6
  <2>9. AdminTypeOK' /\ ReindexInOrder'
    BY <1>6, <2>7, <2>8, RequestReplaced DEF SendReindexMessage
  <2>10. broker' \in BrokerContents /\ faults' \in 0..MaxFaults /\ abandoned' \subseteq Jobs
    BY <1>y, <1>h, <1>f, <2>4, <2>5 DEF Fault
  <2>11. QED
    BY <1>6, <1>y, <2>9, <2>10 DEF SendReindexMessage
<1>7. ASSUME NEW r \in Reindexers, FinishReindex(r) PROVE Typed
  <2>1. AdminTypeOK' /\ ReindexInOrder'
    BY <1>7, RequestMoves DEF FinishReindex, ReindexState
  <2>2. QED
    BY <1>7, <1>y, <2>1 DEF FinishReindex
<1>8. ASSUME NEW r \in Reindexers, ReindexSendRaises(r) PROVE Typed
  <2> DEFINE old == reindex[r]
             q == [pc |-> "failDoc", todo |-> old.todo, current |-> old.current,
                   queued |-> old.queued]
  <2>1. old \in ReindexRecord /\ old.queued # <<>>
    BY <1>8, <1>y DEF ReindexSendRaises
  <2>2. [old EXCEPT !.pc = "failDoc"] = q
    BY <2>1, RequestMoved
  <2>3. q \in ReindexRecord /\ InOrder(q)
    BY <2>1 DEF ReindexRecord, InOrder, ReindexState
  <2> HIDE DEF q
  <2>4. reindex' = [reindex EXCEPT ![r] = q]
    BY <1>8, <2>2 DEF ReindexSendRaises
  <2>5. AdminTypeOK' /\ ReindexInOrder'
    BY <1>8, <2>3, <2>4, RequestReplaced DEF ReindexSendRaises
  <2>6. broker' \in BrokerContents /\ faults' \in 0..MaxFaults
    BY <1>8, <1>y, <1>h, <1>f DEF ReindexSendRaises, Fault
  <2>7. QED
    BY <1>8, <1>y, <2>5, <2>6 DEF ReindexSendRaises
<1>9. ASSUME NEW r \in Reindexers, FailReindexDocument(r) PROVE Typed
  <2> DEFINE old == reindex[r]
             first == Head(old.queued)
             q == [pc |-> "failJob", todo |-> old.todo, current |-> old.current,
                   queued |-> old.queued]
  <2>1. old \in ReindexRecord /\ old.queued # <<>>
    BY <1>9, <1>y DEF FailReindexDocument, InOrder
  <2>2. first \in Docs \X Jobs
    BY <2>1 DEF ReindexRecord
  <2>3. [old EXCEPT !.pc = "failJob"] = q
    BY <2>1, RequestMoved
  <2>4. q \in ReindexRecord /\ InOrder(q)
    BY <2>1 DEF ReindexRecord, InOrder, ReindexState
  <2> HIDE DEF q
  <2>5. reindex' = [reindex EXCEPT ![r] = q]
    BY <1>9, <2>3 DEF FailReindexDocument
  <2>6. AdminTypeOK' /\ ReindexInOrder'
    BY <1>9, <2>4, <2>5, RequestReplaced DEF FailReindexDocument
  <2>7. docs' \in [Docs -> Document]
    <3>1. docs' = docs \/ docs' = [docs EXCEPT ![first[1]].status = "failed",
                                               ![first[1]].job_id = first[2]]
      BY <1>9 DEF FailReindexDocument
    <3>2. first[1] \in Docs /\ first[2] \in Jobs /\ "failed" \in Status
      BY <2>2 DEF Status
    <3> HIDE DEF first
    <3>3. [docs EXCEPT ![first[1]].status = "failed", ![first[1]].job_id = first[2]]
             \in [Docs -> Document]
      BY <1>y, <3>2, DocumentPointed
    <3>4. QED
      BY <1>y, <3>1, <3>3
  <2>8. QED
    BY <1>9, <1>y, <2>6, <2>7 DEF FailReindexDocument
<1>10. ASSUME NEW r \in Reindexers, FailReindexJob(r) PROVE Typed
  <2> DEFINE old == reindex[r]
             rest == Tail(old.queued)
             next == IF rest = <<>> THEN "aborted" ELSE "failDoc"
             q == [pc |-> next, todo |-> old.todo, current |-> old.current, queued |-> rest]
  <2>1. old \in ReindexRecord /\ old.queued # <<>>
    BY <1>10, <1>y DEF FailReindexJob, InOrder
  <2>2. rest \in Seq(Docs \X Jobs)
    BY <2>1 DEF ReindexRecord
  <2>3. next \in ReindexState /\ next # "pointDoc" /\ next # "failJob"
        /\ (next = "failDoc" => rest # <<>>)
    BY DEF ReindexState
  <2>4. reindex' = [reindex EXCEPT ![r] = [old EXCEPT !.queued = rest, !.pc = next]]
    BY <1>10 DEF FailReindexJob
  <2> HIDE DEF rest, next
  <2>5. [old EXCEPT !.queued = rest, !.pc = next] = q
    BY <2>1, RequestDequeuesAndMoves
  <2>6. q \in ReindexRecord /\ InOrder(q)
    BY <2>1, <2>2, <2>3 DEF ReindexRecord, InOrder
  <2> HIDE DEF q
  <2>7. reindex' = [reindex EXCEPT ![r] = q]
    BY <2>4, <2>5
  <2>8. AdminTypeOK' /\ ReindexInOrder'
    BY <1>10, <2>6, <2>7, RequestReplaced DEF FailReindexJob
  <2>9. QED
    BY <1>10, <1>y, <1>h, <2>8 DEF FailReindexJob, Status
<1>11. ASSUME NEW r \in Reindexers, ReindexFails(r) PROVE Typed
  <2> DEFINE q == [NoReindex EXCEPT !.pc = "aborted"]
  <2>1. q \in ReindexRecord /\ InOrder(q)
    <3> DEFINE none == <<None, None>>
               empty == <<>>
    <3>0. NoReindex = [pc |-> "off", todo |-> {}, current |-> none, queued |-> empty]
      BY DEF NoReindex
    <3> HIDE DEF none, empty
    <3>1. q = [pc |-> "aborted", todo |-> {}, current |-> none, queued |-> empty]
      BY <3>0
    <3>2. none \in Pair /\ empty \in Seq(Docs \X Jobs)
      BY DEF Pair, none, empty
    <3>3. QED
      BY <3>1, <3>2 DEF ReindexRecord, InOrder, ReindexState
  <2>2. reindex' = [reindex EXCEPT ![r] = q]
    BY <1>11 DEF ReindexFails
  <2> HIDE DEF q
  <2>3. AdminTypeOK' /\ ReindexInOrder'
    BY <1>11, <2>1, <2>2, RequestReplaced DEF ReindexFails
  <2>4. Unsent(r) \subseteq Jobs
    BY UnsentAreJobs
  <2>5. QED
    BY <1>11, <1>y, <1>f, <2>3, <2>4 DEF ReindexFails, Fault
<1>12. QED
  BY <1>1, <1>2, <1>3, <1>4, <1>5, <1>6, <1>7, <1>8, <1>9, <1>10, <1>11 DEF ReindexStep

-----------------------------------------------------------------------------
(* What a step of a worker does. *)

WorkerRecords == [Workers -> WorkerRecord]

\* Worker w is at pc with the message it had; no other worker moves.
Moved(w, pc) ==
    /\ worker' \in WorkerRecords
    /\ worker'[w].pc = pc
    /\ worker'[w].msg = worker[w].msg
    /\ \A v \in Workers \ {w} : worker'[v] = worker[v]

\* MoveTo changes nothing but pc.
LEMMA WorkerMoves ==
    ASSUME worker \in WorkerRecords, NEW w \in Workers, NEW pc \in WorkerState, MoveTo(w, pc)
    PROVE  Moved(w, pc)
  BY DEF MoveTo, Moved, WorkerRecords, WorkerRecord

\* Fails keeps the message at hand.
LEMMA WorkerFailsJob ==
    ASSUME worker \in WorkerRecords, NEW w \in Workers,
           NEW error \in {"none", "transient", "permanent"}, Fails(w, error)
    PROVE  Moved(w, "failJob")
<1> DEFINE mid == [worker EXCEPT ![w].pc = "failJob"]
<1>1. /\ mid \in WorkerRecords
      /\ mid[w].pc = "failJob"
      /\ mid[w].msg = worker[w].msg
      /\ \A v \in Workers \ {w} : mid[v] = worker[v]
  BY DEF WorkerRecords, WorkerRecord, WorkerState
<1>2. worker' = [mid EXCEPT ![w].error = error]
  BY DEF Fails
<1> HIDE DEF mid
<1>3. QED
  BY <1>1, <1>2 DEF Moved, WorkerRecords, WorkerRecord

\* Any update that keeps the message and the record type is such a move.
LEMMA WorkerBecomes ==
    ASSUME worker \in WorkerRecords, NEW w \in Workers, NEW rec \in WorkerRecord,
           rec.msg = worker[w].msg, worker' = [worker EXCEPT ![w] = rec]
    PROVE  Moved(w, rec.pc)
  BY DEF Moved, WorkerRecords

\* Loading the document is such a move.
LEMMA WorkerLoads ==
    ASSUME worker \in WorkerRecords, NEW w \in Workers, NEW version \in Nat,
           NEW lineage \in Docs \cup {None},
           worker' = [worker EXCEPT ![w].pc = "dedup", ![w].version = version,
                                    ![w].lineage_id = lineage]
    PROVE  Moved(w, "dedup")
<1> DEFINE old == worker[w]
           a == [old EXCEPT !.pc = "dedup"]
           b == [a EXCEPT !.version = version]
           c == [b EXCEPT !.lineage_id = lineage]
<1>1. old \in WorkerRecord
  BY DEF WorkerRecords
<1>2. worker' = [worker EXCEPT ![w] = c]
  OBVIOUS
<1>3. a \in WorkerRecord /\ a.pc = "dedup" /\ a.msg = old.msg
  BY <1>1 DEF WorkerRecord, WorkerState
<1> HIDE DEF a
<1>4. b \in WorkerRecord /\ b.pc = a.pc /\ b.msg = a.msg
  BY <1>3 DEF WorkerRecord
<1> HIDE DEF b
<1>5. c \in WorkerRecord /\ c.pc = b.pc /\ c.msg = b.msg
  BY <1>4 DEF WorkerRecord
<1> HIDE DEF c
<1>6. c.pc = "dedup" /\ c.msg = worker[w].msg
  BY <1>3, <1>4, <1>5
<1>7. Moved(w, c.pc)
  BY <1>2, <1>5, <1>6, WorkerBecomes
<1>8. QED
  BY <1>6, <1>7

\* Deduplicating and upserting are such moves.
LEMMA WorkerMovesFresh ==
    ASSUME worker \in WorkerRecords, NEW w \in Workers, NEW pc \in WorkerState,
           NEW fresh \in SUBSET AllHashes,
           worker' = [worker EXCEPT ![w].pc = pc, ![w].fresh = fresh]
    PROVE  Moved(w, pc)
<1> DEFINE old == worker[w]
           a == [old EXCEPT !.pc = pc]
           b == [a EXCEPT !.fresh = fresh]
<1>1. old \in WorkerRecord
  BY DEF WorkerRecords
<1>2. worker' = [worker EXCEPT ![w] = b]
  OBVIOUS
<1>3. a \in WorkerRecord /\ a.pc = pc /\ a.msg = old.msg
  BY <1>1 DEF WorkerRecord
<1> HIDE DEF a
<1>4. b \in WorkerRecord /\ b.pc = a.pc /\ b.msg = a.msg
  BY <1>3 DEF WorkerRecord
<1> HIDE DEF b
<1>5. QED
  BY <1>2, <1>3, <1>4, WorkerBecomes

\* Choosing the predecessor to archive is such a move.
LEMMA WorkerMovesPred ==
    ASSUME worker \in WorkerRecords, NEW w \in Workers, NEW p \in Docs,
           worker' = [worker EXCEPT ![w].pc = "deletePred", ![w].pred = p]
    PROVE  Moved(w, "deletePred")
<1> DEFINE old == worker[w]
           a == [old EXCEPT !.pc = "deletePred"]
           b == [a EXCEPT !.pred = p]
<1>1. old \in WorkerRecord
  BY DEF WorkerRecords
<1>2. worker' = [worker EXCEPT ![w] = b]
  OBVIOUS
<1>3. a \in WorkerRecord /\ a.pc = "deletePred" /\ a.msg = old.msg
  BY <1>1 DEF WorkerRecord, WorkerState
<1> HIDE DEF a
<1>4. b \in WorkerRecord /\ b.pc = a.pc /\ b.msg = a.msg
  BY <1>3 DEF WorkerRecord
<1> HIDE DEF b
<1>5. b.pc = "deletePred" /\ b.msg = worker[w].msg
  BY <1>3, <1>4
<1>6. Moved(w, b.pc)
  BY <1>2, <1>4, <1>5, WorkerBecomes
<1>7. QED
  BY <1>5, <1>6

\* A worker between two messages is well formed.
LEMMA IdleTyped == Idle \in WorkerRecord
  BY DEF Idle, WorkerRecord, WorkerState, MAX_RECEIVE_COUNT

\* The end of a dispatch leaves the worker idle and the broker well formed.
LEMMA DispatchEnds ==
    ASSUME worker \in WorkerRecords, NEW w \in Workers, NEW b \in BrokerContents,
           EndDispatch(w, b)
    PROVE  /\ worker' \in WorkerRecords
           /\ worker'[w].pc = "idle"
           /\ \A v \in Workers \ {w} : worker'[v] = worker[v]
           /\ broker' \in BrokerContents
<1>1. Released(b, w) \in BrokerContents
  BY DEF Released, BrokerContents, MessageState
<1>2. QED
  BY <1>1, IdleTyped DEF EndDispatch, WorkerRecords, Idle

\* Receiving and deleting a message keep the broker well formed.
LEMMA BrokerTransitions ==
    ASSUME broker \in BrokerContents, NEW m \in Messages
    PROVE  /\ Deleted(m) \in BrokerContents
           /\ Receptions(m) \in 0..MAX_RECEIVE_COUNT
           /\ Received(m) \in BrokerContents
<1>1. Deleted(m) \in BrokerContents
  BY DEF Deleted, BrokerContents, MessageState
<1>2. Receptions(m) \in 0..MAX_RECEIVE_COUNT
  BY DEF Receptions, BrokerContents, MAX_RECEIVE_COUNT
<1>3. Received(m) \in BrokerContents
  <2>1. [state |-> "hidden", receives |-> Receptions(m)]
           \in [state : MessageState, receives : 0..MAX_RECEIVE_COUNT]
    BY <1>2 DEF MessageState
  <2>2. QED
    BY <2>1 DEF Received, BrokerContents
<1>4. QED
  BY <1>1, <1>2, <1>3

\* A reception hands the message over.
LEMMA WorkerReceives ==
    ASSUME worker \in WorkerRecords, broker \in BrokerContents,
           NEW w \in Workers, NEW m \in Messages, Receive(w, m)
    PROVE  /\ worker' \in WorkerRecords
           /\ worker'[w].pc = "claim"
           /\ worker'[w].msg = m
           /\ \A v \in Workers \ {w} : worker'[v] = worker[v]
<1> DEFINE n == Receptions(m)
           a == [Idle EXCEPT !.pc = "claim"]
           b == [a EXCEPT !.msg = m]
           c == [b EXCEPT !.receives = n]
<1>1. n \in 0..MAX_RECEIVE_COUNT
  BY BrokerTransitions
<1>2. worker' = [worker EXCEPT ![w] = c]
  BY DEF Receive
<1> HIDE DEF n
<1>3. a \in WorkerRecord /\ a.pc = "claim"
  BY IdleTyped DEF WorkerRecord, WorkerState
<1> HIDE DEF a
<1>4. b \in WorkerRecord /\ b.pc = "claim" /\ b.msg = m
  BY <1>3 DEF WorkerRecord
<1> HIDE DEF b
<1>5. c \in WorkerRecord /\ c.pc = "claim" /\ c.msg = m
  BY <1>1, <1>4 DEF WorkerRecord
<1> HIDE DEF c
<1>6. QED
  BY <1>2, <1>5 DEF WorkerRecords

\* A transient failure ends the dispatch or starts giving up.
LEMMA TransientEnds ==
    ASSUME worker \in WorkerRecords, broker \in BrokerContents, NEW w \in Workers,
           AfterTransient(w)
    PROVE  /\ worker' \in WorkerRecords
           /\ worker'[w].pc \in {"idle", "giveUpDoc"}
           /\ worker'[w].pc # "idle" => worker'[w].msg = worker[w].msg
           /\ \A v \in Workers \ {w} : worker'[v] = worker[v]
           /\ broker' \in BrokerContents
<1>1. CASE MoveTo(w, "giveUpDoc") /\ UNCHANGED broker
  BY <1>1, WorkerMoves DEF Moved, WorkerState
<1>2. CASE EndDispatch(w, broker)
  BY <1>2, DispatchEnds
<1>3. QED
  BY <1>1, <1>2 DEF AfterTransient

-----------------------------------------------------------------------------
(* Owners. *)

\* A job record names the document it was created for.
JobHasDocument ==
    \A j \in Jobs : jobs[j].status # "absent" => jobs[j].document_id \in Docs

\* A worker that is not idle has a message at hand.
BusyHasMessage ==
    \A w \in Workers : worker[w].pc # "idle" => worker[w].msg \in Messages

\* A job in the hands of a worker exists and is not queued.
OwnedJobClaimed ==
    \A w \in Workers, j \in Jobs : Owns(w, j) => jobs[j].status \notin {"absent", "queued"}

\* An upload inserts its job once.
NotInsertedYet ==
    \A d \in Docs :
       uploads[d].pc \in {"off", "find", "put", "insertDoc", "insertJob"} =>
          jobs[d].status = "absent"

IInv ==
    /\ TypeOK
    /\ JobHasDocument
    /\ BusyHasMessage
    /\ OwnedJobClaimed
    /\ NotInsertedYet
    /\ ReindexInOrder
    /\ SingleOwner
    /\ ProcessingHasOwner

-----------------------------------------------------------------------------
(* What any step can do to a job, and what a step of a worker does to its own. *)

\* A job keeps its status or is settled by somebody.
JobMoves(j) ==
    /\ \/ jobs'[j].status = jobs[j].status
       \/ Exists(jobs[j]) /\ jobs'[j].status \in {"ready", "failed", "deleted"}
    /\ jobs'[j].document_id = jobs[j].document_id

\* set_processing found the job queued.
ClaimsJob(w) ==
    /\ jobs[JobOf(w)].status = "queued"
    /\ jobs' = [jobs EXCEPT ![JobOf(w)].status = "processing"]
    /\ worker'[w].pc = "markDoc"
    /\ worker'[w].msg = worker[w].msg

\* A job that leaves the hands of its worker is settled or abandoned.
KeepsJob(w) ==
    /\ worker'[w].pc \in Owning => worker[w].pc \in Owning /\ worker'[w].msg = worker[w].msg
    /\ (worker[w].pc \in Owning /\ worker'[w].pc \notin Owning) =>
          JobOf(w) \in abandoned' \/ jobs'[JobOf(w)].status # "processing"
    /\ \A j \in Jobs : JobMoves(j)

\* The effect of a worker's step on what the invariant relates.
WorkerChange(w) ==
    /\ StoreTypeOK'
    /\ worker' \in WorkerRecords
    /\ worker'[w].pc # "idle" => worker'[w].msg \in Messages
    /\ \A v \in Workers \ {w} : worker'[v] = worker[v]
    /\ abandoned \subseteq abandoned'
    /\ ClaimsJob(w) \/ KeepsJob(w)

\* The update of a status to a final one is a JobMoves of every job.
LEMMA JobIsSettled ==
    ASSUME jobs \in [Jobs -> Job], NEW k \in Jobs, NEW s \in {"ready", "failed", "deleted"},
           jobs' = SetJobStatus(k, s)
    PROVE  /\ \A j \in Jobs : JobMoves(j)
           /\ jobs'[k].status # "processing"
           /\ jobs' \in [Jobs -> Job]
<1>1. CASE Exists(jobs[k])
  <2>1. jobs' = [jobs EXCEPT ![k].status = s]
    BY <1>1 DEF SetJobStatus
  <2>2. QED
    BY <1>1, <2>1 DEF JobMoves, Job, Status
<1>2. CASE ~Exists(jobs[k])
  BY <1>2 DEF SetJobStatus, JobMoves, Exists
<1>3. QED
  BY <1>1, <1>2

\* Leaving the jobs alone is a JobMoves of every job.
LEMMA JobsKept ==
    ASSUME jobs' = jobs PROVE \A j \in Jobs : JobMoves(j)
  BY DEF JobMoves

\* Every step of a worker, failing calls and crashes included, is a WorkerChange.
LEMMA WorkerSteps ==
    ASSUME TypeOK, JobHasDocument, BusyHasMessage, OwnedJobClaimed,
           NEW w \in Workers, WorkerProceeds(w) \/ WorkerFails(w)
    PROVE  WorkerChange(w)
<1>y. /\ StoreTypeOK
      /\ worker \in WorkerRecords
      /\ broker \in BrokerContents
      /\ jobs \in [Jobs -> Job]
      /\ docs \in [Docs -> Document]
  BY DEF TypeOK, WorkerTypeOK, WorkerRecords, StoreTypeOK, BrokerContents
<1>m. ASSUME worker[w].pc # "idle"
      PROVE  /\ worker[w].msg \in Messages
             /\ JobOf(w) \in Jobs
             /\ DocOf(w) \in Docs \cup {None}
  <2>1. worker[w].msg \in Messages /\ JobOf(w) \in Jobs
    BY <1>m DEF BusyHasMessage, JobOf, Messages
  <2>2. QED
    BY <1>y, <2>1 DEF DocOf, Job
<1>o. ASSUME worker[w].pc \in Owning PROVE DocOf(w) \in Docs
  <2>1. Owns(w, JobOf(w)) /\ JobOf(w) \in Jobs
    BY <1>o, <1>m DEF Owns, Owning
  <2>2. QED
    BY <2>1 DEF OwnedJobClaimed, JobHasDocument, DocOf
<1>d. \A d, s : s \in Status => SetDocStatus(d, s) \in [Docs -> Document]
  BY HelpersTyped
<1>f. ASSUME Fault PROVE faults' \in 0..MaxFaults
  BY <1>y, <1>f, BoundsAssumption DEF Fault, StoreTypeOK
<1> USE DEF NoFault
<1>1. ASSUME NEW m \in Messages, Receive(w, m) PROVE WorkerChange(w)
  <2>1. /\ worker' \in WorkerRecords
        /\ worker'[w].pc = "claim"
        /\ worker'[w].msg = m
        /\ \A v \in Workers \ {w} : worker'[v] = worker[v]
    BY <1>y, <1>1, WorkerReceives
  <2>2. broker' \in BrokerContents
    BY <1>y, <1>1, BrokerTransitions DEF Receive
  <2>3. StoreTypeOK'
    BY <1>y, <1>1, <2>2 DEF Receive, StoreTypeOK, BrokerContents
  <2>4. KeepsJob(w)
    BY <1>1, <2>1, JobsKept DEF Receive, At, KeepsJob, Owning
  <2>5. QED
    BY <1>1, <2>1, <2>3, <2>4 DEF Receive, WorkerChange
<1>2. ASSUME Claim(w) PROVE WorkerChange(w)
  <2>1. Moved(w, "markDoc")
    BY <1>y, <1>2, WorkerMoves DEF Claim, WorkerState
  <2>2. worker[w].msg \in Messages /\ JobOf(w) \in Jobs
    BY <1>2, <1>m DEF Claim, At
  <2>3. jobs' \in [Jobs -> Job]
    BY <1>y, <1>2 DEF Claim, Job, Status
  <2>4. ClaimsJob(w)
    BY <1>2, <2>1 DEF Claim, Claimable, ClaimsJob, Moved
  <2>5. StoreTypeOK'
    BY <1>y, <1>2, <2>3 DEF Claim, StoreTypeOK
  <2>6. QED
    BY <1>2, <2>1, <2>2, <2>4, <2>5 DEF Claim, WorkerChange, Moved
<1>3. ASSUME SkipClaimed(w) PROVE WorkerChange(w)
  <2>1. Moved(w, "ack") /\ worker[w].msg \in Messages
    BY <1>y, <1>3, <1>m, WorkerMoves DEF SkipClaimed, At, WorkerState
  <2>2. KeepsJob(w)
    BY <1>3, <2>1, JobsKept DEF SkipClaimed, At, KeepsJob, Moved, Owning
  <2>3. QED
    BY <1>y, <1>3, <2>1, <2>2 DEF SkipClaimed, WorkerChange, Moved, StoreTypeOK
<1>4. ASSUME MarkDocumentProcessing(w) PROVE WorkerChange(w)
  <2>1. Moved(w, "load") /\ worker[w].msg \in Messages
    BY <1>y, <1>4, <1>m, WorkerMoves DEF MarkDocumentProcessing, At, WorkerState
  <2>2. KeepsJob(w)
    BY <1>4, <2>1, JobsKept DEF MarkDocumentProcessing, At, KeepsJob, Moved, Owning
  <2>3. docs' \in [Docs -> Document]
    BY <1>4, <1>d DEF MarkDocumentProcessing, Status
  <2>4. QED
    BY <1>y, <1>4, <2>1, <2>2, <2>3
       DEF MarkDocumentProcessing, WorkerChange, Moved, StoreTypeOK
<1>5. ASSUME LoadDocument(w) PROVE WorkerChange(w)
  <2> DEFINE d == docs[DocOf(w)]
  <2>1. worker[w].pc \in Owning /\ worker[w].msg \in Messages
    BY <1>5, <1>m DEF LoadDocument, At, Owning
  <2>2. d.version \in Nat /\ d.lineage_id \in Docs \cup {None}
    BY <1>y, <1>o, <2>1 DEF Document
  <2>3. \/ Fails(w, "permanent")
        \/ worker' = [worker EXCEPT ![w].pc = "dedup", ![w].version = d.version,
                                    ![w].lineage_id = d.lineage_id]
    BY <1>5 DEF LoadDocument
  <2> HIDE DEF d
  <2>4. \E pc \in {"failJob", "dedup"} : Moved(w, pc)
    BY <1>y, <2>2, <2>3, WorkerFailsJob, WorkerLoads
  <2>5. KeepsJob(w)
    BY <1>5, <2>1, <2>4, JobsKept DEF LoadDocument, KeepsJob, Moved, Owning
  <2>6. QED
    BY <1>y, <1>5, <2>1, <2>4, <2>5 DEF LoadDocument, WorkerChange, Moved, StoreTypeOK
<1>6. ASSUME Deduplicate(w) PROVE WorkerChange(w)
  <2> DEFINE file == files[DocOf(w)]
             fresh == ChunksOf[file] \ SearchableHashes
  <2>1. worker[w].pc \in Owning /\ worker[w].msg \in Messages
    BY <1>6, <1>m DEF Deduplicate, At, Owning
  <2>2. file \in Contents \cup {NoContent}
    BY <1>y, <1>o, <2>1 DEF StoreTypeOK
  <2>3. file # NoContent => fresh \in SUBSET AllHashes
    BY <2>2 DEF AllHashes
  <2>4. \/ Fails(w, "permanent") \/ Fails(w, "transient")
        \/ file # NoContent /\ worker' = [worker EXCEPT ![w].pc = "upsert", ![w].fresh = fresh]
    BY <1>6 DEF Deduplicate
  <2> HIDE DEF file, fresh
  <2>5. \E pc \in {"failJob", "upsert"} : Moved(w, pc)
    <3>1. "upsert" \in WorkerState
      BY DEF WorkerState
    <3>2. QED
      BY <1>y, <2>3, <2>4, <3>1, WorkerFailsJob, WorkerMovesFresh
  <2>6. KeepsJob(w)
    BY <1>6, <2>1, <2>5, JobsKept DEF Deduplicate, KeepsJob, Moved, Owning
  <2>7. QED
    BY <1>y, <1>6, <2>1, <2>5, <2>6 DEF Deduplicate, WorkerChange, Moved, StoreTypeOK
<1>7. ASSUME Upsert(w) PROVE WorkerChange(w)
  <2>1. worker[w].pc \in Owning /\ worker[w].msg \in Messages
    BY <1>7, <1>m DEF Upsert, At, Owning
  <2>2. Moved(w, "findPred")
    <3> DEFINE none == {}
    <3>1. worker' = [worker EXCEPT ![w].pc = "findPred", ![w].fresh = none]
      BY <1>7 DEF Upsert
    <3>2. none \in SUBSET AllHashes /\ "findPred" \in WorkerState
      BY DEF WorkerState
    <3> HIDE DEF none
    <3>3. QED
      BY <1>y, <3>1, <3>2, WorkerMovesFresh
  <2>3. KeepsJob(w)
    BY <1>7, <2>1, <2>2, JobsKept DEF Upsert, KeepsJob, Moved, Owning
  <2>4. worker[w].fresh \subseteq AllHashes
    BY <1>y DEF WorkerRecords, WorkerRecord
  <2>5. vectors' \subseteq Docs \X AllHashes
    BY <1>y, <1>7, <1>o, <2>1, <2>4 DEF Upsert, StoreTypeOK
  <2>6. QED
    BY <1>y, <1>7, <2>1, <2>2, <2>3, <2>5 DEF Upsert, WorkerChange, Moved, StoreTypeOK
<1>8. ASSUME FindPredecessorToArchive(w) PROVE WorkerChange(w)
  <2>1. worker[w].pc \in Owning /\ worker[w].msg \in Messages
    BY <1>8, <1>m DEF FindPredecessorToArchive, At, Owning
  <2>2. \/ MoveTo(w, "readyJob") \/ Fails(w, "permanent")
        \/ \E p \in Docs : worker' = [worker EXCEPT ![w].pc = "deletePred", ![w].pred = p]
    BY <1>8 DEF FindPredecessorToArchive, Superseded
  <2>3. \E pc \in {"readyJob", "failJob", "deletePred"} : Moved(w, pc)
    <3>1. "readyJob" \in WorkerState
      BY DEF WorkerState
    <3>2. QED
      BY <1>y, <2>2, <3>1, WorkerMoves, WorkerFailsJob, WorkerMovesPred
  <2>4. KeepsJob(w)
    BY <1>8, <2>1, <2>3, JobsKept DEF FindPredecessorToArchive, KeepsJob, Moved, Owning
  <2>5. QED
    BY <1>y, <1>8, <2>1, <2>3, <2>4
       DEF FindPredecessorToArchive, WorkerChange, Moved, StoreTypeOK
<1>9. ASSUME DeletePredecessorVectors(w) PROVE WorkerChange(w)
  <2>1. Moved(w, "archive") /\ worker[w].msg \in Messages
    BY <1>y, <1>9, <1>m, WorkerMoves DEF DeletePredecessorVectors, At, WorkerState
  <2>2. KeepsJob(w)
    BY <1>9, <2>1, JobsKept DEF DeletePredecessorVectors, At, KeepsJob, Moved, Owning
  <2>3. QED
    BY <1>y, <1>9, <2>1, <2>2
       DEF DeletePredecessorVectors, WorkerChange, Moved, StoreTypeOK
<1>10. ASSUME RollbackVectors(w) PROVE WorkerChange(w)
  <2>1. Moved(w, "failJob") /\ worker[w].msg \in Messages
    BY <1>y, <1>10, <1>m, WorkerFailsJob DEF RollbackVectors, At
  <2>2. KeepsJob(w)
    BY <1>10, <2>1, JobsKept DEF RollbackVectors, At, KeepsJob, Moved, Owning
  <2>3. QED
    BY <1>y, <1>10, <2>1, <2>2 DEF RollbackVectors, WorkerChange, Moved, StoreTypeOK
<1>11. ASSUME ArchivePredecessor(w) PROVE WorkerChange(w)
  <2> DEFINE d == DocOf(w)
             p == worker[w].pred
  <2>1. Moved(w, "readyJob") /\ worker[w].msg \in Messages
    BY <1>y, <1>11, <1>m, WorkerMoves DEF ArchivePredecessor, At, WorkerState
  <2>2. KeepsJob(w)
    BY <1>11, <2>1, JobsKept DEF ArchivePredecessor, At, KeepsJob, Moved, Owning
  <2>3. d \in Docs
    BY <1>11, <1>o DEF ArchivePredecessor, At, Owning
  <2>4. docs' = docs \/ docs' = [docs EXCEPT ![p].superseded_by = d]
    BY <1>11 DEF ArchivePredecessor
  <2> HIDE DEF d, p
  <2>5. docs' \in [Docs -> Document]
    BY <1>y, <2>3, <2>4 DEF Document
  <2>6. QED
    BY <1>y, <1>11, <2>1, <2>2, <2>5 DEF ArchivePredecessor, WorkerChange, Moved, StoreTypeOK
<1>12. ASSUME ReadyJob(w) PROVE WorkerChange(w)
  <2>1. Moved(w, "readyDoc") /\ worker[w].msg \in Messages /\ JobOf(w) \in Jobs
    BY <1>y, <1>12, <1>m, WorkerMoves DEF ReadyJob, At, WorkerState
  <2>2. /\ \A j \in Jobs : JobMoves(j)
        /\ jobs'[JobOf(w)].status # "processing"
        /\ jobs' \in [Jobs -> Job]
    BY <1>y, <1>12, <2>1, JobIsSettled DEF ReadyJob
  <2>3. KeepsJob(w)
    BY <2>1, <2>2 DEF KeepsJob, Moved, Owning
  <2>4. QED
    BY <1>y, <1>12, <2>1, <2>2, <2>3 DEF ReadyJob, WorkerChange, Moved, StoreTypeOK
<1>13. ASSUME ReadyDoc(w) PROVE WorkerChange(w)
  <2>1. Moved(w, "ack") /\ worker[w].msg \in Messages
    BY <1>y, <1>13, <1>m, WorkerMoves DEF ReadyDoc, At, WorkerState
  <2>2. KeepsJob(w)
    BY <1>13, <2>1, JobsKept DEF ReadyDoc, At, KeepsJob, Moved, Owning
  <2>3. docs' \in [Docs -> Document]
    BY <1>13, <1>d DEF ReadyDoc, Status
  <2>4. QED
    BY <1>y, <1>13, <2>1, <2>2, <2>3 DEF ReadyDoc, WorkerChange, Moved, StoreTypeOK
<1>14. ASSUME FailJob(w) PROVE WorkerChange(w)
  <2> DEFINE j == JobOf(w)
             e == worker[w].error
             settled == SetJobStatus(j, "failed")
  <2>1. Moved(w, "failDoc") /\ worker[w].msg \in Messages /\ j \in Jobs
    BY <1>y, <1>14, <1>m, WorkerMoves DEF FailJob, At, WorkerState
  <2>2. e \in {"none", "transient", "permanent"}
    BY <1>y DEF WorkerRecords, WorkerRecord
  <2>3. /\ settled \in [Jobs -> Job]
        /\ settled[j].status # "processing"
        /\ \A i \in Jobs : /\ \/ settled[i].status = jobs[i].status
                              \/ Exists(jobs[i]) /\ settled[i].status = "failed"
                           /\ settled[i].document_id = jobs[i].document_id
    <3>1. CASE Exists(jobs[j])
      BY <1>y, <2>1, <3>1 DEF SetJobStatus, Job, Status
    <3>2. CASE ~Exists(jobs[j])
      BY <1>y, <3>2 DEF SetJobStatus, Exists
    <3>3. QED
      BY <3>1, <3>2
  <2>4. jobs' = settled \/ jobs' = [settled EXCEPT ![j].error_type = e]
    BY <1>14 DEF FailJob
  <2> HIDE DEF e, settled
  <2>5. /\ jobs' \in [Jobs -> Job]
        /\ \A i \in Jobs : /\ jobs'[i].status = settled[i].status
                           /\ jobs'[i].document_id = settled[i].document_id
    BY <2>1, <2>2, <2>3, <2>4 DEF Job
  <2>6. KeepsJob(w)
    BY <2>1, <2>3, <2>5 DEF KeepsJob, JobMoves, Moved, Owning
  <2>7. QED
    BY <1>y, <1>14, <2>1, <2>5, <2>6 DEF FailJob, WorkerChange, Moved, StoreTypeOK
<1>15. ASSUME FailDoc(w) PROVE WorkerChange(w)
  <2>1. /\ worker' \in WorkerRecords
        /\ worker'[w].pc \in {"idle", "giveUpDoc"}
        /\ worker'[w].pc # "idle" => worker'[w].msg = worker[w].msg
        /\ \A v \in Workers \ {w} : worker'[v] = worker[v]
        /\ broker' \in BrokerContents
    <3>1. CASE MoveTo(w, "giveUpDoc") /\ UNCHANGED broker
      BY <1>y, <3>1, WorkerMoves DEF Moved, WorkerState
    <3>2. CASE AfterTransient(w)
      BY <1>y, <3>2, TransientEnds
    <3>3. QED
      BY <1>15, <3>1, <3>2 DEF FailDoc
  <2>2. worker[w].pc = "failDoc" /\ worker[w].msg \in Messages
    BY <1>15, <1>m DEF FailDoc, At
  <2>3. KeepsJob(w)
    BY <1>15, <2>1, <2>2, JobsKept DEF FailDoc, KeepsJob, Owning
  <2>4. docs' \in [Docs -> Document]
    BY <1>15, <1>d DEF FailDoc, Status
  <2>5. QED
    BY <1>y, <1>15, <2>1, <2>2, <2>3, <2>4
       DEF FailDoc, WorkerChange, StoreTypeOK, BrokerContents
<1>16. ASSUME Ack(w) \/ Drop(w) PROVE WorkerChange(w)
  <2>1. /\ worker[w].pc \in {"ack", "drop"}
        /\ EndDispatch(w, Deleted(worker[w].msg))
        /\ UNCHANGED <<docs, jobs, files, vectors, vectorStore, faults, abandoned>>
    BY <1>16 DEF Ack, Drop, At
  <2>2. Deleted(worker[w].msg) \in BrokerContents
    BY <1>y, <1>m, <2>1, BrokerTransitions
  <2>3. /\ worker' \in WorkerRecords
        /\ worker'[w].pc = "idle"
        /\ \A v \in Workers \ {w} : worker'[v] = worker[v]
        /\ broker' \in BrokerContents
    BY <1>y, <2>1, <2>2, DispatchEnds
  <2>4. KeepsJob(w)
    BY <2>1, <2>3, JobsKept DEF KeepsJob, Owning
  <2>5. QED
    BY <1>y, <2>1, <2>3, <2>4 DEF WorkerChange, StoreTypeOK, BrokerContents
<1>17. ASSUME GiveUpDoc(w) PROVE WorkerChange(w)
  <2>1. Moved(w, "giveUpJob") /\ worker[w].msg \in Messages
    BY <1>y, <1>17, <1>m, WorkerMoves DEF GiveUpDoc, At, WorkerState
  <2>2. KeepsJob(w)
    BY <1>17, <2>1, JobsKept DEF GiveUpDoc, At, KeepsJob, Moved, Owning
  <2>3. docs' \in [Docs -> Document]
    BY <1>17, <1>d DEF GiveUpDoc, Status
  <2>4. QED
    BY <1>y, <1>17, <2>1, <2>2, <2>3 DEF GiveUpDoc, WorkerChange, Moved, StoreTypeOK
<1>18. ASSUME GiveUpJob(w) PROVE WorkerChange(w)
  <2>1. Moved(w, "drop") /\ worker[w].msg \in Messages /\ JobOf(w) \in Jobs
    BY <1>y, <1>18, <1>m, WorkerMoves DEF GiveUpJob, At, WorkerState
  <2>2. (\A j \in Jobs : JobMoves(j)) /\ jobs' \in [Jobs -> Job]
    BY <1>y, <1>18, <2>1, JobIsSettled DEF GiveUpJob
  <2>3. KeepsJob(w)
    BY <1>18, <2>1, <2>2 DEF GiveUpJob, At, KeepsJob, Moved, Owning
  <2>4. QED
    BY <1>y, <1>18, <2>1, <2>2, <2>3 DEF GiveUpJob, WorkerChange, Moved, StoreTypeOK
<1>19. ASSUME PredecessorDeletionRaises(w) PROVE WorkerChange(w)
  <2>1. Moved(w, "rollback") /\ worker[w].msg \in Messages
    BY <1>y, <1>19, <1>m, WorkerMoves DEF PredecessorDeletionRaises, At, WorkerState
  <2>2. KeepsJob(w)
    BY <1>19, <2>1, JobsKept DEF PredecessorDeletionRaises, At, KeepsJob, Moved, Owning
  <2>3. QED
    BY <1>y, <1>19, <1>f, <2>1, <2>2
       DEF PredecessorDeletionRaises, WorkerChange, Moved, StoreTypeOK
<1>20. ASSUME GuardedCallRaises(w) PROVE WorkerChange(w)
  <2>1. Moved(w, "failJob") /\ worker[w].msg \in Messages /\ worker[w].pc \in Owning
    BY <1>y, <1>20, <1>m, WorkerFailsJob DEF GuardedCallRaises, Guarded, Owning
  <2>2. KeepsJob(w)
    BY <1>20, <2>1, JobsKept DEF GuardedCallRaises, KeepsJob, Moved, Owning
  <2>3. QED
    BY <1>y, <1>20, <1>f, <2>1, <2>2 DEF GuardedCallRaises, WorkerChange, Moved, StoreTypeOK
<1>21. ASSUME UnguardedCallRaises(w) PROVE WorkerChange(w)
  <2>1. worker[w].pc # "idle"
    BY <1>21 DEF UnguardedCallRaises, Unguarded
  <2>2. worker[w].msg \in Messages /\ JobOf(w) \in Jobs
    BY <1>m, <2>1
  <2>3. /\ worker' \in WorkerRecords
        /\ worker'[w].pc \in {"idle", "giveUpDoc"}
        /\ worker'[w].pc # "idle" => worker'[w].msg = worker[w].msg
        /\ \A v \in Workers \ {w} : worker'[v] = worker[v]
        /\ broker' \in BrokerContents
    BY <1>y, <1>21, TransientEnds DEF UnguardedCallRaises
  <2>4. /\ abandoned \subseteq abandoned'
        /\ abandoned' \subseteq Jobs
        /\ worker[w].pc \in Owning => JobOf(w) \in abandoned'
    BY <1>y, <1>21, <2>2 DEF UnguardedCallRaises, StoreTypeOK, Owning
  <2>5. KeepsJob(w)
    BY <1>21, <2>3, <2>4, JobsKept DEF UnguardedCallRaises, KeepsJob, Owning
  <2>6. QED
    BY <1>y, <1>21, <1>f, <2>2, <2>3, <2>4, <2>5
       DEF UnguardedCallRaises, WorkerChange, StoreTypeOK, BrokerContents
<1>22. ASSUME GiveUpRaises(w) PROVE WorkerChange(w)
  <2>1. Moved(w, "drop") /\ worker[w].msg \in Messages /\ JobOf(w) \in Jobs
    BY <1>y, <1>22, <1>m, WorkerMoves DEF GiveUpRaises, WorkerState
  <2>2. KeepsJob(w)
    BY <1>22, <2>1, JobsKept DEF GiveUpRaises, KeepsJob, Moved, Owning
  <2>3. QED
    BY <1>y, <1>22, <1>f, <2>1, <2>2 DEF GiveUpRaises, WorkerChange, Moved, StoreTypeOK
<1>23. ASSUME WorkerCrashes(w) PROVE WorkerChange(w)
  <2>1. worker[w].pc # "idle" /\ JobOf(w) \in Jobs
    BY <1>23, <1>m DEF WorkerCrashes
  <2>2. /\ worker' \in WorkerRecords
        /\ worker'[w].pc = "idle"
        /\ \A v \in Workers \ {w} : worker'[v] = worker[v]
    <3>1. worker' = [worker EXCEPT ![w] = Idle]
      BY <1>23 DEF WorkerCrashes
    <3>2. Idle.pc = "idle"
      BY DEF Idle
    <3>3. QED
      BY <1>y, <3>1, <3>2, IdleTyped DEF WorkerRecords
  <2>3. /\ abandoned \subseteq abandoned'
        /\ abandoned' \subseteq Jobs
        /\ worker[w].pc \in Owning => JobOf(w) \in abandoned'
    BY <1>y, <1>23, <2>1 DEF WorkerCrashes, StoreTypeOK, Owning
  <2>4. KeepsJob(w)
    BY <1>23, <2>2, <2>3, JobsKept DEF WorkerCrashes, KeepsJob, Owning
  <2>5. QED
    BY <1>y, <1>23, <1>f, <2>2, <2>3, <2>4 DEF WorkerCrashes, WorkerChange, StoreTypeOK
<1>24. QED
  BY <1>1, <1>2, <1>3, <1>4, <1>5, <1>6, <1>7, <1>8, <1>9, <1>10, <1>11, <1>12, <1>13,
     <1>14, <1>15, <1>16, <1>17, <1>18, <1>19, <1>20, <1>21, <1>22, <1>23
     DEF WorkerProceeds, WorkerFails

\* An inserted job is queued for its document.
LEMMA JobInserted ==
    ASSUME jobs \in [Jobs -> Job], NEW k \in Jobs, NEW d \in Docs, jobs' = InsertJob(k, d)
    PROVE  /\ jobs'[k].status = "queued"
           /\ jobs'[k].document_id = d
           /\ \A j \in Jobs \ {k} : jobs'[j] = jobs[j]
  BY DEF InsertJob, NoJob, Job

-----------------------------------------------------------------------------
(* The ownership of jobs. *)

\* A job is inserted for a document.
JobCreated(j) ==
    /\ jobs[j].status = "absent"
    /\ jobs'[j].status = "queued"
    /\ jobs'[j].document_id \in Docs

\* The part of the invariant that relates jobs to workers.
Ownership ==
    /\ JobHasDocument
    /\ BusyHasMessage
    /\ OwnedJobClaimed
    /\ SingleOwner
    /\ ProcessingHasOwner

\* Nobody but a worker touches the ownership of a job.
LEMMA OthersKeepOwnership ==
    ASSUME Ownership, worker' = worker, abandoned \subseteq abandoned',
           \A j \in Jobs : JobMoves(j) \/ JobCreated(j)
    PROVE  Ownership'
<1> USE DEF Ownership
<1>1. JobHasDocument'
  BY DEF JobHasDocument, JobMoves, JobCreated, Exists
<1>2. BusyHasMessage'
  BY DEF BusyHasMessage
<1>3. \A w \in Workers, j \in Jobs : Owns(w, j)' <=> Owns(w, j)
  BY DEF Owns, JobOf
<1>4. OwnedJobClaimed'
  BY <1>3 DEF OwnedJobClaimed, JobMoves, JobCreated
<1>5. SingleOwner'
  BY <1>3 DEF SingleOwner
<1>6. ProcessingHasOwner'
  BY <1>3 DEF ProcessingHasOwner, JobMoves, JobCreated
<1>7. QED
  BY <1>1, <1>2, <1>4, <1>5, <1>6

\* A worker that claims a job becomes its only owner; any other step of a worker gives
\* a job to nobody.
LEMMA WorkersKeepOwnership ==
    ASSUME TypeOK, Ownership, NEW w \in Workers, WorkerChange(w)
    PROVE  Ownership'
<1> DEFINE k == JobOf(w)
<1>1. /\ worker' \in WorkerRecords
      /\ worker'[w].pc # "idle" => worker'[w].msg \in Messages
      /\ \A v \in Workers \ {w} : worker'[v] = worker[v]
      /\ abandoned \subseteq abandoned'
      /\ jobs \in [Jobs -> Job]
  BY DEF WorkerChange, TypeOK, StoreTypeOK
<1>2. BusyHasMessage'
  BY <1>1 DEF Ownership, BusyHasMessage
<1>3. \A v \in Workers \ {w}, j \in Jobs : Owns(v, j)' <=> Owns(v, j)
  BY <1>1 DEF Owns, JobOf
<1>4. CASE ClaimsJob(w)
  <2>1. \A j \in Jobs : Owns(w, j)' => j = k
    BY <1>4 DEF ClaimsJob, Owns, JobOf
  <2>2. \A j \in Jobs : j = k => Owns(w, j)'
    BY <1>4 DEF ClaimsJob, Owns, JobOf, Owning
  <2>3. /\ \A j \in Jobs : jobs'[j].document_id = jobs[j].document_id
        /\ \A j \in Jobs \ {k} : jobs'[j].status = jobs[j].status
        /\ k \in Jobs => jobs'[k].status = "processing"
    BY <1>1, <1>4 DEF ClaimsJob, Job
  <2>4. jobs[k].status = "queued"
    BY <1>4 DEF ClaimsJob
  <2>5. JobHasDocument'
    BY <2>3, <2>4 DEF Ownership, JobHasDocument
  <2>6. \A v \in Workers, j \in Jobs : Owns(v, j) => j # k
    BY <2>4 DEF Ownership, OwnedJobClaimed
  <2>7. OwnedJobClaimed'
    BY <1>3, <2>1, <2>3, <2>6 DEF Ownership, OwnedJobClaimed
  <2>8. SingleOwner'
    BY <1>3, <2>1, <2>6 DEF Ownership, SingleOwner
  <2>9. ProcessingHasOwner'
    <3> SUFFICES ASSUME NEW j \in Jobs, jobs'[j].status = "processing", j \notin abandoned'
                 PROVE  \E v \in Workers : Owns(v, j)'
      BY DEF ProcessingHasOwner
    <3>1. CASE j = k
      BY <2>2, <3>1
    <3>2. CASE j # k
      <4>1. PICK v \in Workers : Owns(v, j)
        BY <1>1, <2>3, <3>2 DEF Ownership, ProcessingHasOwner
      <4>2. v # w
        BY <1>4, <3>2, <4>1 DEF ClaimsJob, Owns
      <4>3. QED
        BY <1>3, <4>1, <4>2
    <3>3. QED
      BY <3>1, <3>2
  <2>10. QED
    BY <1>2, <2>5, <2>7, <2>8, <2>9 DEF Ownership
<1>5. CASE KeepsJob(w)
  <2>1. \A j \in Jobs : Owns(w, j)' => Owns(w, j)
    BY <1>5 DEF KeepsJob, Owns, JobOf
  <2>2. \A v \in Workers, j \in Jobs : Owns(v, j)' => Owns(v, j)
    BY <1>3, <2>1
  <2>3. \A j \in Jobs : JobMoves(j)
    BY <1>5 DEF KeepsJob
  <2>4. JobHasDocument'
    BY <2>3 DEF Ownership, JobHasDocument, JobMoves, Exists
  <2>5. OwnedJobClaimed'
    BY <2>2, <2>3 DEF Ownership, OwnedJobClaimed, JobMoves
  <2>6. SingleOwner'
    BY <2>2 DEF Ownership, SingleOwner
  <2>7. ProcessingHasOwner'
    <3> SUFFICES ASSUME NEW j \in Jobs, jobs'[j].status = "processing", j \notin abandoned'
                 PROVE  \E v \in Workers : Owns(v, j)'
      BY DEF ProcessingHasOwner
    <3>1. jobs[j].status = "processing" /\ j \notin abandoned
      BY <1>1, <2>3 DEF JobMoves
    <3>2. PICK v \in Workers : Owns(v, j)
      BY <3>1 DEF Ownership, ProcessingHasOwner
    <3>3. CASE v # w
      BY <1>3, <3>2, <3>3
    <3>4. CASE v = w
      <4>1. worker'[w].pc \in Owning
        BY <1>5, <3>2, <3>4 DEF KeepsJob, Owns
      <4>2. worker'[w].msg = worker[w].msg
        BY <1>5, <4>1 DEF KeepsJob
      <4>3. Owns(w, j)'
        BY <3>2, <3>4, <4>1, <4>2 DEF Owns, JobOf
      <4>4. QED
        BY <4>3
    <3>5. QED
      BY <3>3, <3>4
  <2>8. QED
    BY <1>2, <2>4, <2>5, <2>6, <2>7 DEF Ownership
<1>6. QED
  BY <1>4, <1>5 DEF WorkerChange

\* An upload creates its job once and settles it at most.
LEMMA UploadJobs ==
    ASSUME TypeOK, NotInsertedYet, UploadStep
    PROVE  /\ abandoned \subseteq abandoned'
           /\ \A j \in Jobs : JobMoves(j) \/ JobCreated(j)
           /\ NotInsertedYet'
<1> DEFINE Early == {"off", "find", "put", "insertDoc", "insertJob"}
           Kept == /\ abandoned \subseteq abandoned'
                   /\ \A j \in Jobs : JobMoves(j) \/ JobCreated(j)
                   /\ NotInsertedYet'
<1>y. /\ jobs \in [Jobs -> Job]
      /\ uploads \in [Docs -> Upload]
      /\ UploadTypeOK
      /\ Docs \subseteq Jobs
  BY BoundsAssumption DEF TypeOK, StoreTypeOK, UploadTypeOK, Docs, Jobs
<1>k. ASSUME jobs' = jobs, abandoned \subseteq abandoned', NEW d \in Docs,
             NEW pc \in UploadState, UploadMoved(d, pc), pc \in Early => uploads[d].pc \in Early
      PROVE  Kept
  BY <1>k, JobsKept DEF UploadMoved, NotInsertedYet
<1>g. \A d \in Docs, pc \in UploadState : Goto(d, pc) => UploadMoved(d, pc)
  BY <1>y, UploadGoes
<1> USE DEF NoFault
<1>1. ASSUME NEW d \in Docs, NEW c \in Contents, StartUpload(d, c) PROVE Kept
  <2>1. UploadMoved(d, "find") /\ "find" \in UploadState
    BY <1>1, <1>y, UploadStarts DEF UploadState
  <2>2. QED
    BY <1>1, <1>k, <2>1 DEF StartUpload
<1>2. ASSUME NEW d \in Docs, FindPredecessor(d) PROVE Kept
  <2>1. UploadMoved(d, "put") /\ "put" \in UploadState
    BY <1>2, PredecessorFound DEF UploadState
  <2>2. QED
    BY <1>2, <1>k, <2>1 DEF FindPredecessor
<1>3. ASSUME NEW d \in Docs, PutFile(d) PROVE Kept
  <2>1. UploadMoved(d, "insertDoc") /\ "insertDoc" \in UploadState
    BY <1>3, <1>g DEF PutFile, UploadState
  <2>2. QED
    BY <1>3, <1>k, <2>1 DEF PutFile
<1>4. ASSUME NEW d \in Docs, InsertDocument(d) PROVE Kept
  <2>1. UploadMoved(d, "insertJob") /\ "insertJob" \in UploadState
    BY <1>4, <1>g DEF InsertDocument, UploadState
  <2>2. QED
    BY <1>4, <1>k, <2>1 DEF InsertDocument
<1>5. ASSUME NEW d \in Docs, InsertUploadJob(d) PROVE Kept
  <2>1. UploadMoved(d, "send")
    BY <1>5, <1>g DEF InsertUploadJob, UploadState
  <2>2. jobs[d].status = "absent" /\ d \in Jobs
    BY <1>5, <1>y DEF InsertUploadJob, NotInsertedYet
  <2>3. /\ jobs'[d].status = "queued"
        /\ jobs'[d].document_id = d
        /\ \A j \in Jobs \ {d} : jobs'[j] = jobs[j]
    BY <1>5, <1>y, <2>2, JobInserted DEF InsertUploadJob
  <2>4. \A j \in Jobs : JobMoves(j) \/ JobCreated(j)
    BY <2>2, <2>3 DEF JobMoves, JobCreated
  <2>5. NotInsertedYet'
    BY <1>y, <2>1, <2>3 DEF NotInsertedYet, UploadMoved
  <2>6. QED
    BY <1>5, <2>4, <2>5 DEF InsertUploadJob
<1>6. ASSUME NEW d \in Docs, SendUploadMessage(d) \/ LoseUploadMessage(d) PROVE Kept
  <2>1. UploadMoved(d, "accepted") /\ "accepted" \in UploadState
    BY <1>6, <1>g DEF SendUploadMessage, LoseUploadMessage, UploadState
  <2>2. jobs' = jobs /\ abandoned \subseteq abandoned'
    BY <1>6 DEF SendUploadMessage, LoseUploadMessage
  <2>3. QED
    BY <1>k, <2>1, <2>2
<1>7. ASSUME NEW d \in Docs, UndoFile(d) PROVE Kept
  <2>1. PICK pc \in {"rejected", "undoDoc"} : UploadMoved(d, pc)
    BY <1>7, <1>g DEF UndoFile, UploadState
  <2>2. pc \in UploadState /\ pc \notin Early
    BY DEF UploadState
  <2>3. QED
    BY <1>7, <1>k, <2>1, <2>2 DEF UndoFile
<1>8. ASSUME NEW d \in Docs, UndoDocument(d) PROVE Kept
  <2>1. UploadMoved(d, "rejected") /\ "rejected" \in UploadState
    BY <1>8, <1>g DEF UndoDocument, UploadState
  <2>2. QED
    BY <1>8, <1>k, <2>1 DEF UndoDocument
<1>9. ASSUME NEW d \in Docs, FailUploadedDocument(d) PROVE Kept
  <2>1. UploadMoved(d, "failJob") /\ "failJob" \in UploadState
    BY <1>9, <1>g DEF FailUploadedDocument, UploadState
  <2>2. QED
    BY <1>9, <1>k, <2>1 DEF FailUploadedDocument
<1>10. ASSUME NEW d \in Docs, FailUploadedJob(d) PROVE Kept
  <2>1. UploadMoved(d, "rejected")
    BY <1>10, <1>g DEF FailUploadedJob, UploadState
  <2>2. \A j \in Jobs : JobMoves(j)
    BY <1>10, <1>y, JobIsSettled DEF FailUploadedJob
  <2>3. \A j \in Jobs : jobs[j].status = "absent" => jobs'[j].status = "absent"
    BY <2>2 DEF JobMoves, Exists
  <2>4. NotInsertedYet'
    BY <1>y, <2>1, <2>3 DEF NotInsertedYet, UploadMoved
  <2>5. QED
    BY <1>10, <2>2, <2>4 DEF FailUploadedJob
<1>11. ASSUME NEW d \in Docs, UploadCallRaises(d) PROVE Kept
  <2> DEFINE pc == AfterUploadError(uploads[d].pc)
  <2>1. pc \in UploadState /\ pc \notin Early
    BY DEF AfterUploadError, UploadState
  <2>2. UploadMoved(d, pc)
    BY <1>11, <1>g, <2>1 DEF UploadCallRaises
  <2>3. jobs' = jobs /\ abandoned \subseteq abandoned'
    BY <1>11 DEF UploadCallRaises
  <2> HIDE DEF pc
  <2>4. QED
    BY <1>k, <2>1, <2>2, <2>3
<1>12. ASSUME NEW d \in Docs, UploadCrashes(d) PROVE Kept
  <2>1. UploadMoved(d, "crashed") /\ "crashed" \in UploadState
    BY <1>12, <1>g DEF UploadCrashes, UploadState
  <2>2. QED
    BY <1>12, <1>k, <2>1 DEF UploadCrashes
<1>13. QED
  BY <1>1, <1>2, <1>3, <1>4, <1>5, <1>6, <1>7, <1>8, <1>9, <1>10, <1>11, <1>12
     DEF UploadStep, UploadProceeds

\* Delete and reindex requests create or settle jobs, and never the job of an upload
\* that is not there yet.
LEMMA AdminJobs ==
    ASSUME TypeOK, ReindexInOrder, DeletionStep \/ ReindexStep
    PROVE  /\ abandoned \subseteq abandoned'
           /\ \A j \in Jobs : JobMoves(j) \/ JobCreated(j)
           /\ \A j \in Docs : jobs[j].status = "absent" => jobs'[j].status = "absent"
<1> DEFINE Kept ==
             /\ abandoned \subseteq abandoned'
             /\ \A j \in Jobs : JobMoves(j) \/ JobCreated(j)
             /\ \A j \in Docs : jobs[j].status = "absent" => jobs'[j].status = "absent"
<1>y. /\ jobs \in [Jobs -> Job]
      /\ reindex \in [Reindexers -> ReindexRecord]
      /\ Docs \subseteq Jobs
  BY BoundsAssumption DEF TypeOK, StoreTypeOK, AdminTypeOK, ReindexRecord, Docs, Jobs
<1>k. ASSUME jobs' = jobs, abandoned \subseteq abandoned' PROVE Kept
  BY <1>k, JobsKept
<1>m. ASSUME \A j \in Jobs : JobMoves(j), abandoned \subseteq abandoned' PROVE Kept
  BY <1>y, <1>m DEF JobMoves, Exists
<1> USE DEF NoFault
<1>1. ASSUME NEW d \in Deletable, DeleteJobs(d) PROVE Kept
  <2>1. ASSUME NEW j \in Jobs PROVE JobMoves(j)
    <3>1. CASE j \in JobsOf(d)
      <4>1. jobs'[j] = [jobs[j] EXCEPT !.status = "deleted"] /\ Exists(jobs[j])
        BY <1>1, <3>1 DEF DeleteJobs, JobsOf
      <4>2. \A job \in Job : /\ [job EXCEPT !.status = "deleted"].status = "deleted"
                             /\ [job EXCEPT !.status = "deleted"].document_id = job.document_id
        BY DEF Job
      <4>3. QED
        BY <1>y, <4>1, <4>2 DEF JobMoves
    <3>2. CASE j \notin JobsOf(d)
      BY <1>1, <3>2 DEF DeleteJobs, JobMoves
    <3>3. QED
      BY <3>1, <3>2
  <2>2. QED
    BY <1>1, <1>m, <2>1 DEF DeleteJobs
<1>2. ASSUME DeletionStep, \A d \in Deletable : ~DeleteJobs(d) PROVE Kept
  <2>1. jobs' = jobs /\ abandoned \subseteq abandoned'
    BY <1>2 DEF DeletionStep, StartDeletion, DeleteVectors, DeleteDocument, DeletionFails
  <2>2. QED
    BY <1>k, <2>1
<1>3. ASSUME NEW r \in Reindexers, InsertReindexJob(r) PROVE Kept
  <2>1. PICK d \in reindex[r].todo, k \in Jobs \ Docs :
          jobs[k].status = "absent" /\ jobs' = InsertJob(k, d)
    BY <1>3 DEF InsertReindexJob
  <2>2. d \in Docs
    BY <1>y DEF ReindexRecord
  <2>3. /\ jobs'[k].status = "queued"
        /\ jobs'[k].document_id = d
        /\ \A j \in Jobs \ {k} : jobs'[j] = jobs[j]
    BY <1>y, <2>1, <2>2, JobInserted
  <2>4. \A j \in Jobs : JobMoves(j) \/ JobCreated(j)
    BY <2>1, <2>2, <2>3 DEF JobMoves, JobCreated
  <2>5. QED
    BY <1>3, <1>y, <2>1, <2>3, <2>4 DEF InsertReindexJob
<1>4. ASSUME NEW r \in Reindexers, FailReindexJob(r) PROVE Kept
  <2>1. reindex[r].queued \in Seq(Docs \X Jobs) /\ reindex[r].queued # <<>>
    BY <1>4, <1>y DEF FailReindexJob, ReindexAt, ReindexInOrder, InOrder, ReindexRecord
  <2>2. Head(reindex[r].queued)[2] \in Jobs
    BY <2>1
  <2>3. \A j \in Jobs : JobMoves(j)
    BY <1>4, <1>y, <2>2, JobIsSettled DEF FailReindexJob
  <2>4. QED
    BY <1>4, <1>m, <2>3 DEF FailReindexJob
<1>5. ASSUME NEW r \in Reindexers,
             \/ StartReindex(r) \/ WipeNamespace(r) \/ FindReady(r) \/ PointDocument(r)
             \/ SendReindexMessage(r) \/ FinishReindex(r) \/ ReindexSendRaises(r)
             \/ FailReindexDocument(r) \/ ReindexFails(r)
      PROVE  Kept
  <2>1. jobs' = jobs /\ abandoned \subseteq abandoned'
    BY <1>5 DEF StartReindex, WipeNamespace, FindReady, PointDocument, SendReindexMessage,
                FinishReindex, ReindexSendRaises, FailReindexDocument, ReindexFails
  <2>2. QED
    BY <1>k, <2>1
<1>6. QED
  BY <1>1, <1>2, <1>3, <1>4, <1>5 DEF ReindexStep

\* The sweep changes the status of no job.
LEMMA SweepJobs ==
    ASSUME TypeOK, SweepStep
    PROVE  /\ abandoned \subseteq abandoned'
           /\ \A j \in Jobs : JobMoves(j)
<1> DEFINE Kept == abandoned \subseteq abandoned' /\ \A j \in Jobs : JobMoves(j)
<1>1. ASSUME NEW s \in Sweeps, CountRetry(s) PROVE Kept
  <2> DEFINE k == sweeps[s].current
             n == jobs[k].retry_count + 1
  <2>1. jobs' = jobs \/ jobs' = [jobs EXCEPT ![k].retry_count = n]
    BY <1>1 DEF CountRetry
  <2>2. jobs \in [Jobs -> Job]
    BY DEF TypeOK, StoreTypeOK
  <2> HIDE DEF k, n
  <2>3. \A j \in Jobs : JobMoves(j)
    BY <2>1, <2>2 DEF JobMoves, Job
  <2>4. QED
    BY <1>1, <2>3 DEF CountRetry, NoFault
<1>2. ASSUME NEW s \in Sweeps,
             \/ ReadFailedJobs(s) \/ FindSweptDocument(s) \/ SendSweptMessage(s)
             \/ FinishSweep(s) \/ SweepFails(s)
      PROVE  Kept
  BY <1>2, JobsKept DEF ReadFailedJobs, FindSweptDocument, SendSweptMessage, FinishSweep,
                        SweepFails, NoFault
<1>3. QED
  BY <1>1, <1>2 DEF SweepStep, SweepProceeds

-----------------------------------------------------------------------------
(* The invariant and what follows from it. *)

\* The invariant holds before the first request.
LEMMA InitialInvariant ==
    ASSUME Init
    PROVE  IInv
<1>1. StoreTypeOK
  <2>1. docs \in [Docs -> Document]
    BY DEF Init, StoreInit, NoDocument, Document, Status
  <2>2. jobs \in [Jobs -> Job]
    BY DEF Init, StoreInit, NoJob, Job, Status
  <2>3. broker \in [Messages -> [state : MessageState, receives : 0..MAX_RECEIVE_COUNT]]
    BY DEF Init, StoreInit, MessageState, MAX_RECEIVE_COUNT
  <2>4. QED
    BY <2>1, <2>2, <2>3, BoundsAssumption DEF Init, StoreInit, StoreTypeOK
<1>2. UploadTypeOK
  BY DEF Init, UploadInit, UploadTypeOK, Upload, UploadState
<1>3. WorkerTypeOK
  BY IdleTyped DEF Init, WorkerInit, WorkerTypeOK
<1>4. NoReindex.pc = "off" /\ NoReindex \in ReindexRecord
  BY DEF NoReindex, ReindexRecord, ReindexState, Pair
<1>5. AdminTypeOK
  BY <1>4 DEF Init, AdminInit, AdminTypeOK, ReindexRecord, DeletionState
<1>6. SweepTypeOK
  BY DEF Init, SweepInit, SweepTypeOK
<1>7. ReindexInOrder
  BY <1>4 DEF Init, AdminInit, ReindexInOrder, InOrder
<1>8. \A j \in Jobs : jobs[j].status = "absent"
  BY DEF Init, StoreInit, NoJob
<1>9. \A w \in Workers : worker[w].pc = "idle"
  BY DEF Init, WorkerInit, Idle
<1>10. \A w \in Workers, j \in Jobs : ~Owns(w, j)
  BY <1>9 DEF Owns, Owning
<1>11. Docs \subseteq Jobs
  BY BoundsAssumption DEF Docs, Jobs
<1>12. JobHasDocument /\ NotInsertedYet /\ ProcessingHasOwner
  BY <1>8, <1>11 DEF JobHasDocument, NotInsertedYet, ProcessingHasOwner
<1>13. BusyHasMessage /\ OwnedJobClaimed /\ SingleOwner
  BY <1>9, <1>10 DEF BusyHasMessage, OwnedJobClaimed, SingleOwner
<1>14. QED
  BY <1>1, <1>2, <1>3, <1>5, <1>6, <1>7, <1>12, <1>13 DEF IInv, TypeOK

\* Every step of every process preserves it.
LEMMA InvariantPreserved ==
    ASSUME IInv, [Next]_vars
    PROVE  IInv'
<1>y. TypeOK /\ Ownership /\ NotInsertedYet /\ ReindexInOrder
  BY DEF IInv, Ownership
<1>i. TypeOK' /\ Ownership' /\ NotInsertedYet' /\ ReindexInOrder' => IInv'
  BY DEF IInv, Ownership
<1>d. Docs \subseteq Jobs
  BY BoundsAssumption DEF Docs, Jobs
<1>1. CASE UploadStep /\ UNCHANGED <<worker, deletions, reindex, sweeps>>
  <2>1. TypeOK'
    BY <1>y, <1>1, UploadTyped DEF TypeOK, WorkerTypeOK, AdminTypeOK, SweepTypeOK
  <2>2. Ownership' /\ NotInsertedYet'
    BY <1>y, <1>1, UploadJobs, OthersKeepOwnership
  <2>3. ReindexInOrder'
    BY <1>y, <1>1 DEF ReindexInOrder
  <2>4. QED
    BY <1>i, <2>1, <2>2, <2>3
<1>2. CASE BrokerStep /\ UNCHANGED <<uploads, worker, deletions, reindex, sweeps>>
  <2>1. TypeOK'
    BY <1>y, <1>2, BrokerTyped DEF TypeOK, UploadTypeOK, WorkerTypeOK, AdminTypeOK, SweepTypeOK
  <2>2. jobs' = jobs /\ abandoned' = abandoned
    BY <1>2 DEF BrokerStep, Redeliver, CommitOffset
  <2>3. Ownership'
    BY <1>y, <1>2, <2>2, JobsKept, OthersKeepOwnership
  <2>4. NotInsertedYet' /\ ReindexInOrder'
    BY <1>y, <1>2, <2>2 DEF NotInsertedYet, ReindexInOrder
  <2>5. QED
    BY <1>i, <2>1, <2>3, <2>4
<1>3. CASE WorkerStep /\ UNCHANGED <<uploads, deletions, reindex, sweeps>>
  <2>1. PICK w \in Workers : WorkerProceeds(w) \/ WorkerFails(w)
    BY <1>3 DEF WorkerStep
  <2>2. WorkerChange(w)
    BY <1>y, <2>1, WorkerSteps DEF Ownership
  <2>3. TypeOK'
    BY <1>y, <1>3, <2>2
       DEF WorkerChange, WorkerRecords, TypeOK, UploadTypeOK, WorkerTypeOK, AdminTypeOK, SweepTypeOK
  <2>4. Ownership'
    BY <1>y, <2>2, WorkersKeepOwnership
  <2>5. \A j \in Jobs : jobs[j].status = "absent" => jobs'[j].status = "absent"
    <3>1. CASE ClaimsJob(w)
      BY <1>y, <3>1 DEF ClaimsJob, TypeOK, StoreTypeOK, Job
    <3>2. CASE KeepsJob(w)
      BY <3>2 DEF KeepsJob, JobMoves, Exists
    <3>3. QED
      BY <2>2, <3>1, <3>2 DEF WorkerChange
  <2>6. NotInsertedYet' /\ ReindexInOrder'
    BY <1>y, <1>d, <1>3, <2>5 DEF NotInsertedYet, ReindexInOrder
  <2>7. QED
    BY <1>i, <2>3, <2>4, <2>6
<1>4. CASE DeletionStep /\ UNCHANGED <<uploads, worker, sweeps>>
  <2>1. TypeOK'
    BY <1>y, <1>4, DeletionTyped DEF TypeOK, UploadTypeOK, WorkerTypeOK, SweepTypeOK
  <2>2. /\ abandoned \subseteq abandoned'
        /\ \A j \in Jobs : JobMoves(j) \/ JobCreated(j)
        /\ \A j \in Docs : jobs[j].status = "absent" => jobs'[j].status = "absent"
    BY <1>y, <1>4, AdminJobs
  <2>3. Ownership'
    BY <1>y, <1>4, <2>2, OthersKeepOwnership
  <2>4. reindex' = reindex
    BY <1>4 DEF DeletionStep, StartDeletion, DeleteVectors, DeleteJobs, DeleteDocument,
                DeletionFails
  <2>5. NotInsertedYet' /\ ReindexInOrder'
    BY <1>y, <1>4, <2>2, <2>4 DEF NotInsertedYet, ReindexInOrder
  <2>6. QED
    BY <1>i, <2>1, <2>3, <2>5
<1>5. CASE ReindexStep /\ UNCHANGED <<uploads, worker, sweeps>>
  <2>1. TypeOK' /\ ReindexInOrder'
    BY <1>y, <1>5, ReindexTyped DEF TypeOK, UploadTypeOK, WorkerTypeOK, SweepTypeOK
  <2>2. /\ abandoned \subseteq abandoned'
        /\ \A j \in Jobs : JobMoves(j) \/ JobCreated(j)
        /\ \A j \in Docs : jobs[j].status = "absent" => jobs'[j].status = "absent"
    BY <1>y, <1>5, AdminJobs
  <2>3. Ownership'
    BY <1>y, <1>5, <2>2, OthersKeepOwnership
  <2>4. NotInsertedYet'
    BY <1>y, <1>5, <2>2 DEF NotInsertedYet
  <2>5. QED
    BY <1>i, <2>1, <2>3, <2>4
<1>6. CASE SweepStep /\ UNCHANGED <<uploads, worker, deletions, reindex>>
  <2>1. TypeOK'
    BY <1>y, <1>6, SweepTyped DEF TypeOK, UploadTypeOK, WorkerTypeOK, AdminTypeOK
  <2>2. abandoned \subseteq abandoned' /\ \A j \in Jobs : JobMoves(j)
    BY <1>y, <1>6, SweepJobs
  <2>3. Ownership'
    BY <1>y, <1>6, <2>2, OthersKeepOwnership
  <2>4. NotInsertedYet' /\ ReindexInOrder'
    BY <1>y, <1>d, <1>6, <2>2 DEF NotInsertedYet, ReindexInOrder, JobMoves, Exists
  <2>5. QED
    BY <1>i, <2>1, <2>3, <2>4
<1>7. CASE UNCHANGED vars
  <2>1. TypeOK'
    BY <1>y, <1>7 DEF vars, TypeOK, StoreTypeOK, UploadTypeOK, WorkerTypeOK, AdminTypeOK,
                      SweepTypeOK
  <2>2. Ownership'
    BY <1>y, <1>7, JobsKept, OthersKeepOwnership DEF vars
  <2>3. NotInsertedYet' /\ ReindexInOrder'
    BY <1>y, <1>7 DEF vars, NotInsertedYet, ReindexInOrder
  <2>4. QED
    BY <1>i, <2>1, <2>2, <2>3
<1>8. QED
  BY <1>1, <1>2, <1>3, <1>4, <1>5, <1>6, <1>7 DEF Next

\* The inductive invariant holds in every reachable state.
THEOREM IngestionInvariant == Spec => []IInv
<1>1. Init => IInv
  BY InitialInvariant
<1>2. IInv /\ [Next]_vars => IInv'
  BY InvariantPreserved
<1>3. QED
  BY <1>1, <1>2, PTL DEF Spec

\* Every reachable state has the declared types.
THEOREM TypesHold == Spec => []TypeOK
<1>1. IInv => TypeOK
  BY DEF IInv
<1>2. QED
  BY <1>1, IngestionInvariant, PTL

\* However often a message is delivered, and whatever fails, a job has one owner.
THEOREM JobHasOneOwner == Spec => []SingleOwner
<1>1. IInv => SingleOwner
  BY DEF IInv
<1>2. QED
  BY <1>1, IngestionInvariant, PTL

\* A job stays in "processing" without a worker only if a failure left it there.
THEOREM ProcessingIsOwned == Spec => []ProcessingHasOwner
<1>1. IInv => ProcessingHasOwner
  BY DEF IInv
<1>2. QED
  BY <1>1, IngestionInvariant, PTL

-----------------------------------------------------------------------------
(* No message is acknowledged while its job is queued, on SQS.  A message  *)
(* is sent for a job that exists, so what a worker saw of a job stays      *)
(* true: a job leaves "queued" for good.  On Kafka the offset of a message *)
(* whose claim raised is committed by the next poll.                       *)

\* Messages are about jobs that were inserted.
SentHasJob ==
    \A m \in Messages : broker[m].state # "unsent" => jobs[m[1]].status # "absent"

NoOffsets == \A m \in Messages : broker[m].state # "handled"

\* Where a worker does not know yet that its job is no longer queued.
Unsettled == {"idle", "claim", "giveUpDoc", "giveUpJob"}

SeenJob ==
    \A w \in Workers :
       /\ worker[w].pc # "idle" => jobs[JobOf(w)].status # "absent"
       /\ worker[w].pc \notin Unsettled =>
             jobs[JobOf(w)].status # "queued" \/ JobOf(w) \in abandoned

UploadHasJob == \A d \in Docs : uploads[d].pc = "send" => jobs[d].status # "absent"

\* The jobs a reindex request answers for.
JobsIn(pairs) == {p[2] : p \in pairs} \ {None}
UnsentOf(q) == JobsIn(ToSet(q.queued) \cup {q.current})

ReindexHasJobs ==
    \A r \in Reindexers :
       /\ \A j \in UnsentOf(reindex[r]) : jobs[j].status # "absent"
       /\ reindex[r].pc # "pointDoc" => reindex[r].current = <<None, None>>

SweepHasJob ==
    \A s \in Sweeps :
       /\ \A j \in sweeps[s].todo : jobs[j].status # "absent"
       /\ sweeps[s].pc = "send" =>
             sweeps[s].current \in Jobs /\ jobs[sweeps[s].current].status # "absent"

MessageInvariant ==
    /\ IInv
    /\ SentHasJob
    /\ NoOffsets
    /\ SeenJob
    /\ UploadHasJob
    /\ ReindexHasJobs
    /\ SweepHasJob
    /\ QueuedJobHasMessage

-----------------------------------------------------------------------------
(* What every step does to messages and jobs. *)

\* A job is queued only by its insertion, by whoever will send its message.
JobPersists(j) ==
    /\ jobs'[j].status = "absent" => jobs[j].status = "absent"
    /\ jobs'[j].status = "queued" =>
          jobs[j].status = "queued" \/ (jobs[j].status = "absent" /\ WillSend(j)')

BrokerKeeps ==
    \A m \in Messages :
       /\ broker'[m].state # "unsent" =>
             broker[m].state # "unsent" \/ jobs[m[1]].status # "absent"
       /\ broker'[m].state # "handled"
       /\ InBroker(m) => InBroker(m)' \/ jobs[m[1]].status # "queued" \/ m[1] \in abandoned

Sent(j) == \E m \in Messages : m[1] = j /\ InBroker(m)

\* Whoever stops being about to send has sent, failed the job or left it behind.
SendersKeep ==
    \A j \in Jobs :
       WillSend(j) => \/ WillSend(j)' \/ jobs'[j].status # "queued"
                      \/ j \in abandoned' \/ Sent(j)'

Delivers ==
    /\ abandoned \subseteq abandoned'
    /\ \A j \in Jobs : JobPersists(j)
    /\ BrokerKeeps
    /\ SendersKeep

\* A delivery keeps every job that is sent or queued tied to its message.
LEMMA DeliveryKeepsMessages ==
    ASSUME SentHasJob, QueuedJobHasMessage, Delivers
    PROVE  SentHasJob' /\ NoOffsets' /\ QueuedJobHasMessage'
<1>1. \A m \in Messages : m[1] \in Jobs
  BY DEF Messages
<1>2. SentHasJob' /\ NoOffsets'
  BY <1>1 DEF Delivers, BrokerKeeps, JobPersists, SentHasJob, NoOffsets
<1>3. QueuedJobHasMessage'
  <2> SUFFICES ASSUME NEW j \in Jobs, jobs'[j].status = "queued"
               PROVE  j \in abandoned' \/ WillSend(j)' \/ Sent(j)'
    BY DEF QueuedJobHasMessage, Sent
  <2>1. CASE WillSend(j)
    BY <2>1 DEF Delivers, SendersKeep
  <2>2. CASE ~WillSend(j)
    <3>1. CASE jobs[j].status = "absent"
      BY <3>1 DEF Delivers, JobPersists
    <3>2. CASE jobs[j].status # "absent"
      <4>1. jobs[j].status = "queued"
        BY <3>2 DEF Delivers, JobPersists
      <4>2. CASE j \in abandoned
        BY <4>2 DEF Delivers
      <4>3. CASE j \notin abandoned
        <5>1. PICK m \in Messages : m[1] = j /\ InBroker(m)
          BY <2>2, <4>1, <4>3 DEF QueuedJobHasMessage
        <5>2. InBroker(m)'
          BY <4>1, <4>3, <5>1 DEF Delivers, BrokerKeeps
        <5> QED BY <5>1, <5>2 DEF Sent
      <4> QED BY <4>2, <4>3
    <3> QED BY <3>1, <3>2
  <2> QED BY <2>1, <2>2
<1> QED BY <1>2, <1>3

\* What the processes know of jobs stays true while they do nothing.
LEMMA KnowledgeStays ==
    ASSUME TypeOK, BusyHasMessage, abandoned \subseteq abandoned',
           \A j \in Jobs : JobPersists(j)
    PROVE  /\ SeenJob /\ worker' = worker => SeenJob'
           /\ UploadHasJob /\ uploads' = uploads => UploadHasJob'
           /\ ReindexHasJobs /\ reindex' = reindex => ReindexHasJobs'
           /\ SweepHasJob /\ sweeps' = sweeps => SweepHasJob'
<1>1. ASSUME SeenJob, worker' = worker PROVE SeenJob'
  <2> SUFFICES ASSUME NEW w \in Workers, worker[w].pc # "idle"
               PROVE  /\ jobs'[JobOf(w)].status # "absent"
                      /\ worker[w].pc \notin Unsettled =>
                            jobs'[JobOf(w)].status # "queued" \/ JobOf(w) \in abandoned'
    BY <1>1 DEF SeenJob, JobOf, Unsettled
  <2>1. JobOf(w) \in Jobs
    BY DEF BusyHasMessage, JobOf, Messages
  <2> QED BY <1>1, <2>1 DEF SeenJob, JobPersists
<1>2. ASSUME UploadHasJob, uploads' = uploads PROVE UploadHasJob'
  <2>1. Docs \subseteq Jobs
    BY BoundsAssumption DEF Docs, Jobs
  <2> QED BY <1>2, <2>1 DEF UploadHasJob, JobPersists
<1>3. ASSUME ReindexHasJobs, reindex' = reindex PROVE ReindexHasJobs'
  <2>1. \A r \in Reindexers : UnsentOf(reindex[r]) \subseteq Jobs
    BY UnsentAreJobs DEF Unsent, UnsentOf, JobsIn
  <2> QED BY <1>3, <2>1 DEF ReindexHasJobs, JobPersists
<1>4. ASSUME SweepHasJob, sweeps' = sweeps PROVE SweepHasJob'
  <2>1. \A s \in Sweeps : sweeps[s].todo \subseteq Jobs
    BY DEF TypeOK, SweepTypeOK
  <2> QED BY <1>4, <2>1 DEF SweepHasJob, JobPersists
<1> QED BY <1>1, <1>2, <1>3, <1>4

\* A send, successful or not, takes no message away.
LEMMA SendsKeep ==
    ASSUME broker \in BrokerContents, NoOffsets, Backend = "sqs", NEW m \in Messages,
           jobs[m[1]].status # "absent"
    PROVE  /\ broker' = broker => BrokerKeeps
           /\ broker' = Enqueued(m) => BrokerKeeps /\ Sent(m[1])'
           /\ broker' \in EnqueuedDespiteError(m) => BrokerKeeps
<1>1. ASSUME broker' = broker PROVE BrokerKeeps
  BY <1>1 DEF BrokerKeeps, NoOffsets, InBroker
<1>2. ASSUME broker' = Enqueued(m) PROVE BrokerKeeps /\ Sent(m[1])'
  <2>1. /\ broker'[m].state = "visible"
        /\ \A n \in Messages \ {m} : broker'[n] = broker[n]
    BY <1>2 DEF Enqueued, BrokerContents
  <2>2. BrokerKeeps
    BY <2>1 DEF BrokerKeeps, NoOffsets, InBroker
  <2>3. Sent(m[1])'
    BY <2>1 DEF Sent, InBroker
  <2> QED BY <2>2, <2>3
<1>3. ASSUME broker' \in EnqueuedDespiteError(m) PROVE BrokerKeeps
  <2>1. broker' = broker \/ broker' = Enqueued(m)
    BY <1>3 DEF EnqueuedDespiteError
  <2> QED BY <1>1, <1>2, <2>1
<1> QED BY <1>1, <1>2, <1>3

\* The jobs and the broker left alone.
LEMMA NothingSent ==
    ASSUME NoOffsets, jobs' = jobs, broker' = broker
    PROVE  BrokerKeeps /\ \A j \in Jobs : JobPersists(j)
  BY DEF BrokerKeeps, NoOffsets, InBroker, JobPersists

\* A status set to a final one.
LEMMA SettlingPersists ==
    ASSUME jobs \in [Jobs -> Job], NEW k \in Jobs, NEW s \in {"ready", "failed", "deleted"},
           jobs' = SetJobStatus(k, s)
    PROVE  (\A j \in Jobs : JobPersists(j)) /\ jobs'[k].status # "queued"
<1>1. CASE Exists(jobs[k])
  <2>1. jobs'[k].status = s /\ \A j \in Jobs \ {k} : jobs'[j] = jobs[j]
    BY <1>1 DEF SetJobStatus, Job, Status
  <2> QED BY <2>1 DEF JobPersists
<1>2. CASE ~Exists(jobs[k])
  BY <1>2 DEF SetJobStatus, JobPersists, Exists
<1> QED BY <1>1, <1>2


\* An upload sends the message of the job it inserted, or fails the job.
LEMMA UploadDelivers ==
    ASSUME TypeOK, NotInsertedYet, UploadHasJob, NoOffsets, Backend = "sqs",
           UploadStep, reindex' = reindex
    PROVE  Delivers /\ UploadHasJob'
<1> DEFINE Sending == {"send", "failDoc", "failJob"}
           Kept == Delivers /\ UploadHasJob'
<1>y. /\ jobs \in [Jobs -> Job]
      /\ broker \in BrokerContents
      /\ UploadTypeOK
      /\ Docs \subseteq Jobs
  BY BoundsAssumption DEF TypeOK, StoreTypeOK, BrokerContents, Docs, Jobs
<1>m. \A d \in Docs : <<d, 0>> \in Messages
  BY <1>y, BoundsAssumption DEF Messages
<1>g. \A d \in Docs, pc \in UploadState : Goto(d, pc) => UploadMoved(d, pc)
  BY <1>y, UploadGoes
<1>w. ASSUME NEW d \in Docs, NEW pc \in UploadState, UploadMoved(d, pc),
             \/ uploads[d].pc \notin Sending \/ pc \in Sending
             \/ jobs'[d].status # "queued" \/ d \in abandoned' \/ Sent(d)'
      PROVE  SendersKeep
  BY <1>w DEF UploadMoved, SendersKeep, WillSend, Unsent
<1>u. ASSUME NEW d \in Docs, NEW pc \in UploadState, UploadMoved(d, pc),
             \A j \in Jobs : JobPersists(j), pc = "send" => jobs'[d].status # "absent"
      PROVE  UploadHasJob'
  BY <1>u, <1>y DEF UploadMoved, UploadHasJob, JobPersists
<1>k. ASSUME jobs' = jobs, broker' = broker, abandoned \subseteq abandoned', NEW d \in Docs,
             NEW pc \in UploadState \ {"send"}, UploadMoved(d, pc),
             uploads[d].pc \notin Sending \/ pc \in Sending \/ d \in abandoned'
      PROVE  Kept
  <2>1. BrokerKeeps /\ \A j \in Jobs : JobPersists(j)
    BY <1>k, NothingSent
  <2> QED BY <1>k, <1>w, <1>u, <2>1 DEF Delivers
<1> USE DEF NoFault
<1>1. ASSUME NEW d \in Docs, NEW c \in Contents, StartUpload(d, c) PROVE Kept
  <2>1. UploadMoved(d, "find") /\ "find" \in UploadState
    BY <1>1, <1>y, UploadStarts DEF UploadState
  <2> QED BY <1>1, <1>k, <2>1 DEF StartUpload
<1>2. ASSUME NEW d \in Docs, FindPredecessor(d) PROVE Kept
  <2>1. UploadMoved(d, "put") /\ "put" \in UploadState
    BY <1>2, PredecessorFound DEF UploadState
  <2> QED BY <1>2, <1>k, <2>1 DEF FindPredecessor
<1>3. ASSUME NEW d \in Docs, PutFile(d) PROVE Kept
  <2>1. UploadMoved(d, "insertDoc") /\ "insertDoc" \in UploadState
    BY <1>3, <1>g DEF PutFile, UploadState
  <2> QED BY <1>3, <1>k, <2>1 DEF PutFile
<1>4. ASSUME NEW d \in Docs, InsertDocument(d) PROVE Kept
  <2>1. UploadMoved(d, "insertJob") /\ "insertJob" \in UploadState
    BY <1>4, <1>g DEF InsertDocument, UploadState
  <2> QED BY <1>4, <1>k, <2>1 DEF InsertDocument
<1>5. ASSUME NEW d \in Docs, InsertUploadJob(d) PROVE Kept
  <2>1. UploadMoved(d, "send") /\ "send" \in UploadState
    BY <1>5, <1>g DEF InsertUploadJob, UploadState
  <2>2. jobs[d].status = "absent" /\ d \in Jobs
    BY <1>5, <1>y DEF InsertUploadJob, NotInsertedYet
  <2>3. jobs'[d].status = "queued" /\ \A j \in Jobs \ {d} : jobs'[j] = jobs[j]
    BY <1>5, <1>y, <2>2, JobInserted DEF InsertUploadJob
  <2>4. \A j \in Jobs : JobPersists(j)
    BY <2>1, <2>2, <2>3 DEF JobPersists, WillSend, UploadMoved
  <2>5. BrokerKeeps
    BY <1>5 DEF InsertUploadJob, BrokerKeeps, NoOffsets, InBroker
  <2>6. SendersKeep /\ UploadHasJob'
    BY <1>w, <1>u, <2>1, <2>3, <2>4
  <2> QED BY <1>5, <2>4, <2>5, <2>6 DEF InsertUploadJob, Delivers
<1>6. ASSUME NEW d \in Docs, SendUploadMessage(d) PROVE Kept
  <2>1. UploadMoved(d, "accepted") /\ "accepted" \in UploadState
    BY <1>6, <1>g DEF SendUploadMessage, UploadState
  <2>2. jobs[d].status # "absent"
    BY <1>6 DEF SendUploadMessage, UploadHasJob
  <2>3. BrokerKeeps /\ Sent(d)'
    BY <1>6, <1>y, <1>m, <2>2, SendsKeep DEF SendUploadMessage, UploadMessage
  <2>4. \A j \in Jobs : JobPersists(j)
    BY <1>6 DEF SendUploadMessage, JobPersists
  <2>5. SendersKeep /\ UploadHasJob'
    BY <1>w, <1>u, <2>1, <2>3, <2>4
  <2> QED BY <1>6, <2>3, <2>4, <2>5 DEF SendUploadMessage, Delivers
<1>7. ASSUME NEW d \in Docs, UndoFile(d) PROVE Kept
  <2>1. PICK pc \in {"rejected", "undoDoc"} : UploadMoved(d, pc)
    BY <1>7, <1>g DEF UndoFile, UploadState
  <2>2. pc \in UploadState \ {"send"} /\ uploads[d].pc \notin Sending
    BY <1>7 DEF UndoFile, UploadState
  <2> QED BY <1>7, <1>k, <2>1, <2>2 DEF UndoFile
<1>8. ASSUME NEW d \in Docs, UndoDocument(d) PROVE Kept
  <2>1. UploadMoved(d, "rejected") /\ "rejected" \in UploadState
    BY <1>8, <1>g DEF UndoDocument, UploadState
  <2> QED BY <1>8, <1>k, <2>1 DEF UndoDocument
<1>9. ASSUME NEW d \in Docs, FailUploadedDocument(d) PROVE Kept
  <2>1. UploadMoved(d, "failJob") /\ "failJob" \in UploadState
    BY <1>9, <1>g DEF FailUploadedDocument, UploadState
  <2> QED BY <1>9, <1>k, <2>1 DEF FailUploadedDocument
<1>10. ASSUME NEW d \in Docs, FailUploadedJob(d) PROVE Kept
  <2>1. UploadMoved(d, "rejected") /\ "rejected" \in UploadState
    BY <1>10, <1>g DEF FailUploadedJob, UploadState
  <2>2. (\A j \in Jobs : JobPersists(j)) /\ jobs'[d].status # "queued"
    BY <1>10, <1>y, SettlingPersists DEF FailUploadedJob
  <2>3. BrokerKeeps
    BY <1>10 DEF FailUploadedJob, BrokerKeeps, NoOffsets, InBroker
  <2>4. SendersKeep /\ UploadHasJob'
    BY <1>w, <1>u, <2>1, <2>2
  <2> QED BY <1>10, <2>2, <2>3, <2>4 DEF FailUploadedJob, Delivers
<1>11. ASSUME NEW d \in Docs, UploadCallRaises(d) PROVE Kept
  <2> DEFINE pc == AfterUploadError(uploads[d].pc)
  <2>1. /\ pc \in UploadState \ {"send"}
        /\ uploads[d].pc \notin Sending \/ pc \in Sending \/ d \in abandoned'
    BY <1>11 DEF UploadCallRaises, AfterUploadError, UploadState, Compensating
  <2>2. UploadMoved(d, pc)
    BY <1>11, <1>g, <2>1 DEF UploadCallRaises
  <2>3. jobs' = jobs /\ abandoned \subseteq abandoned'
    BY <1>11 DEF UploadCallRaises
  <2> HIDE DEF pc
  <2>4. CASE broker' = broker
    BY <1>k, <2>1, <2>2, <2>3, <2>4
  <2>5. CASE uploads[d].pc = "send" /\ broker' \in EnqueuedDespiteError(<<d, 0>>)
    <3>1. jobs[d].status # "absent"
      BY <2>5 DEF UploadHasJob
    <3>2. BrokerKeeps
      BY <1>y, <1>m, <2>5, <3>1, SendsKeep
    <3>3. \A j \in Jobs : JobPersists(j)
      BY <2>3 DEF JobPersists
    <3>4. SendersKeep /\ UploadHasJob'
      BY <1>w, <1>u, <2>1, <2>2, <3>3
    <3> QED BY <2>3, <3>2, <3>3, <3>4 DEF Delivers
  <2> QED BY <1>11, <2>4, <2>5 DEF UploadCallRaises, UploadMessage
<1>12. ASSUME NEW d \in Docs, UploadCrashes(d) PROVE Kept
  <2>1. UploadMoved(d, "crashed") /\ "crashed" \in UploadState
    BY <1>12, <1>g DEF UploadCrashes, UploadState
  <2> QED BY <1>12, <1>k, <2>1 DEF UploadCrashes
<1>13. \A d \in Docs : ~LoseUploadMessage(d)
  BY DEF LoseUploadMessage, MayLoseSilently
<1> QED
  BY <1>1, <1>2, <1>3, <1>4, <1>5, <1>6, <1>7, <1>8, <1>9, <1>10, <1>11, <1>12, <1>13
     DEF UploadStep, UploadProceeds

\* A message that is redelivered was in the broker; SQS has no offsets to commit.
LEMMA BrokerDelivers ==
    ASSUME TypeOK, NoOffsets, BrokerStep, uploads' = uploads, reindex' = reindex
    PROVE  Delivers
<1>1. PICK m \in Messages : Redeliver(m)
  BY DEF BrokerStep, CommitOffset, NoOffsets
<1>2. /\ broker[m].state = "hidden"
      /\ broker'[m].state = "visible"
      /\ \A n \in Messages \ {m} : broker'[n] = broker[n]
  BY <1>1 DEF Redeliver, NoOffsets, TypeOK, StoreTypeOK
<1>3. BrokerKeeps
  BY <1>2 DEF BrokerKeeps, NoOffsets, InBroker
<1>4. \A j \in Jobs : JobPersists(j)
  BY <1>1 DEF Redeliver, JobPersists
<1>5. SendersKeep
  BY DEF SendersKeep, WillSend, Unsent
<1> QED BY <1>1, <1>3, <1>4, <1>5 DEF Redeliver, Delivers

\* A delete request takes jobs away, messages never.
LEMMA DeletionDelivers ==
    ASSUME TypeOK, NoOffsets, DeletionStep, uploads' = uploads
    PROVE  Delivers /\ reindex' = reindex
<1>1. broker' = broker /\ reindex' = reindex /\ abandoned \subseteq abandoned'
  BY DEF DeletionStep, StartDeletion, DeleteVectors, DeleteJobs, DeleteDocument,
         DeletionFails, NoFault
<1>2. SendersKeep
  BY <1>1 DEF SendersKeep, WillSend, Unsent
<1>3. BrokerKeeps
  BY <1>1 DEF BrokerKeeps, NoOffsets, InBroker
<1>4. ASSUME NEW j \in Jobs PROVE JobPersists(j)
  <2>1. CASE jobs' = jobs
    BY <2>1 DEF JobPersists
  <2>2. ASSUME NEW d \in Deletable, DeleteJobs(d) PROVE JobPersists(j)
    <3>1. \A job \in Job : [job EXCEPT !.status = "deleted"].status = "deleted"
      BY DEF Job
    <3>2. jobs[j] \in Job
      BY DEF TypeOK, StoreTypeOK
    <3>3. jobs'[j] = jobs[j] \/ jobs'[j] = [jobs[j] EXCEPT !.status = "deleted"]
      BY <2>2 DEF DeleteJobs
    <3> QED BY <3>1, <3>2, <3>3 DEF JobPersists
  <2> QED BY <2>1, <2>2 DEF DeletionStep, StartDeletion, DeleteVectors, DeleteDocument,
                            DeletionFails
<1> QED BY <1>1, <1>2, <1>3, <1>4 DEF Delivers

\* A sweep sends again messages of jobs that exist.
LEMMA SweepDelivers ==
    ASSUME TypeOK, SweepHasJob, NoOffsets, Backend = "sqs", SweepStep,
           uploads' = uploads, reindex' = reindex
    PROVE  Delivers /\ SweepHasJob'
<1> DEFINE Kept == Delivers /\ SweepHasJob'
           SendsInserted(s) == \/ sweeps'[s].pc # "send"
                          \/ /\ sweeps'[s].current \in Jobs
                             /\ jobs[sweeps'[s].current].status # "absent"
<1>y. /\ jobs \in [Jobs -> Job]
      /\ broker \in BrokerContents
      /\ sweeps \in SweepRecords
  BY DEF TypeOK, StoreTypeOK, BrokerContents, SweepTypeOK, SweepRecords
<1>s. SendersKeep
  BY DEF SendersKeep, WillSend, Unsent
<1>p. (\A j \in Jobs : jobs'[j].status = jobs[j].status) => \A j \in Jobs : JobPersists(j)
  BY DEF JobPersists
<1>b. broker' = broker => BrokerKeeps
  BY DEF BrokerKeeps, NoOffsets, InBroker
<1>k. ASSUME NEW s \in Sweeps, \A t \in Sweeps \ {s} : sweeps'[t] = sweeps[t],
             sweeps'[s].todo \in SUBSET Jobs, SendsInserted(s),
             \A j \in sweeps'[s].todo : jobs[j].status # "absent",
             \A j \in Jobs : jobs'[j].status = jobs[j].status
      PROVE  SweepHasJob'
  <2>1. ASSUME NEW t \in Sweeps, t # s
        PROVE  /\ \A j \in sweeps'[t].todo : jobs'[j].status # "absent"
               /\ sweeps'[t].pc = "send" =>
                     sweeps'[t].current \in Jobs /\ jobs'[sweeps'[t].current].status # "absent"
    <3>1. sweeps[t].todo \in SUBSET Jobs /\ sweeps'[t] = sweeps[t]
      BY <1>k, <1>y, <2>1 DEF SweepRecords
    <3> QED BY <1>k, <3>1 DEF SweepHasJob
  <2>2. /\ \A j \in sweeps'[s].todo : jobs'[j].status # "absent"
        /\ sweeps'[s].pc = "send" =>
              sweeps'[s].current \in Jobs /\ jobs'[sweeps'[s].current].status # "absent"
    BY <1>k
  <2> QED BY <2>1, <2>2 DEF SweepHasJob
<1> USE DEF NoFault
<1>1. ASSUME NEW s \in Sweeps, ReadFailedJobs(s) PROVE Kept
  <2>1. /\ sweeps'[s].pc = "find"
        /\ sweeps'[s].todo = Retriable
        /\ \A t \in Sweeps \ {s} : sweeps'[t] = sweeps[t]
    BY <1>1, <1>y DEF ReadFailedJobs, SweepRecords
  <2>2. jobs' = jobs /\ broker' = broker
    BY <1>1 DEF ReadFailedJobs
  <2>3. SweepHasJob'
    BY <1>k, <2>1, <2>2 DEF Retriable
  <2> QED BY <1>1, <1>s, <1>p, <1>b, <2>2, <2>3 DEF ReadFailedJobs, Delivers
<1>2. ASSUME NEW s \in Sweeps, FindSweptDocument(s) PROVE Kept
  <2>1. PICK j \in sweeps[s].todo :
          sweeps' = [sweeps EXCEPT
                       ![s].todo = @ \ {j},
                       ![s].current = j,
                       ![s].pc = IF Exists(docs[jobs[j].document_id]) THEN "send" ELSE "find"]
    BY <1>2 DEF FindSweptDocument
  <2> DEFINE old == sweeps[s]
             next == IF Exists(docs[jobs[j].document_id]) THEN "send" ELSE "find"
             left == [old EXCEPT !.todo = @ \ {j}]
             chosen == [left EXCEPT !.current = j]
             q == [chosen EXCEPT !.pc = next]
             R == [pc : {"off", "find", "send", "count", "done"},
                   todo : SUBSET Jobs, current : Jobs \cup {None}]
  <2>2. sweeps' = [sweeps EXCEPT ![s] = q]
    BY <2>1
  <2>3. old \in R /\ j \in Jobs /\ jobs[j].status # "absent"
    BY <1>y DEF SweepRecords, SweepHasJob
  <2>4. left \in R /\ left.todo = old.todo \ {j}
    BY <2>3
  <2> HIDE DEF left
  <2>5. chosen \in R /\ chosen.todo = left.todo /\ chosen.current = j
    BY <2>3, <2>4
  <2> HIDE DEF chosen
  <2>6. next \in {"send", "find"}
    OBVIOUS
  <2> HIDE DEF next
  <2>7. q \in R /\ q.todo = chosen.todo /\ q.current = chosen.current
    BY <2>5, <2>6
  <2> HIDE DEF q
  <2>8. sweeps'[s] = q /\ \A t \in Sweeps \ {s} : sweeps'[t] = sweeps[t]
    BY <1>y, <2>2 DEF SweepRecords
  <2>9. /\ sweeps'[s].todo = old.todo \ {j}
        /\ sweeps'[s].current = j
    BY <2>4, <2>5, <2>7, <2>8
  <2>10. jobs' = jobs /\ broker' = broker
    BY <1>2 DEF FindSweptDocument
  <2>11. SweepHasJob'
    BY <1>k, <2>3, <2>8, <2>9, <2>10 DEF SweepHasJob
  <2> QED BY <1>2, <1>s, <1>p, <1>b, <2>10, <2>11 DEF FindSweptDocument, Delivers
<1>m. ASSUME NEW s \in Sweeps, NEW pc \in {"find", "count", "done"},
             sweeps' = [sweeps EXCEPT ![s].pc = pc],
             \A j \in Jobs : jobs'[j].status = jobs[j].status
      PROVE  SweepHasJob'
  <2>1. /\ sweeps'[s].pc = pc
        /\ sweeps'[s].todo = sweeps[s].todo
        /\ sweeps[s].todo \in SUBSET Jobs
        /\ \A t \in Sweeps \ {s} : sweeps'[t] = sweeps[t]
    BY <1>m, <1>y DEF SweepRecords
  <2> QED BY <1>k, <1>m, <2>1 DEF SweepHasJob
<1>e. ASSUME NEW s \in Sweeps, sweeps[s].pc = "send"
      PROVE  /\ broker' = Enqueued(<<sweeps[s].current, s>>) => BrokerKeeps
             /\ broker' \in EnqueuedDespiteError(<<sweeps[s].current, s>>) => BrokerKeeps
  <2> DEFINE m == <<sweeps[s].current, s>>
  <2>1. m \in Messages /\ jobs[m[1]].status # "absent"
    BY <1>e, BoundsAssumption DEF SweepHasJob, Messages, Sweeps
  <2> HIDE DEF m
  <2>2. /\ broker' = Enqueued(m) => BrokerKeeps
        /\ broker' \in EnqueuedDespiteError(m) => BrokerKeeps
    BY <1>y, <2>1, SendsKeep
  <2> QED BY <2>2 DEF m
<1>3. ASSUME NEW s \in Sweeps, SendSweptMessage(s) PROVE Kept
  <2>1. SweepHasJob'
    BY <1>3, <1>m DEF SendSweptMessage
  <2>2. BrokerKeeps
    BY <1>3, <1>e DEF SendSweptMessage, MayLoseSilently
  <2> QED BY <1>3, <1>s, <1>p, <2>1, <2>2 DEF SendSweptMessage, Delivers
<1>4. ASSUME NEW s \in Sweeps, CountRetry(s) PROVE Kept
  <2> DEFINE k == sweeps[s].current
             n == jobs[k].retry_count + 1
  <2>1. jobs' = jobs \/ jobs' = [jobs EXCEPT ![k].retry_count = n]
    BY <1>4 DEF CountRetry
  <2> HIDE DEF k, n
  <2>2. \A j \in Jobs : jobs'[j].status = jobs[j].status
    BY <1>y, <2>1 DEF Job
  <2>3. SweepHasJob'
    BY <1>4, <1>m, <2>2 DEF CountRetry
  <2> QED BY <1>4, <1>s, <1>p, <1>b, <2>2, <2>3 DEF CountRetry, Delivers
<1>5. ASSUME NEW s \in Sweeps, FinishSweep(s) PROVE Kept
  <2>1. SweepHasJob'
    BY <1>5, <1>m DEF FinishSweep
  <2> QED BY <1>5, <1>s, <1>p, <1>b, <2>1 DEF FinishSweep, Delivers
<1>6. ASSUME NEW s \in Sweeps, SweepFails(s) PROVE Kept
  <2>1. SweepHasJob'
    BY <1>6, <1>m DEF SweepFails
  <2>2. BrokerKeeps
    BY <1>6, <1>e, <1>b DEF SweepFails
  <2> QED BY <1>6, <1>s, <1>p, <2>1, <2>2 DEF SweepFails, Delivers
<1> QED
  BY <1>1, <1>2, <1>3, <1>4, <1>5, <1>6 DEF SweepStep, SweepProceeds

\* The elements of a sequence one of which comes or goes.
LEMMA ElementsAppended ==
    ASSUME NEW S, NEW s \in Seq(S), NEW e \in S
    PROVE  ToSet(Append(s, e)) = ToSet(s) \cup {e}
<1> DEFINE a == Append(s, e)
<1>1. /\ a \in Seq(S) /\ Len(a) = Len(s) + 1
      /\ \A i \in 1..Len(s) : a[i] = s[i]
      /\ a[Len(s) + 1] = e
  BY AppendProperties
<1>2. DOMAIN a = 1..Len(a) /\ DOMAIN s = 1..Len(s) /\ Len(s) \in Nat
  BY <1>1
<1> HIDE DEF a
<1>3. \A x \in ToSet(a) : x \in ToSet(s) \cup {e}
  BY <1>1, <1>2 DEF ToSet
<1>4. \A x \in ToSet(s) : x \in ToSet(a)
  BY <1>1, <1>2 DEF ToSet
<1>5. e \in ToSet(a)
  BY <1>1, <1>2 DEF ToSet
<1> QED BY <1>3, <1>4, <1>5 DEF a

\* The elements of a sequence are its head and those of its tail.
LEMMA ElementsOfTail ==
    ASSUME NEW S, NEW s \in Seq(S), s # <<>>
    PROVE  Head(s) \in S /\ ToSet(s) = ToSet(Tail(s)) \cup {Head(s)}
<1> DEFINE t == Tail(s)
<1>1. /\ t \in Seq(S) /\ Len(t) = Len(s) - 1
      /\ \A i \in 1..Len(t) : t[i] = s[i + 1]
      /\ Head(s) \in S
      /\ Head(s) = s[1]
  BY HeadTailProperties
<1>2. /\ DOMAIN t = 1..Len(t) /\ DOMAIN s = 1..Len(s)
      /\ Len(s) \in Nat \ {0} /\ Len(t) \in Nat
  BY <1>1
<1> HIDE DEF t
<1>3. \A x \in ToSet(s) : x \in ToSet(t) \cup {Head(s)}
  <2> SUFFICES ASSUME NEW i \in 1..Len(s), i # 1 PROVE s[i] \in ToSet(t)
    BY <1>1, <1>2 DEF ToSet
  <2>1. i - 1 \in 1..Len(t) /\ s[i] = t[i - 1]
    BY <1>1, <1>2
  <2> QED BY <1>2, <2>1 DEF ToSet
<1>4. \A x \in ToSet(t) : x \in ToSet(s)
  <2> SUFFICES ASSUME NEW i \in 1..Len(t) PROVE t[i] \in ToSet(s)
    BY <1>2 DEF ToSet
  <2>1. i + 1 \in 1..Len(s) /\ t[i] = s[i + 1]
    BY <1>1, <1>2
  <2> QED BY <1>2, <2>1 DEF ToSet
<1>5. Head(s) \in ToSet(s)
  BY <1>1, <1>2 DEF ToSet
<1> QED BY <1>1, <1>3, <1>4, <1>5 DEF t

\* What the updates of a request do to the jobs it answers for.
LEMMA UnsentChanges ==
    ASSUME NEW q \in ReindexRecord, NEW p \in ReindexRecord
    PROVE  /\ UnsentOf(q) \subseteq Jobs
           /\ q.current = p.current /\ q.queued = p.queued => UnsentOf(p) = UnsentOf(q)
           /\ \A e \in Docs \X Jobs :
                 (q.queued = p.queued /\ p.current = e /\ q.current = <<None, None>>) =>
                    UnsentOf(p) = UnsentOf(q) \cup {e[2]}
           /\ (p.queued = Append(q.queued, q.current) /\ p.current = <<None, None>>
               /\ q.current \in Docs \X Jobs) =>
                    UnsentOf(p) = UnsentOf(q)
           /\ (q.queued # <<>> /\ p.queued = Tail(q.queued) /\ p.current = q.current) =>
                 /\ Head(q.queued)[2] \in UnsentOf(q)
                 /\ UnsentOf(q) = UnsentOf(p) \cup {Head(q.queued)[2]}
<1> DEFINE S == Docs \X Jobs
<1>1. /\ q.queued \in Seq(S) /\ p.queued \in Seq(S)
      /\ q.current \in Pair /\ p.current \in Pair
  BY DEF ReindexRecord
<1>2. ToSet(q.queued) \subseteq S /\ ToSet(p.queued) \subseteq S
  BY <1>1 DEF ToSet
<1>3. \A x \in S : x[2] \in Jobs /\ x[2] # None
  BY BoundsAssumption DEF Jobs, None
<1>4. \A T, U : JobsIn(T \cup U) = JobsIn(T) \cup JobsIn(U)
  BY DEF JobsIn
<1>5. /\ UnsentOf(q) = JobsIn(ToSet(q.queued)) \cup JobsIn({q.current})
      /\ UnsentOf(p) = JobsIn(ToSet(p.queued)) \cup JobsIn({p.current})
  BY <1>4 DEF UnsentOf
<1>6. \A x \in S : JobsIn({x}) = {x[2]}
  BY <1>3 DEF JobsIn
<1>7. JobsIn({<<None, None>>}) = {}
  BY DEF JobsIn
<1>8. UnsentOf(q) \subseteq Jobs
  BY <1>1, <1>5, <1>2, <1>3 DEF Pair, JobsIn
<1>9. q.current = p.current /\ q.queued = p.queued => UnsentOf(p) = UnsentOf(q)
  BY <1>5
<1>10. ASSUME NEW e \in S, q.queued = p.queued, p.current = e, q.current = <<None, None>>
       PROVE  UnsentOf(p) = UnsentOf(q) \cup {e[2]}
  <2>1. JobsIn({e}) = {e[2]}
    BY <1>6
  <2>2. /\ UnsentOf(q) = JobsIn(ToSet(q.queued)) \cup JobsIn({<<None, None>>})
        /\ UnsentOf(p) = JobsIn(ToSet(q.queued)) \cup JobsIn({e})
    BY <1>5, <1>10
  <2> HIDE DEF S
  <2> QED BY <1>7, <2>1, <2>2
<1>11. ASSUME p.queued = Append(q.queued, q.current), p.current = <<None, None>>,
              q.current \in S
       PROVE  UnsentOf(p) = UnsentOf(q)
  <2>1. ToSet(p.queued) = ToSet(q.queued) \cup {q.current}
    BY <1>1, <1>11, ElementsAppended
  <2>2. JobsIn(ToSet(p.queued)) = JobsIn(ToSet(q.queued)) \cup JobsIn({q.current})
    BY <1>4, <2>1
  <2>3. UnsentOf(p) = JobsIn(ToSet(p.queued)) \cup JobsIn({<<None, None>>})
    BY <1>5, <1>11
  <2> HIDE DEF S
  <2> QED BY <1>5, <1>7, <2>2, <2>3
<1>12. ASSUME q.queued # <<>>, p.queued = Tail(q.queued), p.current = q.current
       PROVE  /\ Head(q.queued)[2] \in UnsentOf(q)
              /\ UnsentOf(q) = UnsentOf(p) \cup {Head(q.queued)[2]}
  <2>1. /\ Head(q.queued) \in S
        /\ ToSet(q.queued) = ToSet(p.queued) \cup {Head(q.queued)}
    BY <1>1, <1>12, ElementsOfTail
  <2>2. JobsIn({Head(q.queued)}) = {Head(q.queued)[2]}
    BY <1>6, <2>1
  <2>3. JobsIn(ToSet(q.queued)) = JobsIn(ToSet(p.queued)) \cup JobsIn({Head(q.queued)})
    BY <1>4, <2>1
  <2>4. UnsentOf(p) = JobsIn(ToSet(p.queued)) \cup JobsIn({q.current})
    BY <1>5, <1>12
  <2> HIDE DEF S
  <2>5. UnsentOf(q) = UnsentOf(p) \cup {Head(q.queued)[2]}
    BY <1>5, <2>2, <2>3, <2>4
  <2> QED BY <2>5
<1> QED BY <1>8, <1>9, <1>10, <1>11, <1>12

\* A reindex request sends the messages of the jobs it inserted, or fails the jobs.
LEMMA ReindexDelivers ==
    ASSUME TypeOK, ReindexInOrder, ReindexHasJobs, NoOffsets, Backend = "sqs",
           ReindexStep, uploads' = uploads
    PROVE  Delivers /\ ReindexHasJobs'
<1> DEFINE Kept == Delivers /\ ReindexHasJobs'
           NoPair == <<None, None>>
           Unchanged(q, old) == q.current = old.current /\ q.queued = old.queued
<1>y. /\ jobs \in [Jobs -> Job]
      /\ broker \in BrokerContents
      /\ reindex \in [Reindexers -> ReindexRecord]
      /\ \A r \in Reindexers : Unsent(r) = UnsentOf(reindex[r])
      /\ \A r \in Reindexers : Unsent(r)' = UnsentOf(reindex'[r])
  BY DEF TypeOK, StoreTypeOK, BrokerContents, AdminTypeOK, ReindexRecord, Unsent, UnsentOf,
         JobsIn
<1>b. broker' = broker => BrokerKeeps
  BY DEF BrokerKeeps, NoOffsets, InBroker
<1>p. jobs' = jobs => \A j \in Jobs : JobPersists(j)
  BY DEF JobPersists
\* The request is at q, and what it no longer answers for is sent, failed or left behind.
<1>k. ASSUME NEW r \in Reindexers, NEW q \in ReindexRecord, reindex' = [reindex EXCEPT ![r] = q],
             \A j \in Jobs : JobPersists(j),
             q.pc # "pointDoc" => q.current = NoPair,
             \A j \in UnsentOf(q) : j \in UnsentOf(reindex[r]) \/ jobs'[j].status # "absent",
             \A j \in UnsentOf(reindex[r]) :
                j \in UnsentOf(q) \/ jobs'[j].status # "queued" \/ j \in abandoned' \/ Sent(j)'
      PROVE  SendersKeep /\ ReindexHasJobs'
  <2>1. reindex'[r] = q /\ \A s \in Reindexers \ {r} : reindex'[s] = reindex[s]
    BY <1>k, <1>y
  <2>2. SendersKeep
    <3> SUFFICES ASSUME NEW j \in Jobs, WillSend(j)
                 PROVE  WillSend(j)' \/ jobs'[j].status # "queued" \/ j \in abandoned' \/ Sent(j)'
      BY DEF SendersKeep
    <3>1. CASE j \in Docs /\ uploads[j].pc \in {"send", "failDoc", "failJob"}
      BY <3>1 DEF WillSend
    <3>2. ASSUME NEW s \in Reindexers, j \in Unsent(s)
          PROVE  WillSend(j)' \/ jobs'[j].status # "queued" \/ j \in abandoned' \/ Sent(j)'
      <4>1. CASE s # r
        BY <1>y, <2>1, <3>2, <4>1 DEF WillSend
      <4>2. CASE s = r
        BY <1>k, <1>y, <2>1, <3>2, <4>2 DEF WillSend
      <4> QED BY <4>1, <4>2
    <3> QED BY <3>1, <3>2 DEF WillSend
  <2>3. ReindexHasJobs'
    <3> SUFFICES ASSUME NEW s \in Reindexers
                 PROVE  /\ \A j \in UnsentOf(reindex'[s]) : jobs'[j].status # "absent"
                        /\ reindex'[s].pc # "pointDoc" => reindex'[s].current = <<None, None>>
      BY DEF ReindexHasJobs, UnsentOf, JobsIn
    <3>1. UnsentOf(reindex[s]) \subseteq Jobs /\ UnsentOf(q) \subseteq Jobs
      BY <1>y, UnsentChanges
    <3>2. \A j \in UnsentOf(reindex[s]) : jobs'[j].status # "absent"
      BY <1>k, <3>1 DEF ReindexHasJobs, JobPersists
    <3>3. CASE s # r
      BY <2>1, <3>2, <3>3 DEF ReindexHasJobs
    <3>4. CASE s = r
      BY <1>k, <2>1, <3>2, <3>4
    <3> QED BY <3>3, <3>4
  <2> QED BY <2>2, <2>3
\* Nothing changes but where the request is.
<1>s. ASSUME NEW r \in Reindexers, NEW q \in ReindexRecord, reindex' = [reindex EXCEPT ![r] = q],
             \A j \in Jobs : JobPersists(j), Unchanged(q, reindex[r]),
             q.pc # "pointDoc" => q.current = NoPair
      PROVE  SendersKeep /\ ReindexHasJobs'
  <2>1. reindex[r] \in ReindexRecord
    BY <1>y
  <2>2. UnsentOf(q) = UnsentOf(reindex[r])
    BY <1>s, <2>1, UnsentChanges
  <2> QED BY <1>k, <1>s, <2>2
<1>m. ASSUME NEW r \in Reindexers, NEW pc \in ReindexState \ {"pointDoc"},
             reindex' = [reindex EXCEPT ![r].pc = pc], reindex[r].pc # "pointDoc",
             \A j \in Jobs : JobPersists(j)
      PROVE  SendersKeep /\ ReindexHasJobs'
  <2> DEFINE old == reindex[r]
             q == [pc |-> pc, todo |-> old.todo, current |-> old.current, queued |-> old.queued]
  <2>1. old \in ReindexRecord /\ old.current = NoPair
    BY <1>m, <1>y DEF ReindexHasJobs
  <2>2. [old EXCEPT !.pc = pc] = q
    BY <2>1, RequestMoved
  <2>3. reindex' = [reindex EXCEPT ![r] = q]
    BY <1>m, <2>2
  <2>4. q \in ReindexRecord /\ Unchanged(q, old) /\ q.current = NoPair
    BY <2>1 DEF ReindexRecord
  <2> HIDE DEF q
  <2> QED BY <1>m, <1>s, <2>3, <2>4
<1>n. \A todo : NextStep(todo) \in ReindexState \ {"pointDoc"}
  BY DEF NextStep, ReindexState
<1> USE DEF NoFault, ReindexAt
<1>1. ASSUME NEW r \in Reindexers, StartReindex(r) PROVE Kept
  <2>1. SendersKeep /\ ReindexHasJobs'
    BY <1>1, <1>m, <1>p DEF StartReindex, ReindexState
  <2> QED BY <1>1, <1>b, <1>p, <2>1 DEF StartReindex, Delivers
<1>2. ASSUME NEW r \in Reindexers, WipeNamespace(r) PROVE Kept
  <2>1. SendersKeep /\ ReindexHasJobs'
    BY <1>2, <1>m, <1>p DEF WipeNamespace, ReindexState
  <2> QED BY <1>2, <1>b, <1>p, <2>1 DEF WipeNamespace, Delivers
<1>3. ASSUME NEW r \in Reindexers, FindReady(r) PROVE Kept
  <2> DEFINE ready == {d \in Docs : docs[d].status = "ready" /\ ~Archived(d)}
             old == reindex[r]
             next == NextStep(ready)
             q == [pc |-> next, todo |-> ready, current |-> old.current,
                   queued |-> old.queued]
  <2>1. old \in ReindexRecord /\ old.current = NoPair
    BY <1>3, <1>y DEF FindReady, ReindexHasJobs
  <2>2. reindex' = [reindex EXCEPT ![r] = [old EXCEPT !.todo = ready, !.pc = next]]
    BY <1>3 DEF FindReady
  <2>3. [old EXCEPT !.todo = ready, !.pc = next] = q
    BY <2>1, RequestFinds
  <2>4. q \in ReindexRecord /\ Unchanged(q, old) /\ q.current = NoPair
    BY <1>n, <2>1 DEF ReindexRecord
  <2> HIDE DEF q
  <2>5. reindex' = [reindex EXCEPT ![r] = q]
    BY <2>2, <2>3
  <2>6. jobs' = jobs /\ broker' = broker /\ abandoned' = abandoned
    BY <1>3 DEF FindReady
  <2>7. SendersKeep /\ ReindexHasJobs'
    BY <1>p, <1>s, <2>4, <2>5, <2>6
  <2> QED BY <1>b, <1>p, <2>6, <2>7 DEF Delivers
<1>4. ASSUME NEW r \in Reindexers, InsertReindexJob(r) PROVE Kept
  <2> DEFINE old == reindex[r]
  <2>1. old \in ReindexRecord /\ old.current = NoPair
    BY <1>4, <1>y DEF InsertReindexJob, ReindexHasJobs
  <2>2. PICK d \in old.todo, j \in Jobs \ Docs :
          /\ jobs[j].status = "absent"
          /\ jobs' = InsertJob(j, d)
          /\ reindex' = [reindex EXCEPT ![r].todo = @ \ {d}, ![r].current = <<d, j>>,
                                        ![r].pc = "pointDoc"]
    BY <1>4 DEF InsertReindexJob
  <2> DEFINE left == old.todo \ {d}
             cur == <<d, j>>
             q == [pc |-> "pointDoc", todo |-> left, current |-> cur, queued |-> old.queued]
  <2>3. d \in Docs /\ left \in SUBSET Docs /\ cur \in Docs \X Jobs /\ cur \in Pair /\ cur[2] = j
    BY <2>1 DEF ReindexRecord, Pair
  <2>4. reindex' = [reindex EXCEPT ![r] = [old EXCEPT !.todo = left, !.current = cur,
                                                      !.pc = "pointDoc"]]
    BY <2>2
  <2> HIDE DEF left, cur
  <2>5. [old EXCEPT !.todo = left, !.current = cur, !.pc = "pointDoc"] = q
    <3> DEFINE q1 == [pc |-> old.pc, todo |-> left, current |-> old.current,
                      queued |-> old.queued]
               q2 == [pc |-> old.pc, todo |-> left, current |-> cur, queued |-> old.queued]
    <3>1. [old EXCEPT !.todo = left] = q1
      BY <2>1 DEF ReindexRecord
    <3>2. [q1 EXCEPT !.current = cur] = q2
      OBVIOUS
    <3>3. [q2 EXCEPT !.pc = "pointDoc"] = q
      OBVIOUS
    <3> HIDE DEF old, q, q1, q2
    <3> QED BY <3>1, <3>2, <3>3
  <2>6. /\ q \in ReindexRecord
        /\ q.pc = "pointDoc" /\ q.current = cur /\ q.queued = old.queued
    BY <2>1, <2>3 DEF ReindexRecord, ReindexState
  <2> HIDE DEF q
  <2>7. reindex' = [reindex EXCEPT ![r] = q]
    BY <2>4, <2>5
  <2>8. UnsentOf(q) = UnsentOf(old) \cup {j}
    BY <2>1, <2>3, <2>6, UnsentChanges
  <2>9. jobs'[j].status = "queued" /\ \A i \in Jobs \ {j} : jobs'[i] = jobs[i]
    BY <1>y, <2>2, <2>3, JobInserted
  <2>10. WillSend(j)'
    BY <1>y, <2>7, <2>8 DEF WillSend
  <2>11. \A i \in Jobs : JobPersists(i)
    BY <2>2, <2>9, <2>10 DEF JobPersists
  <2>12. SendersKeep /\ ReindexHasJobs'
    BY <1>k, <2>6, <2>7, <2>8, <2>9, <2>11
  <2> QED BY <1>4, <1>b, <2>11, <2>12 DEF InsertReindexJob, Delivers
<1>5. ASSUME NEW r \in Reindexers, PointDocument(r) PROVE Kept
  <2> DEFINE old == reindex[r]
             cur == old.current
             longer == Append(old.queued, cur)
             next == NextStep(old.todo)
             none == <<None, None>>
             q == [pc |-> next, todo |-> old.todo, current |-> none, queued |-> longer]
  <2>1. old \in ReindexRecord /\ cur \in Docs \X Jobs
    BY <1>5, <1>y DEF PointDocument, ReindexInOrder, InOrder
  <2>2. /\ longer \in Seq(Docs \X Jobs)
        /\ none \in Pair
        /\ next \in ReindexState \ {"pointDoc"}
    BY <1>n, <2>1 DEF ReindexRecord, Pair
  <2>3. reindex' = [reindex EXCEPT ![r] = [old EXCEPT !.queued = longer, !.current = none,
                                                      !.pc = next]]
    BY <1>5 DEF PointDocument
  <2>4. longer = Append(old.queued, old.current) /\ none = <<None, None>>
    OBVIOUS
  <2> HIDE DEF longer, next, none
  <2>5. [old EXCEPT !.queued = longer, !.current = none, !.pc = next] = q
    <3> DEFINE q1 == [pc |-> old.pc, todo |-> old.todo, current |-> old.current,
                      queued |-> longer]
               q2 == [pc |-> old.pc, todo |-> old.todo, current |-> none, queued |-> longer]
    <3>1. [old EXCEPT !.queued = longer] = q1
      BY <2>1, RequestDequeues
    <3>2. [q1 EXCEPT !.current = none] = q2
      OBVIOUS
    <3>3. [q2 EXCEPT !.pc = next] = q
      OBVIOUS
    <3> HIDE DEF old, q, q1, q2
    <3> QED BY <3>1, <3>2, <3>3
  <2>6. q \in ReindexRecord /\ q.current = none /\ q.queued = longer
    BY <2>1, <2>2 DEF ReindexRecord
  <2> HIDE DEF q
  <2>7. reindex' = [reindex EXCEPT ![r] = q]
    BY <2>3, <2>5
  <2>8. UnsentOf(q) = UnsentOf(old)
    BY <2>1, <2>6, <2>4, UnsentChanges
  <2>9. jobs' = jobs /\ broker' = broker /\ abandoned' = abandoned
    BY <1>5 DEF PointDocument
  <2>10. SendersKeep /\ ReindexHasJobs'
    BY <1>k, <1>p, <2>6, <2>7, <2>8, <2>9, <2>4
  <2> QED BY <1>b, <1>p, <2>9, <2>10 DEF Delivers
<1>h. ASSUME NEW r \in Reindexers, reindex[r].queued # <<>>
      PROVE  /\ Head(reindex[r].queued)[2] \in Jobs
             /\ jobs[Head(reindex[r].queued)[2]].status # "absent"
  <2>1. reindex[r].queued \in Seq(Docs \X Jobs)
    BY <1>y DEF ReindexRecord
  <2>2. Head(reindex[r].queued) \in Docs \X Jobs
    BY <1>h, <2>1
  <2> DEFINE q == [pc |-> reindex[r].pc, todo |-> reindex[r].todo,
                   current |-> reindex[r].current, queued |-> Tail(reindex[r].queued)]
  <2>3. q \in ReindexRecord /\ reindex[r] \in ReindexRecord
    BY <1>h, <1>y, <2>1 DEF ReindexRecord
  <2>4. q.queued = Tail(reindex[r].queued) /\ q.current = reindex[r].current
    OBVIOUS
  <2> HIDE DEF q
  <2>5. Head(reindex[r].queued)[2] \in UnsentOf(reindex[r])
    BY <1>h, <2>3, <2>4, UnsentChanges
  <2> QED BY <2>2, <2>5 DEF ReindexHasJobs
<1>6. ASSUME NEW r \in Reindexers, SendReindexMessage(r) PROVE Kept
  <2> DEFINE old == reindex[r]
             rest == Tail(old.queued)
             q == [pc |-> old.pc, todo |-> old.todo, current |-> old.current, queued |-> rest]
  <2>1. old \in ReindexRecord /\ old.queued # <<>> /\ old.current = NoPair
    BY <1>6, <1>y DEF SendReindexMessage, ReindexHasJobs
  <2>2. rest \in Seq(Docs \X Jobs)
    BY <2>1 DEF ReindexRecord
  <2>3. reindex' = [reindex EXCEPT ![r] = [old EXCEPT !.queued = rest]]
    BY <1>6 DEF SendReindexMessage
  <2>4. PICK job \in Jobs : job = Head(old.queued)[2] /\ jobs[job].status # "absent"
    BY <1>h, <2>1
  <2>5. ReindexMessage(r) \in Messages /\ ReindexMessage(r)[1] = job
    BY <2>4, BoundsAssumption DEF Messages, ReindexMessage
  <2>6. PICK m \in Messages : m = ReindexMessage(r) /\ m[1] = job
    BY <2>5
  <2>7. broker' = Enqueued(ReindexMessage(r)) /\ UNCHANGED <<faults, abandoned>>
    BY <1>6 DEF SendReindexMessage, MayLoseSilently
  <2>8. broker' = Enqueued(m) /\ UNCHANGED <<faults, abandoned>>
    BY <2>6, <2>7
  <2>9. rest = Tail(reindex[r].queued)
    OBVIOUS
  <2> HIDE DEF rest
  <2>10. BrokerKeeps /\ Sent(job)'
    BY <1>y, <2>4, <2>6, <2>8, SendsKeep
  <2>11. [old EXCEPT !.queued = rest] = q
    BY <2>1, RequestDequeues
  <2>12. q \in ReindexRecord /\ q.current = old.current /\ q.queued = rest
    BY <2>1, <2>2 DEF ReindexRecord
  <2> HIDE DEF q
  <2>13. reindex' = [reindex EXCEPT ![r] = q]
    BY <2>3, <2>11
  <2>14. UnsentOf(old) = UnsentOf(q) \cup {job}
    BY <2>1, <2>4, <2>9, <2>12, UnsentChanges
  <2>15. jobs' = jobs
    BY <1>6 DEF SendReindexMessage
  <2>16. SendersKeep /\ ReindexHasJobs'
    BY <1>k, <1>p, <2>1, <2>10, <2>12, <2>13, <2>14, <2>15
  <2> QED BY <1>p, <2>8, <2>10, <2>15, <2>16 DEF Delivers
<1>7. ASSUME NEW r \in Reindexers, FinishReindex(r) PROVE Kept
  <2>1. SendersKeep /\ ReindexHasJobs'
    BY <1>7, <1>m, <1>p DEF FinishReindex, ReindexState
  <2> QED BY <1>7, <1>b, <1>p, <2>1 DEF FinishReindex, Delivers
<1>8. ASSUME NEW r \in Reindexers, ReindexSendRaises(r) PROVE Kept
  <2> DEFINE m == ReindexMessage(r)
  <2>1. SendersKeep /\ ReindexHasJobs'
    BY <1>8, <1>m, <1>p DEF ReindexSendRaises, ReindexState
  <2>2. m \in Messages /\ jobs[m[1]].status # "absent"
    BY <1>8, <1>h, BoundsAssumption DEF ReindexSendRaises, ReindexMessage, Messages
  <2>3. broker' \in EnqueuedDespiteError(m)
    BY <1>8 DEF ReindexSendRaises
  <2> HIDE DEF m
  <2>4. BrokerKeeps
    BY <1>y, <2>2, <2>3, SendsKeep
  <2> QED BY <1>8, <1>p, <2>1, <2>4 DEF ReindexSendRaises, Delivers
<1>9. ASSUME NEW r \in Reindexers, FailReindexDocument(r) PROVE Kept
  <2>1. SendersKeep /\ ReindexHasJobs'
    BY <1>9, <1>m, <1>p DEF FailReindexDocument, ReindexState
  <2> QED BY <1>9, <1>b, <1>p, <2>1 DEF FailReindexDocument, Delivers
<1>10. ASSUME NEW r \in Reindexers, FailReindexJob(r) PROVE Kept
  <2> DEFINE old == reindex[r]
             rest == Tail(old.queued)
             job == Head(old.queued)[2]
             next == IF rest = <<>> THEN "aborted" ELSE "failDoc"
             q == [pc |-> next, todo |-> old.todo, current |-> old.current, queued |-> rest]
  <2>1. old \in ReindexRecord /\ old.queued # <<>> /\ old.current = NoPair
    BY <1>10, <1>y DEF FailReindexJob, ReindexInOrder, InOrder, ReindexHasJobs
  <2>2. rest \in Seq(Docs \X Jobs)
    BY <2>1 DEF ReindexRecord
  <2>3. next \in ReindexState
    BY DEF ReindexState
  <2>4. /\ reindex' = [reindex EXCEPT ![r] = [old EXCEPT !.queued = rest, !.pc = next]]
        /\ jobs' = SetJobStatus(job, "failed")
    BY <1>10 DEF FailReindexJob
  <2>5. job \in Jobs
    BY <1>h, <2>1
  <2>6. rest = Tail(reindex[r].queued) /\ job = Head(reindex[r].queued)[2]
    OBVIOUS
  <2> HIDE DEF rest, next, job
  <2>7. (\A j \in Jobs : JobPersists(j)) /\ jobs'[job].status # "queued"
    BY <1>y, <2>4, <2>5, SettlingPersists
  <2>8. [old EXCEPT !.queued = rest, !.pc = next] = q
    BY <2>1, RequestDequeuesAndMoves
  <2>9. q \in ReindexRecord /\ q.current = old.current /\ q.queued = rest
    BY <2>1, <2>2, <2>3 DEF ReindexRecord
  <2> HIDE DEF q
  <2>10. reindex' = [reindex EXCEPT ![r] = q]
    BY <2>4, <2>8
  <2>11. UnsentOf(old) = UnsentOf(q) \cup {job}
    BY <2>1, <2>6, <2>9, UnsentChanges
  <2>12. SendersKeep /\ ReindexHasJobs'
    BY <1>k, <2>1, <2>7, <2>9, <2>10, <2>11
  <2> QED BY <1>10, <1>b, <2>7, <2>12 DEF FailReindexJob, Delivers
<1>11. ASSUME NEW r \in Reindexers, ReindexFails(r) PROVE Kept
  <2> DEFINE q == [NoReindex EXCEPT !.pc = "aborted"]
  <2>1. q \in ReindexRecord /\ q.current = NoPair /\ UnsentOf(q) = {}
    <3> DEFINE none == <<None, None>>
               empty == <<>>
    <3>0. NoReindex = [pc |-> "off", todo |-> {}, current |-> none, queued |-> empty]
      BY DEF NoReindex
    <3> HIDE DEF none, empty
    <3>1. q = [pc |-> "aborted", todo |-> {}, current |-> none, queued |-> empty]
      BY <3>0
    <3>2. none \in Pair /\ empty \in Seq(Docs \X Jobs)
      BY DEF Pair, none, empty
    <3>3. q.current = none /\ q.queued = empty
      BY <3>1
    <3>4. JobsIn(ToSet(empty) \cup {none}) = {}
      BY DEF JobsIn, ToSet, empty, none
    <3> HIDE DEF q
    <3>5. UnsentOf(q) = {}
      BY <3>3, <3>4 DEF UnsentOf
    <3>6. q \in ReindexRecord
      BY <3>1, <3>2 DEF ReindexRecord, ReindexState
    <3> QED BY <3>3, <3>5, <3>6 DEF none
  <2>2. reindex' = [reindex EXCEPT ![r] = q]
    BY <1>11 DEF ReindexFails
  <2> HIDE DEF q
  <2>3. /\ jobs' = jobs /\ broker' = broker
        /\ abandoned' = abandoned \cup Unsent(r)
    BY <1>11 DEF ReindexFails
  <2>4. UnsentOf(reindex[r]) \subseteq abandoned' /\ \A j \in Jobs : JobPersists(j)
    BY <1>p, <1>y, <2>3
  <2>5. SendersKeep /\ ReindexHasJobs'
    BY <1>k, <2>1, <2>2, <2>4
  <2> QED BY <1>b, <2>3, <2>4, <2>5 DEF Delivers
<1> QED
  BY <1>1, <1>2, <1>3, <1>4, <1>5, <1>6, <1>7, <1>8, <1>9, <1>10, <1>11 DEF ReindexStep

\* What a step of a worker does to messages and to what it knows of its job.
WorkerDelivery(w) ==
    /\ \/ broker' = broker
       \/ \E m \in Messages : broker[m].state = "visible" /\ broker' = Received(m)
       \/ worker[w].pc \in {"ack", "drop"} /\ broker' = Deleted(worker[w].msg)
    /\ \/ worker'[w].pc = "idle"
       \/ /\ worker'[w].pc = "claim"
          /\ worker'[w].msg \in Messages
          /\ broker[worker'[w].msg].state = "visible"
       \/ /\ worker[w].pc # "idle"
          /\ worker'[w].msg = worker[w].msg
          /\ \/ worker'[w].pc \in Unsettled
             \/ worker[w].pc \notin Unsettled
             \/ jobs'[JobOf(w)].status # "queued"
             \/ JobOf(w) \in abandoned'

\* Every step of a worker on SQS is a WorkerDelivery.
LEMMA WorkerStepsDeliver ==
    ASSUME TypeOK, BusyHasMessage, OwnedJobClaimed, JobHasDocument, Backend = "sqs",
           NEW w \in Workers, WorkerProceeds(w) \/ WorkerFails(w)
    PROVE  WorkerDelivery(w)
<1>y. /\ worker \in WorkerRecords
      /\ broker \in BrokerContents
      /\ jobs \in [Jobs -> Job]
      /\ docs \in [Docs -> Document]
  BY DEF TypeOK, WorkerTypeOK, WorkerRecords, StoreTypeOK, BrokerContents
<1>m. ASSUME worker[w].pc # "idle" PROVE worker[w].msg \in Messages /\ JobOf(w) \in Jobs
  BY <1>m DEF BusyHasMessage, JobOf, Messages
<1>o. ASSUME worker[w].pc \in Owning PROVE DocOf(w) \in Docs
  <2>1. Owns(w, JobOf(w)) /\ JobOf(w) \in Jobs
    BY <1>o, <1>m DEF Owns, Owning
  <2> QED BY <2>1 DEF OwnedJobClaimed, JobHasDocument, DocOf
<1>k. ASSUME NEW pc \in WorkerState, Moved(w, pc), worker[w].pc # "idle", broker' = broker,
             \/ pc = "giveUpJob"
             \/ worker[w].pc \notin Unsettled
             \/ jobs'[JobOf(w)].status # "queued"
             \/ JobOf(w) \in abandoned'
      PROVE  WorkerDelivery(w)
  BY <1>k DEF WorkerDelivery, Moved, Unsettled
<1>v. \A pc \in WorkerState : MoveTo(w, pc) => Moved(w, pc)
  BY <1>y, WorkerMoves
<1>r. \A b : Released(b, w) = b
  BY DEF Released
<1>t. ASSUME AfterTransient(w), worker[w].pc # "idle" PROVE WorkerDelivery(w)
  <2>1. /\ worker'[w].pc \in {"idle", "giveUpDoc"}
        /\ worker'[w].pc # "idle" => worker'[w].msg = worker[w].msg
    BY <1>t, <1>y, TransientEnds
  <2>2. broker' = broker
    BY <1>t, <1>r DEF AfterTransient, EndDispatch
  <2> QED BY <1>t, <2>1, <2>2 DEF WorkerDelivery, Unsettled
<1> USE DEF At
<1>1. ASSUME NEW m \in Messages, Receive(w, m) PROVE WorkerDelivery(w)
  <2>1. worker'[w].pc = "claim" /\ worker'[w].msg = m
    BY <1>y, <1>1, WorkerReceives
  <2> QED BY <1>1, <2>1 DEF Receive, WorkerDelivery
<1>2. ASSUME Claim(w) PROVE WorkerDelivery(w)
  <2>1. Moved(w, "markDoc") /\ "markDoc" \in WorkerState
    BY <1>2, <1>v DEF Claim, WorkerState
  <2>2. jobs'[JobOf(w)].status = "processing"
    BY <1>2, <1>y, <1>m DEF Claim, Job, Status
  <2> QED BY <1>2, <1>k, <2>1, <2>2 DEF Claim
<1>3. ASSUME SkipClaimed(w) PROVE WorkerDelivery(w)
  <2>1. Moved(w, "ack") /\ "ack" \in WorkerState
    BY <1>3, <1>v DEF SkipClaimed, WorkerState
  <2> QED BY <1>3, <1>k, <2>1 DEF SkipClaimed, Claimable
<1>4. ASSUME \/ MarkDocumentProcessing(w) \/ DeletePredecessorVectors(w)
             \/ ArchivePredecessor(w) \/ ReadyJob(w) \/ ReadyDoc(w) \/ FailJob(w)
             \/ PredecessorDeletionRaises(w)
      PROVE  WorkerDelivery(w)
  <2>1. PICK pc \in WorkerState : MoveTo(w, pc)
    BY <1>4 DEF MarkDocumentProcessing, DeletePredecessorVectors, ArchivePredecessor,
                ReadyJob, ReadyDoc, FailJob, PredecessorDeletionRaises, WorkerState
  <2>2. broker' = broker /\ worker[w].pc \notin Unsettled
    BY <1>4 DEF MarkDocumentProcessing, DeletePredecessorVectors, ArchivePredecessor,
                ReadyJob, ReadyDoc, FailJob, PredecessorDeletionRaises, Unsettled
  <2>3. worker[w].pc # "idle"
    BY <2>2 DEF Unsettled
  <2> QED BY <1>k, <1>v, <2>1, <2>2, <2>3
<1>5. ASSUME RollbackVectors(w) \/ GuardedCallRaises(w) PROVE WorkerDelivery(w)
  <2>1. Moved(w, "failJob") /\ "failJob" \in WorkerState
    BY <1>5, <1>y, WorkerFailsJob DEF RollbackVectors, GuardedCallRaises, WorkerState
  <2>2. broker' = broker /\ worker[w].pc \notin Unsettled /\ worker[w].pc # "idle"
    BY <1>5 DEF RollbackVectors, GuardedCallRaises, Guarded, Unsettled
  <2> QED BY <1>k, <2>1, <2>2
<1>6. ASSUME LoadDocument(w) PROVE WorkerDelivery(w)
  <2> DEFINE d == docs[DocOf(w)]
  <2>1. d.version \in Nat /\ d.lineage_id \in Docs \cup {None}
    BY <1>6, <1>y, <1>o DEF LoadDocument, Owning, Document
  <2>2. \/ Fails(w, "permanent")
        \/ worker' = [worker EXCEPT ![w].pc = "dedup", ![w].version = d.version,
                                    ![w].lineage_id = d.lineage_id]
    BY <1>6 DEF LoadDocument
  <2> HIDE DEF d
  <2>3. PICK pc \in {"failJob", "dedup"} : Moved(w, pc)
    BY <1>y, <2>1, <2>2, WorkerFailsJob, WorkerLoads
  <2>4. pc \in WorkerState
    BY DEF WorkerState
  <2> QED BY <1>6, <1>k, <2>3, <2>4 DEF LoadDocument, Unsettled
<1>7. ASSUME Deduplicate(w) PROVE WorkerDelivery(w)
  <2> DEFINE file == files[DocOf(w)]
             fresh == ChunksOf[file] \ SearchableHashes
  <2>1. file \in Contents \cup {NoContent}
    BY <1>7, <1>o DEF Deduplicate, Owning, TypeOK, StoreTypeOK
  <2>2. file # NoContent => fresh \in SUBSET AllHashes
    BY <2>1 DEF AllHashes
  <2>3. \/ Fails(w, "permanent") \/ Fails(w, "transient")
        \/ file # NoContent /\ worker' = [worker EXCEPT ![w].pc = "upsert", ![w].fresh = fresh]
    BY <1>7 DEF Deduplicate
  <2> HIDE DEF file, fresh
  <2>4. "upsert" \in WorkerState /\ "failJob" \in WorkerState
    BY DEF WorkerState
  <2>5. PICK pc \in {"failJob", "upsert"} : Moved(w, pc)
    BY <1>y, <2>2, <2>3, <2>4, WorkerFailsJob, WorkerMovesFresh
  <2> QED BY <1>7, <1>k, <2>4, <2>5 DEF Deduplicate, Unsettled
<1>8. ASSUME Upsert(w) PROVE WorkerDelivery(w)
  <2> DEFINE none == {}
  <2>1. worker' = [worker EXCEPT ![w].pc = "findPred", ![w].fresh = none]
    BY <1>8 DEF Upsert
  <2>2. none \in SUBSET AllHashes /\ "findPred" \in WorkerState
    BY DEF WorkerState
  <2> HIDE DEF none
  <2>3. Moved(w, "findPred")
    BY <1>y, <2>1, <2>2, WorkerMovesFresh
  <2> QED BY <1>8, <1>k, <2>2, <2>3 DEF Upsert, Unsettled
<1>9. ASSUME FindPredecessorToArchive(w) PROVE WorkerDelivery(w)
  <2>1. \/ MoveTo(w, "readyJob") \/ Fails(w, "permanent")
        \/ \E p \in Docs : worker' = [worker EXCEPT ![w].pc = "deletePred", ![w].pred = p]
    BY <1>9 DEF FindPredecessorToArchive, Superseded
  <2>2. {"readyJob", "failJob", "deletePred"} \subseteq WorkerState
    BY DEF WorkerState
  <2>3. PICK pc \in {"readyJob", "failJob", "deletePred"} : Moved(w, pc)
    BY <1>y, <1>v, <2>1, <2>2, WorkerFailsJob, WorkerMovesPred
  <2> QED BY <1>9, <1>k, <2>2, <2>3 DEF FindPredecessorToArchive, Unsettled
<1>10. ASSUME FailDoc(w) PROVE WorkerDelivery(w)
  <2>1. CASE AfterTransient(w)
    BY <1>10, <1>t, <2>1 DEF FailDoc
  <2>2. CASE MoveTo(w, "giveUpDoc") /\ UNCHANGED broker
    <3>1. Moved(w, "giveUpDoc") /\ "giveUpDoc" \in WorkerState
      BY <1>v, <2>2 DEF WorkerState
    <3> QED BY <1>10, <1>k, <2>2, <3>1 DEF FailDoc, Unsettled
  <2> QED BY <1>10, <2>1, <2>2 DEF FailDoc
<1>11. ASSUME Ack(w) \/ Drop(w) PROVE WorkerDelivery(w)
  <2>1. worker[w].pc \in {"ack", "drop"} /\ EndDispatch(w, Deleted(worker[w].msg))
    BY <1>11 DEF Ack, Drop
  <2>2. Deleted(worker[w].msg) \in BrokerContents
    BY <1>y, <1>m, <2>1, BrokerTransitions
  <2>3. worker'[w].pc = "idle"
    BY <1>y, <2>1, <2>2, DispatchEnds
  <2>4. broker' = Deleted(worker[w].msg)
    BY <1>r, <2>1 DEF EndDispatch
  <2> QED BY <2>1, <2>3, <2>4 DEF WorkerDelivery
<1>12. ASSUME GiveUpDoc(w) PROVE WorkerDelivery(w)
  <2>1. Moved(w, "giveUpJob") /\ "giveUpJob" \in WorkerState
    BY <1>12, <1>v DEF GiveUpDoc, WorkerState
  <2> QED BY <1>12, <1>k, <2>1 DEF GiveUpDoc
<1>13. ASSUME GiveUpJob(w) PROVE WorkerDelivery(w)
  <2>1. Moved(w, "drop") /\ "drop" \in WorkerState
    BY <1>13, <1>v DEF GiveUpJob, WorkerState
  <2>2. jobs'[JobOf(w)].status # "queued"
    BY <1>13, <1>y, <1>m, SettlingPersists DEF GiveUpJob
  <2> QED BY <1>13, <1>k, <2>1, <2>2 DEF GiveUpJob
<1>14. ASSUME UnguardedCallRaises(w) PROVE WorkerDelivery(w)
  <2>1. worker[w].pc # "idle"
    BY <1>14 DEF UnguardedCallRaises, Unguarded
  <2> QED BY <1>14, <1>t, <2>1 DEF UnguardedCallRaises
<1>15. ASSUME GiveUpRaises(w) PROVE WorkerDelivery(w)
  <2>1. Moved(w, "drop") /\ "drop" \in WorkerState
    BY <1>15, <1>v DEF GiveUpRaises, WorkerState
  <2> QED BY <1>15, <1>k, <2>1 DEF GiveUpRaises
<1>16. ASSUME WorkerCrashes(w) PROVE WorkerDelivery(w)
  <2>1. worker' = [worker EXCEPT ![w] = Idle] /\ broker' = broker
    BY <1>16 DEF WorkerCrashes
  <2>2. worker'[w].pc = "idle"
    BY <1>y, <2>1 DEF WorkerRecords, Idle
  <2> QED BY <2>1, <2>2 DEF WorkerDelivery
<1> QED
  BY <1>1, <1>2, <1>3, <1>4, <1>5, <1>6, <1>7, <1>8, <1>9, <1>10, <1>11, <1>12, <1>13,
     <1>14, <1>15, <1>16
     DEF WorkerProceeds, WorkerFails

\* A worker deletes no message of a queued job.
LEMMA WorkerDelivers ==
    ASSUME TypeOK, BusyHasMessage, SeenJob, SentHasJob, NoOffsets, Backend = "sqs",
           NEW w \in Workers, WorkerChange(w), WorkerDelivery(w),
           uploads' = uploads, reindex' = reindex
    PROVE  Delivers /\ SeenJob'
<1>y. /\ jobs \in [Jobs -> Job]
      /\ broker \in BrokerContents
  BY DEF TypeOK, StoreTypeOK, BrokerContents
<1>m. ASSUME NEW v \in Workers, worker[v].pc # "idle"
      PROVE  worker[v].msg \in Messages /\ JobOf(v) \in Jobs
  BY <1>m DEF BusyHasMessage, JobOf, Messages
<1>1. abandoned \subseteq abandoned'
  BY DEF WorkerChange
<1>2. ASSUME NEW j \in Jobs PROVE JobPersists(j)
  <2>1. CASE ClaimsJob(w)
    BY <1>y, <2>1 DEF ClaimsJob, JobPersists, Job
  <2>2. CASE KeepsJob(w)
    BY <2>2 DEF KeepsJob, JobMoves, JobPersists, Exists
  <2> QED BY <2>1, <2>2 DEF WorkerChange
<1>3. SendersKeep
  BY DEF SendersKeep, WillSend, Unsent
<1>4. BrokerKeeps
  <2>1. CASE broker' = broker
    BY <2>1 DEF BrokerKeeps, NoOffsets, InBroker
  <2>2. ASSUME NEW m \in Messages, broker[m].state = "visible", broker' = Received(m)
        PROVE  BrokerKeeps
    <3>1. /\ broker'[m].state = "hidden"
          /\ \A n \in Messages \ {m} : broker'[n] = broker[n]
      BY <1>y, <2>2 DEF Received, BrokerContents
    <3> QED BY <2>2, <3>1 DEF BrokerKeeps, NoOffsets, InBroker
  <2>3. CASE worker[w].pc \in {"ack", "drop"} /\ broker' = Deleted(worker[w].msg)
    <3>1. PICK m \in Messages : m = worker[w].msg
      BY <1>m, <2>3
    <3>2. jobs[m[1]].status # "queued" \/ m[1] \in abandoned
      BY <2>3, <3>1 DEF SeenJob, Unsettled, JobOf
    <3>3. /\ broker'[m].state = "gone"
          /\ \A n \in Messages \ {m} : broker'[n] = broker[n]
      BY <1>y, <2>3, <3>1 DEF Deleted, BrokerContents
    <3>4. broker[m].state = "unsent" => jobs[m[1]].status # "absent"
      BY <2>3, <3>1 DEF SeenJob, JobOf
    <3> QED BY <3>2, <3>3, <3>4 DEF BrokerKeeps, NoOffsets, InBroker
  <2> QED BY <2>1, <2>2, <2>3 DEF WorkerDelivery
<1>5. SeenJob'
  <2> SUFFICES ASSUME NEW v \in Workers, worker'[v].pc # "idle"
               PROVE  /\ jobs'[worker'[v].msg[1]].status # "absent"
                      /\ worker'[v].pc \notin Unsettled =>
                            \/ jobs'[worker'[v].msg[1]].status # "queued"
                            \/ worker'[v].msg[1] \in abandoned'
    BY DEF SeenJob, JobOf, Unsettled
  <2>1. ASSUME worker[v].pc # "idle", worker'[v].msg = worker[v].msg
        PROVE  /\ jobs'[worker'[v].msg[1]].status # "absent"
               /\ worker[v].pc \notin Unsettled =>
                     \/ jobs'[worker'[v].msg[1]].status # "queued"
                     \/ worker'[v].msg[1] \in abandoned'
    <3>1. JobPersists(JobOf(v)) /\ jobs[JobOf(v)].status # "absent"
      BY <1>2, <1>m, <2>1 DEF SeenJob
    <3> QED BY <1>1, <2>1, <3>1 DEF SeenJob, JobPersists, JobOf
  <2>2. CASE v # w
    <3>1. worker'[v] = worker[v]
      BY <2>2 DEF WorkerChange
    <3> QED BY <2>1, <3>1
  <2>3. CASE v = w
    <3>1. CASE worker'[w].pc = "claim" /\ worker'[w].msg \in Messages
               /\ broker[worker'[w].msg].state = "visible"
      <4>1. PICK m \in Messages : m = worker'[w].msg
        BY <3>1
      <4>2. m[1] \in Jobs /\ jobs[m[1]].status # "absent"
        BY <3>1, <4>1 DEF SentHasJob, Messages
      <4> QED BY <1>2, <2>3, <3>1, <4>1, <4>2 DEF JobPersists, Unsettled
    <3>2. CASE /\ worker[w].pc # "idle"
               /\ worker'[w].msg = worker[w].msg
               /\ \/ worker'[w].pc \in Unsettled
                  \/ worker[w].pc \notin Unsettled
                  \/ jobs'[JobOf(w)].status # "queued"
                  \/ JobOf(w) \in abandoned'
      BY <2>1, <2>3, <3>2 DEF JobOf
    <3> QED BY <2>3, <3>1, <3>2 DEF WorkerDelivery
  <2> QED BY <2>2, <2>3
<1> QED BY <1>1, <1>2, <1>3, <1>4, <1>5 DEF Delivers

\* The invariant of the messages holds at the start.
LEMMA InitialMessageInvariant ==
    ASSUME Init
    PROVE  MessageInvariant
<1>1. IInv
  BY InitialInvariant
<1>2. /\ \A j \in Jobs : jobs[j].status = "absent"
      /\ \A m \in Messages : broker[m].state = "unsent"
      /\ \A w \in Workers : worker[w].pc = "idle"
      /\ \A d \in Docs : uploads[d].pc = "off"
      /\ \A s \in Sweeps : sweeps[s].pc = "off" /\ sweeps[s].todo = {}
  BY DEF Init, StoreInit, NoJob, WorkerInit, Idle, UploadInit, SweepInit
<1>3. ReindexHasJobs
  <2>1. \A r \in Reindexers : /\ reindex[r].queued = <<>>
                              /\ reindex[r].current = <<None, None>>
    BY DEF Init, AdminInit, NoReindex
  <2>2. JobsIn(ToSet(<<>>) \cup {<<None, None>>}) = {}
    BY DEF JobsIn, ToSet
  <2> QED BY <2>1, <2>2 DEF ReindexHasJobs, UnsentOf
<1>4. SentHasJob /\ NoOffsets /\ SeenJob /\ UploadHasJob /\ SweepHasJob
  BY <1>2 DEF SentHasJob, NoOffsets, SeenJob, UploadHasJob, SweepHasJob, Unsettled
<1>5. QueuedJobHasMessage
  BY <1>2 DEF QueuedJobHasMessage
<1> QED BY <1>1, <1>3, <1>4, <1>5 DEF MessageInvariant

\* Every step on SQS keeps the invariant of the messages.
LEMMA MessageInvariantPreserved ==
    ASSUME MessageInvariant, [Next]_vars, Backend = "sqs"
    PROVE  MessageInvariant'
<1>y. /\ TypeOK /\ JobHasDocument /\ BusyHasMessage /\ OwnedJobClaimed
      /\ NotInsertedYet /\ ReindexInOrder
      /\ SentHasJob /\ NoOffsets /\ SeenJob /\ UploadHasJob /\ ReindexHasJobs
      /\ SweepHasJob /\ QueuedJobHasMessage
  BY DEF MessageInvariant, IInv
<1>i. IInv'
  BY InvariantPreserved DEF MessageInvariant
<1>q. ASSUME Delivers, SeenJob', UploadHasJob', ReindexHasJobs', SweepHasJob'
      PROVE  MessageInvariant'
  BY <1>i, <1>q, <1>y, DeliveryKeepsMessages DEF MessageInvariant
<1>s. ASSUME Delivers
      PROVE  /\ worker' = worker => SeenJob'
             /\ uploads' = uploads => UploadHasJob'
             /\ reindex' = reindex => ReindexHasJobs'
             /\ sweeps' = sweeps => SweepHasJob'
  BY <1>s, <1>y, KnowledgeStays DEF Delivers
<1>1. CASE UploadStep /\ UNCHANGED <<worker, deletions, reindex, sweeps>>
  <2>1. Delivers /\ UploadHasJob'
    BY <1>y, <1>1, UploadDelivers
  <2> QED BY <1>1, <1>q, <1>s, <2>1
<1>2. CASE BrokerStep /\ UNCHANGED <<uploads, worker, deletions, reindex, sweeps>>
  <2>1. Delivers
    BY <1>y, <1>2, BrokerDelivers
  <2> QED BY <1>2, <1>q, <1>s, <2>1
<1>3. CASE WorkerStep /\ UNCHANGED <<uploads, deletions, reindex, sweeps>>
  <2>1. PICK w \in Workers : WorkerProceeds(w) \/ WorkerFails(w)
    BY <1>3 DEF WorkerStep
  <2>2. WorkerChange(w) /\ WorkerDelivery(w)
    BY <1>y, <2>1, WorkerSteps, WorkerStepsDeliver
  <2>3. Delivers /\ SeenJob'
    BY <1>y, <1>3, <2>2, WorkerDelivers
  <2> QED BY <1>3, <1>q, <1>s, <2>3
<1>4. CASE DeletionStep /\ UNCHANGED <<uploads, worker, sweeps>>
  <2>1. Delivers /\ reindex' = reindex
    BY <1>y, <1>4, DeletionDelivers
  <2> QED BY <1>4, <1>q, <1>s, <2>1
<1>5. CASE ReindexStep /\ UNCHANGED <<uploads, worker, sweeps>>
  <2>1. Delivers /\ ReindexHasJobs'
    BY <1>y, <1>5, ReindexDelivers
  <2> QED BY <1>5, <1>q, <1>s, <2>1
<1>6. CASE SweepStep /\ UNCHANGED <<uploads, worker, deletions, reindex>>
  <2>1. Delivers /\ SweepHasJob'
    BY <1>y, <1>6, SweepDelivers
  <2> QED BY <1>6, <1>q, <1>s, <2>1
<1>7. CASE UNCHANGED vars
  <2>1. /\ jobs' = jobs /\ broker' = broker /\ abandoned' = abandoned
        /\ worker' = worker /\ uploads' = uploads /\ reindex' = reindex /\ sweeps' = sweeps
    BY <1>7 DEF vars
  <2>2. SendersKeep
    BY <2>1 DEF SendersKeep, WillSend, Unsent
  <2>3. Delivers
    BY <1>y, <2>1, <2>2, NothingSent DEF Delivers
  <2> QED BY <1>q, <1>s, <2>1, <2>3
<1> QED
  BY <1>1, <1>2, <1>3, <1>4, <1>5, <1>6, <1>7 DEF Next

\* On SQS no message is deleted while the job it is about is queued, however sends,
\* deliveries, sweeps and requests interleave.
THEOREM QueuedJobsHaveMessages ==
    ASSUME Backend = "sqs"
    PROVE  Spec => []QueuedJobHasMessage
<1>1. Init => MessageInvariant
  BY InitialMessageInvariant
<1>2. MessageInvariant /\ [Next]_vars => MessageInvariant'
  BY MessageInvariantPreserved
<1>3. MessageInvariant => QueuedJobHasMessage
  BY DEF MessageInvariant
<1> QED
  BY <1>1, <1>2, <1>3, PTL DEF Spec

=============================================================================
