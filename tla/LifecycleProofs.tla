-------------------------- MODULE LifecycleProofs ---------------------------
(***************************************************************************)
(* Documents and the jobs they show: a ready document shows a ready job,   *)
(* and the status a client polls is a behaviour of DocumentLifecycle.      *)
(* Both need that every reindex request creates one job for each           *)
(* document, that the document shows it before anybody can hear of it,     *)
(* and that the status of a job in a worker's hands is the one its last    *)
(* write gave it.                                                          *)
(***************************************************************************)
EXTENDS DocumentProofs

\* The document of reindex job j shows it.
Pointed(j) == LET d == jobs[j].document_id IN Exists(docs[d]) => docs[d].job_id = j

\* Nobody has done anything for job j yet.
Untouched(j) == Unheard(j) /\ jobs[j].status \in {"absent", "queued", "deleted"}

OneJobEach == \A d \in Docs, i, j \in Jobs : Renewed(d, i) /\ Renewed(d, j) => i = j

PointedWhenHeard == \A j \in Jobs \ Docs : Untouched(j) \/ (Known(j) /\ Pointed(j))

Distinct(q) == \A i, k \in 1..Len(q) : q[i] = q[k] => i = k

\* A document waits in the queue of a request for the message of its only job.
Waiting(p) == Untouched(p[2]) /\ Pointed(p[2]) /\ docs[p[1]].status # "ready"

\* A reindex request creates one job for each document of its list.
RequestOnce(r) ==
    /\ Distinct(reindex[r].queued)
    /\ \A p \in ToSet(reindex[r].queued) : Waiting(p)
    /\ reindex[r].pc = "pointDoc" =>
          Untouched(reindex[r].current[2]) /\ reindex[r].current \notin ToSet(reindex[r].queued)
    /\ \A d \in reindex[r].todo, j \in Jobs : ~Renewed(d, j)

\* The job in a worker's hands has the status its last write gave it.
JobInHand(w) ==
    worker[w].pc # "idle" =>
      /\ worker[w].receives <= 1
      /\ worker[w].pc \in Owning => jobs[JobOf(w)].status \in {"processing", "deleted"}
      /\ worker[w].pc = "readyDoc" => jobs[JobOf(w)].status \in {"ready", "deleted"}
      /\ worker[w].pc \in {"failDoc", "giveUpDoc", "giveUpJob"} =>
            jobs[JobOf(w)].status \in {"failed", "deleted"}

\* With the uploads that have sent nothing (Rejecting).
LifeInvariant ==
    /\ WipedFirst
    /\ OneJobEach /\ PointedWhenHeard
    /\ \A r \in Reindexers : RequestOnce(r)
    /\ \A w \in Workers : JobInHand(w)
    /\ ReadyDocHasReadyJob

\* The head of a sequence of distinct elements is not in the tail.
LEMMA DistinctTail ==
    ASSUME NEW S, NEW q \in Seq(S), q # <<>>, Distinct(q)
    PROVE  /\ Distinct(Tail(q))
           /\ \A p \in ToSet(Tail(q)) : p \in ToSet(q) /\ p # Head(q)
<1>1. /\ Head(q) = q[1] /\ Tail(q) \in Seq(S) /\ Len(Tail(q)) = Len(q) - 1
      /\ Len(q) \in Nat /\ Len(q) # 0
      /\ \A i \in 1..Len(Tail(q)) : Tail(q)[i] = q[i + 1]
  BY HeadTailProperties, EmptySeq, LenProperties
<1>2. Distinct(Tail(q))
  <2> SUFFICES ASSUME NEW i \in 1..Len(Tail(q)), NEW k \in 1..Len(Tail(q)),
                      Tail(q)[i] = Tail(q)[k]
               PROVE  i = k
    BY DEF Distinct
  <2>1. i + 1 \in 1..Len(q) /\ k + 1 \in 1..Len(q) /\ q[i + 1] = q[k + 1]
    BY <1>1
  <2>2. i + 1 = k + 1
    BY <2>1 DEF Distinct
  <2> QED BY <2>2
<1>3. ASSUME NEW p \in ToSet(Tail(q)) PROVE p \in ToSet(q) /\ p # Head(q)
  <2>1. PICK i \in 1..Len(Tail(q)) : p = Tail(q)[i]
    BY <1>1, <1>3 DEF ToSet
  <2>2. i + 1 \in 1..Len(q) /\ 1 \in 1..Len(q) /\ i + 1 # 1 /\ p = q[i + 1]
    BY <1>1, <2>1
  <2>3. p # q[1]
    BY <2>2 DEF Distinct
  <2>4. p \in ToSet(q)
    BY <2>2 DEF ToSet
  <2> QED BY <1>1, <2>3, <2>4
<1> QED BY <1>2, <1>3

\* A new element at the end leaves them distinct.
LEMMA DistinctAppend ==
    ASSUME NEW S, NEW q \in Seq(S), NEW p \in S, p \notin ToSet(q), Distinct(q)
    PROVE  Distinct(Append(q, p))
<1>1. /\ Len(q) \in Nat /\ Len(Append(q, p)) = Len(q) + 1
      /\ \A i \in 1..Len(q) : Append(q, p)[i] = q[i]
      /\ Append(q, p)[Len(q) + 1] = p
  BY AppendProperties, LenProperties
<1>2. \A i \in 1..Len(q) : q[i] # p
  BY DEF ToSet
<1> SUFFICES ASSUME NEW i \in 1..(Len(q) + 1), NEW k \in 1..(Len(q) + 1),
                    Append(q, p)[i] = Append(q, p)[k]
             PROVE  i = k
  BY <1>1 DEF Distinct
<1>3. CASE i \in 1..Len(q) /\ k \in 1..Len(q)
  BY <1>1, <1>3 DEF Distinct
<1>4. CASE i = Len(q) + 1 \/ k = Len(q) + 1
  <2>1. i \in 1..Len(q) => k \in 1..Len(q)
    <3>1. CASE i \in 1..Len(q) /\ k = Len(q) + 1
      BY <1>1, <1>2, <3>1
    <3> QED BY <1>1, <3>1
  <2>2. k \in 1..Len(q) => i \in 1..Len(q)
    <3>1. CASE k \in 1..Len(q) /\ i = Len(q) + 1
      BY <1>1, <1>2, <3>1
    <3> QED BY <1>1, <3>1
  <2> QED BY <1>1, <1>4, <2>1, <2>2
<1> QED BY <1>1, <1>3, <1>4

\* Which steps bring a worker to the calls that write, when no message is received twice.
LEMMA HandTurns ==
    ASSUME TypeOK, NEW w \in Workers, WorkerProceeds(w) \/ WorkerFails(w),
           worker[w].pc # "idle" => worker[w].receives <= 1
    PROVE  /\ worker'[w].pc \in Owning => Claim(w) \/ (worker[w].pc \in Owning /\ jobs' = jobs)
           /\ worker'[w].pc = "readyDoc" => ReadyJob(w)
           /\ worker'[w].pc = "failDoc" => FailJob(w)
           /\ worker'[w].pc \in {"giveUpDoc", "giveUpJob"} =>
                worker[w].pc \in {"failDoc", "giveUpDoc"} /\ jobs' = jobs
<1> DEFINE Goal ==
      /\ worker'[w].pc \in Owning => Claim(w) \/ (worker[w].pc \in Owning /\ jobs' = jobs)
      /\ worker'[w].pc = "readyDoc" => ReadyJob(w)
      /\ worker'[w].pc = "failDoc" => FailJob(w)
      /\ worker'[w].pc \in {"giveUpDoc", "giveUpJob"} =>
           worker[w].pc \in {"failDoc", "giveUpDoc"} /\ jobs' = jobs
<1>1. ASSUME NEW m \in Messages, Receive(w, m) PROVE Goal
  BY <1>1, ReceptionTurns DEF Owning
<1>2. Ended(w) => Goal
  BY DEF Ended, Owning
<1>3. Turn(w, "ack") \/ Turn(w, "drop") => Goal
  BY DEF Turn, Owning
<1>4. Claim(w) => Goal
  BY WorkerTurns DEF Turn, Owning
<1>5. worker[w].pc \in Owning /\ jobs' = jobs
        /\ worker'[w].pc \notin {"readyDoc", "failDoc", "giveUpDoc", "giveUpJob"} => Goal
  OBVIOUS
<1>6. MarkDocumentProcessing(w) \/ LoadDocument(w) \/ Deduplicate(w) \/ Upsert(w)
      \/ FindPredecessorToArchive(w) \/ DeletePredecessorVectors(w) \/ RollbackVectors(w)
      \/ ArchivePredecessor(w) \/ PredecessorDeletionRaises(w) \/ GuardedCallRaises(w)
        => worker[w].pc \in Owning /\ jobs' = jobs
  BY DEF MarkDocumentProcessing, LoadDocument, Deduplicate, Upsert, FindPredecessorToArchive,
         DeletePredecessorVectors, RollbackVectors, ArchivePredecessor,
         PredecessorDeletionRaises, GuardedCallRaises, At, Owning, Guarded
<1>7. MarkDocumentProcessing(w) \/ LoadDocument(w) \/ Deduplicate(w) \/ Upsert(w)
        => worker'[w].pc \notin {"readyDoc", "failDoc", "giveUpDoc", "giveUpJob"}
  BY WorkerTurns DEF Turn, Failing, Loading, Freshening
<1>8. FindPredecessorToArchive(w) \/ DeletePredecessorVectors(w) \/ RollbackVectors(w)
      \/ ArchivePredecessor(w) \/ PredecessorDeletionRaises(w) \/ GuardedCallRaises(w)
        => worker'[w].pc \notin {"readyDoc", "failDoc", "giveUpDoc", "giveUpJob"}
  BY WorkerTurns DEF Turn, Failing, Choosing
<1>9. ReadyJob(w) => Goal
  BY WorkerTurns DEF Turn, Owning
<1>10. FailJob(w) => Goal
  BY WorkerTurns DEF Turn, Owning
<1>11. ReadyDoc(w) \/ SkipClaimed(w) \/ Ack(w) \/ Drop(w) \/ WorkerCrashes(w) => Goal
  BY <1>2, <1>3, WorkerTurns
<1>12. ASSUME FailDoc(w) \/ GiveUpDoc(w) PROVE Goal
  <2>1. worker[w].pc \in {"failDoc", "giveUpDoc"} /\ jobs' = jobs
    BY <1>12 DEF FailDoc, GiveUpDoc, At
  <2>2. Turn(w, "giveUpDoc") \/ Turn(w, "giveUpJob") \/ Ended(w)
    BY <1>12, WorkerTurns
  <2>3. worker'[w].pc \in {"giveUpDoc", "giveUpJob", "idle"}
    BY <2>2 DEF Turn, Ended
  <2> QED BY <2>1, <2>3 DEF Owning
<1>13. GiveUpJob(w) \/ GiveUpRaises(w) => Goal
  BY <1>3, WorkerTurns
<1>14. UnguardedCallRaises(w) => Goal
  <2>1. UnguardedCallRaises(w) => worker[w].pc # "idle"
    BY DEF UnguardedCallRaises, Unguarded
  <2>2. UnguardedCallRaises(w) => ~(worker[w].receives >= MAX_RECEIVE_COUNT)
    <3>1. worker[w].receives \in 0..MAX_RECEIVE_COUNT
      BY DEF TypeOK, WorkerTypeOK, WorkerRecord
    <3> QED BY <2>1, <3>1 DEF MAX_RECEIVE_COUNT
  <2> QED BY <1>2, <2>2, WorkerTurns
<1> HIDE DEF Goal
<1>15. Goal
  BY <1>1, <1>4, <1>5, <1>6, <1>7, <1>8, <1>9, <1>10, <1>11, <1>12, <1>13, <1>14
     DEF WorkerProceeds, WorkerFails
<1> QED BY <1>15 DEF Goal

\* A worker with a message has heard of its job, which is known.
LEMMA HandsOn ==
    ASSUME Registered, NEW w \in Workers, worker[w].pc # "idle"
    PROVE  JobOf(w) \in Jobs /\ Known(JobOf(w)) /\ ~Unheard(JobOf(w))
<1>1. worker[w].msg \in Messages /\ broker[worker[w].msg].state # "unsent"
  BY DEF Registered, HoldsMessage
<1>2. JobOf(w) \in Jobs /\ Known(JobOf(w))
  BY <1>1 DEF Registered, JobOf, Messages
<1> QED BY <1>2 DEF Unheard

\* Only the request that created it does something for a job nobody has heard of.
LEMMA UntouchedStays ==
    ASSUME IInv, Registered, ~AmbiguousSend, [Next]_vars, NEW j \in Jobs \ Docs, Untouched(j),
           \A r \in Reindexers :
              (SendReindexMessage(r) \/ FailReindexJob(r)) => Head(reindex[r].queued)[2] # j
    PROVE  Untouched(j)'
<1>y. TypeOK
  BY DEF IInv
<1>1. Unheard(j) /\ jobs[j].status \in {"absent", "queued", "deleted"}
  BY DEF Untouched
<1>2. Unheard(j)'
  BY <1>1, <1>y, UnheardStays
<1>3. ASSUME NEW w \in Workers, WorkerMovesJob(w, j) PROVE FALSE
  <2>1. worker[w].pc # "idle" /\ JobOf(w) = j
    BY <1>3 DEF WorkerMovesJob, Claim, ReadyJob, FailJob, GiveUpJob, At
  <2> QED BY <1>1, <2>1 DEF Unheard
<1>4. jobs'[j].status \in {"absent", "queued", "deleted"}
  BY <1>1, <1>3, <1>y, JobsMove DEF JobMovesBy, JobStays, JobBecomes
<1> QED BY <1>2, <1>4 DEF Untouched

\* With one job for each document a document shows its job until it is gone.
LEMMA PointedStays ==
    ASSUME IInv, Registered, OneJobEach, [Next]_vars, NEW j \in Jobs \ Docs, Known(j), Pointed(j)
    PROVE  Pointed(j)'
<1>y. TypeOK /\ Persists /\ ReindexInOrder
  BY RegisteredPreserved DEF IInv
<1>1. PICK d \in Docs : d = jobs[j].document_id /\ Inserted(d)
  BY DEF Registered, JobRecord
<1>2. jobs'[j].document_id = d /\ Renewed(d, j)
  BY <1>1, <1>y DEF Persists, JobsPersist, Renewed
<1>3. Exists(docs[d]) => docs[d].job_id = j
  BY <1>1 DEF Pointed
<1>4. Exists(docs'[d]) => docs'[d].job_id = j
  <2>1. ~InsertDocument(d)
    BY <1>1 DEF InsertDocument, Registered, UploadStage, BeforeDoc
  <2>2. \A s : DocBecomes(d, s) => docs'[d].job_id = j
    BY <1>3 DEF DocBecomes, Repoints
  <2>3. DocStays(d) => (Exists(docs'[d]) => docs'[d].job_id = j)
    BY <1>3 DEF DocStays, Exists
  <2>4. ASSUME NEW r \in Reindexers, PointDocument(r), reindex[r].current[1] = d
        PROVE  reindex[r].current[2] = j
    <3>1. Renewed(d, reindex[r].current[2])
      BY <2>4 DEF PointDocument, ReindexAt, Registered, ReindexKnown
    <3> QED BY <1>2, <3>1 DEF OneJobEach, Renewed
  <2>5. ASSUME NEW r \in Reindexers, FailReindexDocument(r), Head(reindex[r].queued)[1] = d
        PROVE  Head(reindex[r].queued)[2] = j
    <3>1. reindex[r].queued # <<>>
      BY <1>y, <2>5 DEF FailReindexDocument, ReindexAt, ReindexInOrder, InOrder
    <3>2. Renewed(d, Head(reindex[r].queued)[2])
      BY <1>y, <2>5, <3>1, HeadOfQueue
    <3> QED BY <1>2, <3>2 DEF OneJobEach, Renewed
  <2>6. \A w \in Workers : WorkerMovesDoc(w, d) => \E s : DocBecomes(d, s)
    BY DEF WorkerMovesDoc
  <2>7. DocMoves(d)
    BY <1>y, DocumentsMove
  <2>8. \A r \in Reindexers : PointDocument(r) /\ reindex[r].current[1] = d
             /\ Repoints(d, reindex[r].current[2], "queued") => docs'[d].job_id = j
    BY <2>4 DEF Repoints
  <2>9. \A r \in Reindexers : FailReindexDocument(r) /\ Head(reindex[r].queued)[1] = d
             /\ Repoints(d, Head(reindex[r].queued)[2], "failed") => docs'[d].job_id = j
    BY <2>5 DEF Repoints
  <2> QED BY <2>1, <2>2, <2>3, <2>6, <2>7, <2>8, <2>9 DEF DocMoves
<1> QED BY <1>2, <1>4 DEF Pointed

\* A request creates a job only for a document on its list, which has none.
LEMMA OneJobStays ==
    ASSUME IInv, Registered, OneJobEach, \A r \in Reindexers : RequestOnce(r), [Next]_vars
    PROVE  OneJobEach'
<1>y. TypeOK /\ Persists /\ jobs \in [Jobs -> Job]
  BY RegisteredPreserved DEF IInv, TypeOK, StoreTypeOK
<1>1. \A d, j : Renewed(d, j)' /\ Known(j) => Renewed(d, j)
  BY <1>y DEF Renewed, Persists, JobsPersist
<1>2. CASE \A r \in Reindexers : ~InsertReindexJob(r)
  <2>1. \A j \in Jobs \ Docs : Known(j)' => Known(j)
    BY <1>2, ReindexingCreates
  <2>2. \A d, j : Renewed(d, j)' => Renewed(d, j)
    BY <1>1, <2>1 DEF Renewed
  <2> QED BY <2>2 DEF OneJobEach
<1>3. CASE \E r \in Reindexers : InsertReindexJob(r)
  <2>1. PICK r \in Reindexers : InsertReindexJob(r)
    BY <1>3
  <2>2. PICK e \in reindex[r].todo, i \in Jobs \ Docs :
           jobs[i].status = "absent" /\ jobs' = InsertJob(i, e)
    BY <2>1 DEF InsertReindexJob
  <2>3. /\ jobs'[i].document_id = e
        /\ \A j \in Jobs \ {i} : jobs'[j] = jobs[j]
    BY <1>y, <2>2 DEF InsertJob, NoJob
  <2>4. \A d, j : Renewed(d, j)' => (j = i /\ d = e) \/ (j # i /\ Renewed(d, j))
    BY <2>3 DEF Renewed, Known
  <2>5. \A j \in Jobs : ~Renewed(e, j)
    BY <2>2 DEF RequestOnce
  <2>6. \A j : Renewed(e, j) => j \in Jobs
    BY DEF Renewed
  <2> QED BY <2>4, <2>5, <2>6 DEF OneJobEach
<1> QED BY <1>2, <1>3

\* Whoever writes the status of a job has it in hand.
LEMMA JobInHandStays ==
    ASSUME IInv, Registered, Backend # "sqs", [Next]_vars,
           \A d \in Docs : Rejecting(d),
           \A r \in Reindexers : RequestOnce(r),
           \A v \in Workers : JobInHand(v),
           NEW w \in Workers
    PROVE  JobInHand(w)'
<1>y. TypeOK /\ Persists /\ ReindexInOrder /\ SingleOwner
  BY RegisteredPreserved DEF IInv
<1> SUFFICES ASSUME worker'[w].pc # "idle" PROVE JobInHand(w)'
  BY DEF JobInHand
<1>1. CASE worker'[w] = worker[w]
  <2>1. worker[w].pc # "idle" /\ JobOf(w)' = JobOf(w)
    BY <1>1 DEF JobOf
  <2>2. PICK j \in Jobs : j = JobOf(w) /\ Known(j) /\ ~Unheard(j)
    BY <2>1, HandsOn
  <2>3. /\ worker[w].receives <= 1
        /\ worker[w].pc \in Owning => jobs[j].status \in {"processing", "deleted"}
        /\ worker[w].pc = "readyDoc" => jobs[j].status \in {"ready", "deleted"}
        /\ worker[w].pc \in {"failDoc", "giveUpDoc", "giveUpJob"} =>
              jobs[j].status \in {"failed", "deleted"}
    BY <2>1, <2>2 DEF JobInHand
  <2> DEFINE Kept ==
        /\ worker[w].pc \in Owning => jobs'[j].status \in {"processing", "deleted"}
        /\ worker[w].pc = "readyDoc" => jobs'[j].status \in {"ready", "deleted"}
        /\ worker[w].pc \in {"failDoc", "giveUpDoc", "giveUpJob"} =>
              jobs'[j].status \in {"failed", "deleted"}
  <2>4. jobs'[j].status \in {jobs[j].status, "deleted"} => Kept
    BY <2>3
  <2>5. ~(j \in Docs /\ InsertUploadJob(j))
    BY <2>2 DEF InsertUploadJob, Registered, UploadStage, BeforeJob
  <2>6. ~(j \in Docs /\ FailUploadedJob(j))
    BY <2>2 DEF FailUploadedJob, Rejecting, WithheldUpload, Withheld
  <2>7. \A r \in Reindexers : ~(FailReindexJob(r) /\ Head(reindex[r].queued)[2] = j)
    <3> SUFFICES ASSUME NEW r \in Reindexers, FailReindexJob(r) PROVE Head(reindex[r].queued)[2] # j
      OBVIOUS
    <3>1. reindex[r].queued # <<>>
      BY <1>y DEF FailReindexJob, ReindexAt, ReindexInOrder, InOrder
    <3>2. Unheard(Head(reindex[r].queued)[2])
      BY <1>y, <3>1, HeadOfQueue DEF RequestOnce, Waiting, Untouched
    <3> QED BY <2>2, <3>2
  <2>8. ASSUME NEW v \in Workers, WorkerMovesJob(v, j) PROVE Kept
    <3>1. JobOf(v) = j /\ Exists(jobs[j])
      BY <2>8 DEF WorkerMovesJob, JobBecomes
    <3>2. CASE Claim(v)
      <4>1. jobs[j].status = "queued" /\ worker[v].pc = "claim" /\ Turn(v, "markDoc")
        BY <1>y, <3>1, <3>2, WorkerTurns DEF Claim, Claimable, At
      <4> QED BY <2>3, <4>1
    <3>3. CASE ReadyJob(v) \/ FailJob(v)
      <4>1. worker[v].pc \in Owning
        BY <3>3 DEF ReadyJob, FailJob, At, Owning
      <4>2. jobs[j].status = "processing"
        BY <3>1, <4>1 DEF JobInHand, Exists, Owning
      <4>3. worker[w].pc \in Owning => v = w
        BY <1>y, <2>2, <3>1, <4>1 DEF SingleOwner, Owns
      <4>4. v # w
        <5>1. Turn(v, "readyDoc") \/ Turn(v, "failDoc")
          BY <1>y, <3>3, WorkerTurns
        <5>2. worker'[v].pc \notin Owning
          BY <5>1 DEF Turn, Owning
        <5> QED BY <1>1, <4>1, <5>2
      <4> QED BY <2>3, <4>2, <4>3, <4>4
    <3>4. CASE GiveUpJob(v)
      <4>1. worker[v].pc = "giveUpJob"
        BY <3>4 DEF GiveUpJob, At
      <4>2. jobs[j].status = "failed"
        BY <3>1, <4>1 DEF JobInHand, Exists
      <4>3. jobs'[j].status = "failed"
        BY <2>8, <3>4, <4>1 DEF WorkerMovesJob, JobBecomes, Claim, ReadyJob, FailJob, At
      <4> QED BY <2>4, <4>2, <4>3
    <3> QED BY <2>8, <3>2, <3>3, <3>4 DEF WorkerMovesJob
  <2>9. JobMovesBy(j)
    BY <1>y, JobsMove
  <2>10. jobs[j].status # "absent"
    BY <2>2 DEF Known
  <2> HIDE DEF Kept
  <2>11. Kept
    BY <2>4, <2>5, <2>6, <2>7, <2>8, <2>9, <2>10 DEF JobMovesBy, JobStays, JobBecomes
  <2> QED BY <1>1, <2>1, <2>2, <2>3, <2>11 DEF Kept, JobInHand
<1>2. CASE worker'[w] # worker[w]
  <2>1. worker' # worker
    BY <1>2
  <2>2. PICK v \in Workers : WorkerProceeds(v) \/ WorkerFails(v)
    BY <2>1 DEF Next, vars, WorkerStep
  <2>3. v = w
    <3>1. Alone(v)
      BY <1>y, <2>2, AloneTurns
    <3> QED BY <1>2, <3>1 DEF Alone
  <2>4. worker[w].pc # "idle" => worker[w].receives <= 1
    BY DEF JobInHand
  <2>5. /\ worker'[w].pc \in Owning => Claim(w) \/ (worker[w].pc \in Owning /\ jobs' = jobs)
        /\ worker'[w].pc = "readyDoc" => ReadyJob(w)
        /\ worker'[w].pc = "failDoc" => FailJob(w)
        /\ worker'[w].pc \in {"giveUpDoc", "giveUpJob"} =>
             worker[w].pc \in {"failDoc", "giveUpDoc"} /\ jobs' = jobs
    BY <1>y, <2>2, <2>3, <2>4, HandTurns
  <2>6. CASE \E m \in Messages : Receive(w, m)
    <3>1. PICK m \in Messages : Receive(w, m)
      BY <2>6
    <3>2. worker'[w].pc = "claim" /\ worker'[w].receives = Receptions(m)
      BY <1>y, <3>1, ReceptionTurns
    <3>3. Receptions(m) = 1
      BY DEF Receptions
    <3> QED BY <3>2, <3>3 DEF JobInHand, Owning
  <2>7. CASE ~\E m \in Messages : Receive(w, m)
    <3>1. worker[w].pc # "idle" /\ KeepsMessage(w)
      BY <1>y, <2>2, <2>3, <2>7, MessageKept DEF Ended
    <3>2. PICK j \in Jobs : j = JobOf(w) /\ Known(j)
      BY <3>1, HandsOn
    <3>3. JobOf(w)' = j /\ worker'[w].receives <= 1
      BY <2>4, <3>1, <3>2 DEF KeepsMessage, JobOf
    <3>4. JobMovesBy(j) /\ jobs \in [Jobs -> Job]
      BY <1>y, JobsMove DEF TypeOK, StoreTypeOK
    <3>5. worker'[w].pc \in Owning => jobs'[j].status \in {"processing", "deleted"}
      <4>1. Claim(w) => jobs'[j].status = "processing"
        BY <3>2, <3>4 DEF Claim, Job
      <4>2. worker[w].pc \in Owning => jobs[j].status \in {"processing", "deleted"}
        BY <3>1, <3>2 DEF JobInHand
      <4> QED BY <2>5, <4>1, <4>2
    <3>6. worker'[w].pc = "readyDoc" => jobs'[j].status \in {"ready", "deleted"}
      <4> SUFFICES ASSUME ReadyJob(w) PROVE jobs'[j].status \in {"ready", "deleted"}
        BY <2>5
      <4>1. jobs[j].status \in {"processing", "deleted"}
        BY <3>1, <3>2 DEF JobInHand, ReadyJob, At, Owning
      <4> QED BY <3>2, <3>4, <4>1 DEF ReadyJob, SetJobStatus, Exists, Job
    <3>7. worker'[w].pc = "failDoc" => jobs'[j].status \in {"failed", "deleted"}
      <4> SUFFICES ASSUME FailJob(w) PROVE jobs'[j].status \in {"failed", "deleted"}
        BY <2>5
      <4>1. jobs[j].status \in {"processing", "deleted"}
        BY <3>1, <3>2 DEF JobInHand, FailJob, At, Owning
      <4>2. CASE jobs[j].status = "deleted"
        BY <3>2, <4>2 DEF FailJob, SetJobStatus, Exists
      <4>3. CASE jobs[j].status = "processing"
        <5>1. jobs' = [[jobs EXCEPT ![j].status = "failed"] EXCEPT ![j].error_type = worker[w].error]
          BY <3>2, <4>3 DEF FailJob, SetJobStatus, Exists
        <5>2. jobs'[j] = [[jobs[j] EXCEPT !.status = "failed"] EXCEPT !.error_type = worker[w].error]
          BY <3>4, <5>1
        <5> DEFINE mid == [jobs[j] EXCEPT !.status = "failed"]
        <5>3. mid \in Job /\ mid.status = "failed"
          BY <3>4 DEF Job, Status
        <5> HIDE DEF mid
        <5>4. jobs'[j].status = mid.status
          BY <5>2, <5>3 DEF Job, mid
        <5> QED BY <5>3, <5>4
      <4> QED BY <4>1, <4>2, <4>3
    <3>8. worker'[w].pc \in {"giveUpDoc", "giveUpJob"} => jobs'[j].status \in {"failed", "deleted"}
      <4>1. worker[w].pc \in {"failDoc", "giveUpDoc"} => jobs[j].status \in {"failed", "deleted"}
        BY <3>1, <3>2 DEF JobInHand
      <4> QED BY <2>5, <4>1
    <3> QED BY <3>3, <3>5, <3>6, <3>7, <3>8 DEF JobInHand
  <2> QED BY <2>6, <2>7
<1> QED BY <1>1, <1>2

-----------------------------------------------------------------------------
(* Documents and the jobs they show, step by step. *)

\* A reindex job keeps showing on its document once somebody hears of it.
LEMMA PointedWhenHeardStays ==
    ASSUME IInv, Registered, ~AmbiguousSend, OneJobEach, PointedWhenHeard,
           \A r \in Reindexers : RequestOnce(r), [Next]_vars
    PROVE  PointedWhenHeard'
<1>y. TypeOK /\ Persists /\ ReindexInOrder
  BY RegisteredPreserved DEF IInv
<1> SUFFICES ASSUME NEW j \in Jobs \ Docs PROVE Untouched(j)' \/ (Known(j) /\ Pointed(j))'
  BY DEF PointedWhenHeard
<1>1. CASE Known(j) /\ Pointed(j)
  <2>1. Pointed(j)'
    BY <1>1, PointedStays
  <2>2. Known(j)'
    BY <1>1, <1>y DEF Persists, JobsPersist
  <2> QED BY <2>1, <2>2
<1>2. CASE ~(Known(j) /\ Pointed(j))
  <2>1. Untouched(j)
    BY <1>2 DEF PointedWhenHeard
  <2>2. ASSUME NEW r \in Reindexers, SendReindexMessage(r) \/ FailReindexJob(r)
        PROVE  Head(reindex[r].queued)[2] # j
    <3>1. reindex[r].queued # <<>>
      BY <1>y, <2>2 DEF SendReindexMessage, FailReindexJob, ReindexAt, ReindexInOrder, InOrder
    <3>2. /\ Renewed(Head(reindex[r].queued)[1], Head(reindex[r].queued)[2])
          /\ Waiting(Head(reindex[r].queued))
      BY <1>y, <3>1, HeadOfQueue DEF RequestOnce
    <3>3. Known(Head(reindex[r].queued)[2]) /\ Pointed(Head(reindex[r].queued)[2])
      BY <3>2 DEF Renewed, Waiting
    <3> QED BY <1>2, <3>3
  <2>3. Untouched(j)'
    BY <2>1, <2>2, UntouchedStays
  <2> QED BY <2>3
<1> QED BY <1>1, <1>2

\* A document with a reindex job nobody has heard of does not become ready.
LEMMA NotMadeReady ==
    ASSUME IInv, Registered, OrderInvariant, OneJobEach, [Next]_vars,
           NEW d \in Docs, NEW j, Renewed(d, j), Unheard(j), docs[d].status # "ready"
    PROVE  docs'[d].status # "ready"
<1>y. TypeOK
  BY DEF IInv
<1> SUFFICES ASSUME docs'[d].status = "ready" PROVE FALSE
  OBVIOUS
<1>1. PICK w \in Workers : ReadyDoc(w) /\ DocOf(w) = d
  BY <1>y, BecomesReady
<1>2. worker[w].pc = "readyDoc"
  BY <1>1 DEF ReadyDoc, At
<1>3. PICK i \in Jobs : i = JobOf(w) /\ Known(i) /\ ~Unheard(i)
  BY <1>2, HandsOn
<1>4. jobs[i].document_id = d
  BY <1>1, <1>3 DEF DocOf
<1>5. CASE i \in Docs
  <2>1. i = d
    BY <1>3, <1>4, <1>5 DEF Registered, JobRecord
  <2>2. Restarted(d)
    BY DEF Restarted, Renewed
  <2>3. ~Busy(w, d)
    BY <2>2 DEF OrderInvariant, ReadyFinished, Finished
  <2> QED BY <1>2, <1>3, <2>1, <2>3 DEF Busy, Working
<1>6. CASE i \notin Docs
  <2>1. Renewed(d, i)
    BY <1>3, <1>4, <1>6 DEF Renewed
  <2>2. i = j
    BY <2>1 DEF OneJobEach, Renewed
  <2> QED BY <1>3, <2>2
<1> QED BY <1>5, <1>6

Living ==
    /\ IInv /\ Registered /\ OrderInvariant /\ LifeInvariant
    /\ \A d \in Docs : Rejecting(d)

\* What waits in a queue waits until its message is sent.
LEMMA WaitingStays ==
    ASSUME Living, ~AmbiguousSend, [Next]_vars, NEW p \in Docs \X Jobs,
           Renewed(p[1], p[2]), Waiting(p),
           \A r \in Reindexers :
              (SendReindexMessage(r) \/ FailReindexJob(r)) => Head(reindex[r].queued)[2] # p[2]
    PROVE  Waiting(p)'
<1>1. p[1] \in Docs /\ p[2] \in Jobs \ Docs /\ Known(p[2])
  BY DEF Renewed
<1>2. Untouched(p[2]) /\ Pointed(p[2]) /\ docs[p[1]].status # "ready"
  BY DEF Waiting
<1>3. IInv /\ Registered /\ OrderInvariant /\ OneJobEach /\ WipedFirst
      /\ \A r \in Reindexers : RequestOnce(r)
  BY DEF Living, LifeInvariant
<1>4. Untouched(p[2])'
  BY <1>1, <1>2, <1>3, UntouchedStays
<1>5. Pointed(p[2])'
  BY <1>1, <1>2, <1>3, PointedStays
<1>6. docs'[p[1]].status # "ready"
  BY <1>1, <1>2, <1>3, NotMadeReady DEF Untouched
<1> QED BY <1>4, <1>5, <1>6 DEF Waiting

\* Sending to or failing the first job of the queue leaves the others waiting.
LEMMA QueueWaits ==
    ASSUME Living, ~AmbiguousSend, OneReindexer, [Next]_vars, NEW r \in Reindexers
    PROVE  /\ ~SendReindexMessage(r) /\ ~FailReindexJob(r) =>
                 \A p \in ToSet(reindex[r].queued) : Waiting(p)'
           /\ SendReindexMessage(r) \/ FailReindexJob(r) =>
                 \A p \in ToSet(Tail(reindex[r].queued)) : Waiting(p)'
<1>y. TypeOK /\ ReindexInOrder /\ reindex[r].queued \in Seq(Docs \X Jobs)
  BY DEF Living, IInv, TypeOK, AdminTypeOK
<1>1. /\ \A p \in ToSet(reindex[r].queued) : Renewed(p[1], p[2]) /\ Waiting(p)
      /\ Distinct(reindex[r].queued)
  BY DEF Living, LifeInvariant, RequestOnce, Registered, ReindexKnown
<1>2. ToSet(reindex[r].queued) \subseteq Docs \X Jobs
  <2>1. \A i \in 1..Len(reindex[r].queued) : reindex[r].queued[i] \in Docs \X Jobs
    BY <1>y, ElementOfSeq
  <2> QED BY <2>1 DEF ToSet
<1>3. \A s \in Reindexers : s = r
  BY DEF OneReindexer
<1>4. ASSUME ~SendReindexMessage(r), ~FailReindexJob(r), NEW p \in ToSet(reindex[r].queued)
      PROVE  Waiting(p)'
  BY <1>1, <1>2, <1>3, <1>4, WaitingStays
<1>5. ASSUME SendReindexMessage(r) \/ FailReindexJob(r), NEW p \in ToSet(Tail(reindex[r].queued))
      PROVE  Waiting(p)'
  <2>1. reindex[r].queued # <<>>
    BY <1>y, <1>5 DEF SendReindexMessage, FailReindexJob, ReindexAt, ReindexInOrder, InOrder
  <2>2. p \in ToSet(reindex[r].queued) /\ p # Head(reindex[r].queued)
    BY <1>1, <1>5, <1>y, <2>1, DistinctTail
  <2>3. Head(reindex[r].queued) \in ToSet(reindex[r].queued)
    BY <1>y, <2>1, HeadOfQueue DEF Living
  <2>4. PICK h \in Docs \X Jobs : h = Head(reindex[r].queued) /\ Renewed(h[1], h[2]) /\ h # p
    BY <1>1, <1>2, <2>2, <2>3
  <2>5. p \in Docs \X Jobs /\ Renewed(p[1], p[2])
    BY <1>1, <1>2, <2>2
  <2>6. h[2] # p[2]
    <3> SUFFICES ASSUME h[2] = p[2] PROVE FALSE
      OBVIOUS
    <3>1. h[1] = p[1]
      BY <2>4, <2>5 DEF Renewed
    <3> QED BY <2>4, <2>5, <3>1
  <2>7. \A s \in Reindexers : Head(reindex[s].queued)[2] # p[2]
    BY <1>3, <2>4, <2>6
  <2> QED BY <1>1, <2>2, <2>5, <2>7, WaitingStays
<1> QED BY <1>4, <1>5

\* Nothing but the creation of a job gives a document one.
LEMMA NoNewJob ==
    ASSUME Living, [Next]_vars, \A r \in Reindexers : ~InsertReindexJob(r)
    PROVE  \A d, j : Renewed(d, j)' => Renewed(d, j)
<1>y. IInv /\ Registered /\ Persists
  BY RegisteredPreserved DEF Living
<1>1. \A j \in Jobs \ Docs : Known(j)' => Known(j)
  BY <1>y, ReindexingCreates
<1> QED BY <1>1, <1>y DEF Renewed, Persists, JobsPersist

\* A step of a request after which it is not about to point a document to a job.
LEMMA RequestGoesOn ==
    ASSUME Living, ~AmbiguousSend, OneReindexer, [Next]_vars, NEW r \in Reindexers,
           \/ /\ ~SendReindexMessage(r) /\ ~FailReindexJob(r)
              /\ reindex'[r].queued = reindex[r].queued
           \/ /\ SendReindexMessage(r) \/ FailReindexJob(r)
              /\ reindex'[r].queued = Tail(reindex[r].queued),
           ~InsertReindexJob(r), reindex'[r].todo \subseteq reindex[r].todo,
           reindex'[r].pc # "pointDoc"
    PROVE  RequestOnce(r)'
<1>y. IInv /\ Registered /\ TypeOK /\ ReindexInOrder /\ reindex[r].queued \in Seq(Docs \X Jobs)
  BY DEF Living, IInv, TypeOK, AdminTypeOK
<1>1. RequestOnce(r)
  BY DEF Living, LifeInvariant
<1>2. Distinct(reindex'[r].queued)
  <2>1. CASE reindex'[r].queued = reindex[r].queued
    BY <1>1, <2>1 DEF RequestOnce
  <2>2. CASE (SendReindexMessage(r) \/ FailReindexJob(r))
             /\ reindex'[r].queued = Tail(reindex[r].queued)
    <3>1. reindex[r].queued # <<>>
      BY <1>y, <2>2 DEF SendReindexMessage, FailReindexJob, ReindexAt, ReindexInOrder, InOrder
    <3> QED BY <1>1, <1>y, <2>2, <3>1, DistinctTail DEF RequestOnce
  <2> QED BY <2>1, <2>2
<1>3. \A p \in ToSet(reindex'[r].queued) : Waiting(p)'
  BY QueueWaits
<1>4. \A d \in reindex'[r].todo, j \in Jobs : ~Renewed(d, j)'
  <2>1. \A s \in Reindexers : ~InsertReindexJob(s)
    BY DEF OneReindexer
  <2>2. \A d, j : Renewed(d, j)' => Renewed(d, j)
    BY <2>1, NoNewJob
  <2> QED BY <1>1, <2>2 DEF RequestOnce
<1>5. Distinct(reindex[r].queued)'
  BY <1>2 DEF Distinct
<1> QED BY <1>3, <1>4, <1>5 DEF RequestOnce

\* The job a request has just created is nobody's yet.
LEMMA InsertsOnce ==
    ASSUME Living, ~AmbiguousSend, OneReindexer, [Next]_vars, NEW r \in Reindexers,
           InsertReindexJob(r)
    PROVE  RequestOnce(r)'
<1>y. IInv /\ Registered /\ TypeOK /\ ReindexInOrder /\ jobs \in [Jobs -> Job]
      /\ PointedWhenHeard /\ RequestOnce(r)
  BY DEF Living, IInv, LifeInvariant, TypeOK, StoreTypeOK
<1>1. PICK d \in reindex[r].todo, j \in Jobs \ Docs :
         /\ jobs[j].status = "absent"
         /\ jobs' = InsertJob(j, d)
         /\ Request(r, "pointDoc", reindex[r].todo \ {d}, <<d, j>>, reindex[r].queued)
  BY <1>y, RequestTurns
<1>2. /\ reindex'[r].pc = "pointDoc" /\ reindex'[r].todo = reindex[r].todo \ {d}
      /\ reindex'[r].current = <<d, j>> /\ reindex'[r].queued = reindex[r].queued
  BY <1>1 DEF Request
<1>3. ~Known(j)
  BY <1>1 DEF Known
<1>4. reindex[r].pc = "insertJob"
  BY DEF InsertReindexJob, ReindexAt
<1>5. \A s \in Reindexers : s = r /\ ~SendReindexMessage(s) /\ ~FailReindexJob(s)
  BY <1>4 DEF OneReindexer, SendReindexMessage, FailReindexJob, ReindexAt
<1>6. Untouched(j)'
  <2>1. Untouched(j)
    BY <1>3, <1>y DEF PointedWhenHeard
  <2> QED BY <1>5, <1>y, <2>1, UntouchedStays
<1>7. <<d, j>> \notin ToSet(reindex[r].queued)
  BY <1>3, <1>y DEF Registered, ReindexKnown, Renewed
<1>8. \A p \in ToSet(reindex[r].queued) : Waiting(p)'
  BY <1>5, QueueWaits
<1>9. ASSUME NEW e \in reindex[r].todo \ {d}, NEW i \in Jobs, Renewed(e, i)' PROVE FALSE
  <2>1. jobs'[j].document_id = d
    BY <1>1, <1>y DEF InsertJob, NoJob
  <2>2. i # j
    BY <1>9, <2>1 DEF Renewed
  <2>3. jobs'[i] = jobs[i]
    BY <1>1, <1>y, <2>2 DEF InsertJob
  <2>4. Renewed(e, i)
    BY <1>9, <2>3 DEF Renewed, Known
  <2> QED BY <1>9, <1>y, <2>4 DEF RequestOnce
<1>10. Distinct(reindex[r].queued)'
  BY <1>2, <1>y DEF RequestOnce, Distinct
<1>11. reindex'[r].current[2] = j /\ reindex'[r].current \notin ToSet(reindex'[r].queued)
  BY <1>2, <1>7
<1>12. \A e \in reindex'[r].todo, i \in Jobs : ~Renewed(e, i)'
  BY <1>2, <1>9
<1>13. \A p \in ToSet(reindex'[r].queued) : Waiting(p)'
  BY <1>2, <1>8
<1>14. \A k : k = j => Untouched(k)'
  BY <1>6
<1>15. Untouched(reindex[r].current[2])'
  BY <1>11, <1>6 DEF Untouched, Unheard
<1> QED BY <1>10, <1>11, <1>12, <1>13, <1>15 DEF RequestOnce

\* The document a request points to a new job waits for the message of that job.
LEMMA PointsOnce ==
    ASSUME Living, ~AmbiguousSend, OneReindexer, [Next]_vars, NEW r \in Reindexers,
           PointDocument(r)
    PROVE  RequestOnce(r)'
<1>y. /\ IInv /\ Registered /\ TypeOK /\ ReindexInOrder /\ docs \in [Docs -> Document]
      /\ RequestOnce(r) /\ reindex[r].queued \in Seq(Docs \X Jobs)
  BY DEF Living, IInv, LifeInvariant, TypeOK, StoreTypeOK, AdminTypeOK
<1>1. reindex[r].pc = "pointDoc"
  BY DEF PointDocument, ReindexAt
<1>2. PICK c \in Docs \X Jobs : c = reindex[r].current
  BY <1>1, <1>y DEF ReindexInOrder, InOrder
<1>3. Renewed(c[1], c[2]) /\ Untouched(c[2]) /\ c \notin ToSet(reindex[r].queued)
  BY <1>1, <1>2, <1>y DEF Registered, ReindexKnown, RequestOnce
<1>4. /\ reindex'[r].pc = NextStep(reindex[r].todo) /\ reindex'[r].todo = reindex[r].todo
      /\ reindex'[r].queued = Append(reindex[r].queued, c)
  BY <1>2, <1>y, RequestTurns DEF Request
<1>5. reindex'[r].pc # "pointDoc"
  BY <1>4 DEF NextStep
<1>6. \A s \in Reindexers : s = r /\ ~SendReindexMessage(s) /\ ~FailReindexJob(s)
                            /\ ~InsertReindexJob(s)
  BY <1>1 DEF OneReindexer, SendReindexMessage, FailReindexJob, InsertReindexJob, ReindexAt
<1>7. \A p \in ToSet(reindex[r].queued) : Waiting(p)'
  BY <1>6, QueueWaits
<1>8. Untouched(c[2])'
  BY <1>3, <1>6, <1>y, UntouchedStays DEF Renewed
<1>9. jobs' = jobs /\ jobs[c[2]].document_id = c[1]
  BY <1>3 DEF PointDocument, Renewed
<1>10. docs' = IF Exists(docs[c[1]])
               THEN [docs EXCEPT ![c[1]].status = "queued", ![c[1]].job_id = c[2]]
               ELSE docs
  BY <1>2 DEF PointDocument
<1>11. \/ ~Exists(docs[c[1]]) /\ docs'[c[1]] = docs[c[1]]
       \/ docs'[c[1]].status = "queued" /\ docs'[c[1]].job_id = c[2]
  <2> DEFINE old == docs[c[1]]
             mid == [status |-> "queued", job_id |-> old.job_id, version |-> old.version,
                     lineage_id |-> old.lineage_id, superseded_by |-> old.superseded_by,
                     content_hash |-> old.content_hash]
  <2>1. CASE ~Exists(docs[c[1]])
    BY <1>10, <2>1
  <2>2. CASE Exists(docs[c[1]])
    <3>1. docs'[c[1]] = [[old EXCEPT !.status = "queued"] EXCEPT !.job_id = c[2]]
      BY <1>10, <1>y, <2>2
    <3>2. [old EXCEPT !.status = "queued"] = mid
      BY <1>y DEF Document
    <3>3. [mid EXCEPT !.job_id = c[2]].status = "queued" /\ [mid EXCEPT !.job_id = c[2]].job_id = c[2]
      OBVIOUS
    <3>4. docs'[c[1]] = [mid EXCEPT !.job_id = c[2]]
      BY <3>1, <3>2
    <3> HIDE DEF mid
    <3> QED BY <3>3, <3>4
  <2> QED BY <2>1, <2>2
<1>12. Pointed(c[2])' /\ docs'[c[1]].status # "ready"
  BY <1>9, <1>11 DEF Pointed, Exists
<1>13. Waiting(c)'
  BY <1>8, <1>12 DEF Waiting
<1>14. \A p \in ToSet(reindex'[r].queued) : Waiting(p)'
  <2>1. ToSet(reindex'[r].queued) = ToSet(reindex[r].queued) \cup {c}
    BY <1>4, <1>y, ElementsAppended
  <2> QED BY <1>7, <1>13, <2>1
<1>15. Distinct(reindex[r].queued)'
  <2>1. Distinct(reindex'[r].queued)
    BY <1>3, <1>4, <1>y, DistinctAppend DEF RequestOnce
  <2> QED BY <2>1 DEF Distinct
<1>16. \A d \in reindex'[r].todo, j \in Jobs : ~Renewed(d, j)'
  <2>1. \A d, j : Renewed(d, j)' => Renewed(d, j)
    BY <1>6, NoNewJob
  <2> QED BY <1>4, <1>y, <2>1 DEF RequestOnce
<1> QED BY <1>5, <1>14, <1>15, <1>16 DEF RequestOnce

\* Whatever happens, a request creates at most one job for each document.
LEMMA RequestOnceStays ==
    ASSUME Living, ~AmbiguousSend, OneReindexer, [Next]_vars, NEW r \in Reindexers
    PROVE  RequestOnce(r)'
<1>y. /\ IInv /\ Registered /\ TypeOK /\ ReindexInOrder /\ WipedFirst /\ RequestOnce(r)
      /\ reindex[r].queued \in Seq(Docs \X Jobs)
  BY DEF Living, IInv, LifeInvariant, TypeOK, AdminTypeOK
<1>s. \A s \in Reindexers : s = r
  BY DEF OneReindexer
<1>1. CASE reindex'[r] = reindex[r]
  <2>1. ~InsertReindexJob(r)
    <3> SUFFICES ASSUME InsertReindexJob(r) PROVE FALSE
      OBVIOUS
    <3>1. reindex'[r].pc = "pointDoc" /\ reindex[r].pc = "insertJob"
      BY <1>y, RequestTurns DEF Request, InsertReindexJob, ReindexAt
    <3> QED BY <1>1, <3>1
  <2>2. ~FailReindexJob(r)
    <3> SUFFICES ASSUME FailReindexJob(r) PROVE FALSE
      OBVIOUS
    <3>1. reindex'[r].pc \in {"aborted", "failDoc"} /\ reindex[r].pc = "failJob"
      BY <1>y, RequestTurns DEF Request, FailReindexJob, ReindexAt
    <3> QED BY <1>1, <3>1
  <2>3. ~SendReindexMessage(r)
    <3> SUFFICES ASSUME SendReindexMessage(r) PROVE FALSE
      OBVIOUS
    <3>1. reindex'[r].queued = Tail(reindex[r].queued) /\ reindex[r].queued # <<>>
      BY <1>y, RequestTurns DEF Request, SendReindexMessage
    <3>2. Len(Tail(reindex[r].queued)) = Len(reindex[r].queued) - 1 /\ Len(reindex[r].queued) \in Nat
      BY <1>y, <3>1, HeadTailProperties, LenProperties
    <3>3. Tail(reindex[r].queued) = reindex[r].queued
      BY <1>1, <3>1
    <3>4. Len(Tail(reindex[r].queued)) = Len(reindex[r].queued)
      BY <3>3
    <3> QED BY <3>2, <3>4
  <2>4. \A p \in ToSet(reindex[r].queued) : Waiting(p)'
    BY <2>2, <2>3, QueueWaits
  <2>5. reindex[r].pc = "pointDoc" => Untouched(reindex[r].current[2])'
    <3> SUFFICES ASSUME reindex[r].pc = "pointDoc" PROVE Untouched(reindex[r].current[2])'
      OBVIOUS
    <3>1. PICK j \in Jobs \ Docs : j = reindex[r].current[2] /\ Untouched(j)
      BY <1>y DEF Registered, ReindexKnown, Renewed, RequestOnce
    <3>2. Untouched(j)'
      BY <1>s, <1>y, <2>2, <2>3, <3>1, UntouchedStays
    <3>3. reindex'[r].current[2] = j
      BY <1>1, <3>1
    <3> QED BY <3>2, <3>3 DEF Untouched, Unheard
  <2>6. \A d, j : Renewed(d, j)' => Renewed(d, j)
    BY <1>s, <2>1, NoNewJob
  <2>7. Distinct(reindex[r].queued)'
    BY <1>1, <1>y DEF RequestOnce, Distinct
  <2>8. reindex[r].pc = "pointDoc" => reindex'[r].current \notin ToSet(reindex'[r].queued)
    BY <1>1, <1>y DEF RequestOnce
  <2>9. \A d \in reindex'[r].todo, j \in Jobs : ~Renewed(d, j)'
    BY <1>1, <1>y, <2>6 DEF RequestOnce
  <2>10. \A p \in ToSet(reindex'[r].queued) : Waiting(p)'
    BY <1>1, <2>4
  <2>11. reindex'[r].pc = "pointDoc" =>
            Untouched(reindex[r].current[2])' /\ reindex'[r].current \notin ToSet(reindex'[r].queued)
    BY <1>1, <2>5, <2>8
  <2> QED BY <2>7, <2>9, <2>10, <2>11 DEF RequestOnce
<1>2. CASE reindex'[r] # reindex[r]
  <2>1. ReindexStep
    BY <1>2 DEF Next, vars, DeletionStep, StartDeletion, DeleteVectors, DeleteJobs,
                DeleteDocument, DeletionFails
  <2>2. \/ StartReindex(r) \/ WipeNamespace(r) \/ FindReady(r) \/ InsertReindexJob(r)
        \/ PointDocument(r) \/ SendReindexMessage(r) \/ FinishReindex(r)
        \/ ReindexSendRaises(r) \/ FailReindexDocument(r) \/ FailReindexJob(r)
        \/ ReindexFails(r)
    BY <1>s, <2>1 DEF ReindexStep
  <2>3. StartReindex(r) \/ WipeNamespace(r) \/ FinishReindex(r) \/ ReindexSendRaises(r)
        \/ FailReindexDocument(r) => RequestOnce(r)'
    <3> SUFFICES ASSUME StartReindex(r) \/ WipeNamespace(r) \/ FinishReindex(r)
                        \/ ReindexSendRaises(r) \/ FailReindexDocument(r)
                 PROVE  RequestOnce(r)'
      OBVIOUS
    <3>1. /\ reindex'[r].queued = reindex[r].queued /\ reindex'[r].todo = reindex[r].todo
          /\ reindex'[r].pc # "pointDoc"
      BY <1>y, RequestTurns DEF Request
    <3>2. ~InsertReindexJob(r) /\ ~FailReindexJob(r)
      BY DEF StartReindex, WipeNamespace, FinishReindex, ReindexSendRaises, FailReindexDocument,
             InsertReindexJob, FailReindexJob, ReindexAt
    <3>3. ~SendReindexMessage(r)
      <4> SUFFICES ASSUME SendReindexMessage(r) PROVE FALSE
        OBVIOUS
      <4>1. reindex'[r].queued = Tail(reindex[r].queued) /\ reindex[r].queued # <<>>
        BY <1>y, RequestTurns DEF Request, SendReindexMessage
      <4>2. Len(Tail(reindex[r].queued)) = Len(reindex[r].queued) - 1 /\ Len(reindex[r].queued) \in Nat
        BY <1>y, <4>1, HeadTailProperties, LenProperties
      <4>3. Tail(reindex[r].queued) = reindex[r].queued
        BY <3>1, <4>1
      <4>4. Len(Tail(reindex[r].queued)) = Len(reindex[r].queued)
        BY <4>3
      <4> QED BY <4>2, <4>4
    <3> QED BY <3>1, <3>2, <3>3, RequestGoesOn
  <2>4. ASSUME SendReindexMessage(r) \/ FailReindexJob(r) PROVE RequestOnce(r)'
    <3>1. /\ reindex'[r].queued = Tail(reindex[r].queued) /\ reindex'[r].todo = reindex[r].todo
          /\ reindex'[r].pc # "pointDoc"
      BY <1>y, <2>4, RequestTurns DEF Request
    <3>2. ~InsertReindexJob(r)
      BY <2>4 DEF SendReindexMessage, InsertReindexJob, FailReindexJob, ReindexAt
    <3> QED BY <2>4, <3>1, <3>2, RequestGoesOn
  <2>5. ASSUME FindReady(r) PROVE RequestOnce(r)'
    <3>1. PICK ready : Request(r, NextStep(ready), ready, reindex[r].current, reindex[r].queued)
      BY <1>y, <2>5, RequestTurns
    <3>2. reindex'[r].pc # "pointDoc" /\ reindex'[r].queued = reindex[r].queued
      BY <3>1 DEF Request, NextStep
    <3>3. reindex[r].pc = "find"
      BY <2>5 DEF FindReady, ReindexAt
    <3>4. ~InsertReindexJob(r) /\ ~FailReindexJob(r) /\ ~SendReindexMessage(r)
      BY <3>3 DEF InsertReindexJob, FailReindexJob, SendReindexMessage, ReindexAt
    <3>5. \A d, j : ~Renewed(d, j)
      BY <1>y, <3>3 DEF WipedFirst, NoReindexJobs, Renewed
    <3>6. \A d, j : ~Renewed(d, j)'
      BY <1>s, <3>4, <3>5, NoNewJob
    <3>7. Distinct(reindex[r].queued)'
      BY <1>y, <3>2 DEF RequestOnce, Distinct
    <3>8. \A p \in ToSet(reindex'[r].queued) : Waiting(p)'
      BY <3>2, <3>4, QueueWaits
    <3> QED BY <3>2, <3>6, <3>7, <3>8 DEF RequestOnce
  <2>6. ASSUME ReindexFails(r) PROVE RequestOnce(r)'
    <3>1. reindex'[r].pc = "aborted" /\ reindex'[r].todo = {} /\ reindex'[r].queued = <<>>
      BY <1>y, <2>6, RequestTurns DEF Request
    <3>2. \A p : p \notin ToSet(reindex'[r].queued)
      BY <3>1 DEF ToSet
    <3>3. Distinct(reindex[r].queued)'
      BY <3>1 DEF Distinct
    <3> QED BY <3>1, <3>2, <3>3 DEF RequestOnce
  <2> QED BY <2>2, <2>3, <2>4, <2>5, <2>6, InsertsOnce, PointsOnce
<1> QED BY <1>1, <1>2

\* The job a ready document shows stays ready or goes.
LEMMA ReadyJobStays ==
    ASSUME Living, [Next]_vars, NEW d \in Docs, NEW j \in Jobs, Known(j),
           jobs[j].status \in {"ready", "deleted"}
    PROVE  jobs'[j].status \in {"ready", "deleted"}
<1>y. /\ IInv /\ Registered /\ TypeOK /\ ReindexInOrder
      /\ \A e \in Docs : Rejecting(e)
      /\ \A r \in Reindexers : RequestOnce(r)
      /\ \A w \in Workers : JobInHand(w)
  BY DEF Living, IInv, LifeInvariant
<1> DEFINE Goal == jobs'[j].status \in {"ready", "deleted"}
<1>1. JobStays(j) => Goal
  BY DEF JobStays
<1>2. ~(j \in Docs /\ InsertUploadJob(j))
  BY <1>y DEF InsertUploadJob, Registered, UploadStage, BeforeJob
<1>3. ~(j \in Docs /\ FailUploadedJob(j) /\ JobBecomes(j, "failed"))
  BY <1>y DEF FailUploadedJob, Rejecting, WithheldUpload, Withheld, JobBecomes, Exists
<1>4. ASSUME NEW w \in Workers, WorkerMovesJob(w, j) PROVE Goal
  <2>1. JobOf(w) = j /\ jobs[j].status = "ready"
    BY <1>4 DEF WorkerMovesJob, JobBecomes, Exists
  <2>2. ~Claim(w)
    BY <2>1 DEF Claim, Claimable
  <2>3. ~FailJob(w)
    BY <1>y, <2>1 DEF FailJob, At, JobInHand, Owning
  <2>4. ~GiveUpJob(w)
    BY <1>y, <2>1 DEF GiveUpJob, At, JobInHand
  <2> QED BY <1>4, <2>2, <2>3, <2>4 DEF WorkerMovesJob, JobBecomes
<1>5. \A r \in Reindexers :
         ~(FailReindexJob(r) /\ Head(reindex[r].queued)[2] = j /\ JobBecomes(j, "failed"))
  <2> SUFFICES ASSUME NEW r \in Reindexers, FailReindexJob(r), Head(reindex[r].queued)[2] = j,
                      JobBecomes(j, "failed")
               PROVE  FALSE
    OBVIOUS
  <2>1. reindex[r].queued # <<>>
    BY <1>y DEF FailReindexJob, ReindexAt, ReindexInOrder, InOrder
  <2>2. Untouched(j)
    BY <1>y, <2>1, HeadOfQueue DEF RequestOnce, Waiting
  <2> QED BY <2>2 DEF Untouched, JobBecomes, Exists
<1>6. JobMovesBy(j)
  BY <1>y, JobsMove
<1> HIDE DEF Goal
<1>7. \A s : JobBecomes(j, s) /\ s = "deleted" => Goal
  BY DEF JobBecomes, Goal
<1>8. jobs[j].status # "absent"
  BY DEF Known
<1>9. Goal
  BY <1>1, <1>2, <1>3, <1>4, <1>5, <1>6, <1>7, <1>8 DEF JobMovesBy
<1> QED BY <1>9 DEF Goal

\* A worker that makes a document ready has made the job it shows ready.
LEMMA ReadyWithItsJob ==
    ASSUME Living, [Next]_vars, NEW d \in Docs, NEW w \in Workers, ReadyDoc(w), DocOf(w) = d,
           Exists(docs[d])
    PROVE  docs[d].job_id \in Jobs /\ jobs[docs[d].job_id].status \in {"ready", "deleted"}
<1>y. /\ IInv /\ Registered /\ TypeOK /\ OrderInvariant /\ PointedWhenHeard
      /\ JobInHand(w)
  BY DEF Living, IInv, LifeInvariant
<1>1. worker[w].pc = "readyDoc"
  BY DEF ReadyDoc, At
<1>2. PICK i \in Jobs : i = JobOf(w) /\ Known(i) /\ ~Unheard(i)
  BY <1>1, <1>y, HandsOn
<1>3. jobs[i].document_id = d
  BY <1>2 DEF DocOf
<1>4. jobs[i].status \in {"ready", "deleted"}
  BY <1>1, <1>2, <1>y DEF JobInHand
<1>5. docs[d].job_id = i
  <2>1. CASE i \in Docs
    <3>1. i = d
      BY <1>2, <1>3, <1>y, <2>1 DEF Registered, JobRecord
    <3>2. Busy(w, d)
      BY <1>1, <1>2, <3>1 DEF Busy, Working
    <3>3. ~Restarted(d)
      BY <1>y, <3>2 DEF OrderInvariant, ReadyFinished, Finished
    <3>4. \A j : ~Renewed(d, j)
      BY <3>3 DEF Restarted, Renewed
    <3> QED BY <1>y, <3>1, <3>4 DEF Registered, RecordOf, Inserted, Exists
  <2>2. CASE i \notin Docs
    <3>1. Pointed(i)
      BY <1>2, <1>y, <2>2 DEF PointedWhenHeard, Untouched
    <3> QED BY <1>3, <3>1 DEF Pointed
  <2> QED BY <2>1, <2>2
<1> QED BY <1>2, <1>4, <1>5

\* A ready document keeps showing a job that is ready too.
LEMMA ReadyDocumentsStay ==
    ASSUME Living, [Next]_vars
    PROVE  ReadyDocHasReadyJob'
<1>y. IInv /\ Registered /\ TypeOK /\ ReadyDocHasReadyJob
  BY DEF Living, IInv, LifeInvariant
<1> SUFFICES ASSUME NEW d \in Docs, docs'[d].status = "ready"
             PROVE  jobs'[docs'[d].job_id].status \in {"ready", "deleted"}
  BY DEF ReadyDocHasReadyJob
<1>1. DocMoves(d)
  BY <1>y, DocumentsMove
<1>2. CASE docs[d].status = "ready"
  <2>1. docs'[d].job_id = docs[d].job_id
    BY <1>1 DEF DocMoves, DocStays, DocBecomes, WorkerMovesDoc, Repoints
  <2>2. PICK j \in Jobs : j = docs[d].job_id /\ jobs[j].status \in {"ready", "deleted"}
    <3>1. docs[d].job_id = d \/ Renewed(d, docs[d].job_id)
      BY <1>2, <1>y DEF Registered, RecordOf, Inserted
    <3>2. d \in Jobs
      BY BoundsAssumption DEF Docs, Jobs
    <3>3. docs[d].job_id \in Jobs
      BY <3>1, <3>2 DEF Renewed
    <3> QED BY <1>2, <1>y, <3>3 DEF ReadyDocHasReadyJob
  <2>3. jobs'[j].status \in {"ready", "deleted"}
    BY <2>2, ReadyJobStays DEF Known
  <2> QED BY <2>1, <2>2, <2>3
<1>3. CASE docs[d].status # "ready"
  <2>1. PICK w \in Workers : ReadyDoc(w) /\ DocOf(w) = d
    BY <1>3, <1>y, BecomesReady
  <2>2. Exists(docs[d]) /\ docs'[d].job_id = docs[d].job_id
    BY <1>1, <1>3 DEF DocMoves, DocStays, DocBecomes, WorkerMovesDoc, Repoints
  <2>3. docs[d].job_id \in Jobs /\ jobs[docs[d].job_id].status \in {"ready", "deleted"}
    BY <2>1, <2>2, ReadyWithItsJob
  <2>4. jobs' = jobs
    BY <2>1 DEF ReadyDoc
  <2> QED BY <2>2, <2>3, <2>4
<1> QED BY <1>2, <1>3

\* No job has been created, heard of or taken.
LEMMA LifeInitially == Init => LifeInvariant
<1> SUFFICES ASSUME Init PROVE LifeInvariant
  OBVIOUS
<1>1. /\ \A j \in Jobs : ~Known(j) /\ jobs[j].status = "absent"
      /\ \A d \in Docs : docs[d].status = "absent"
      /\ \A w \in Workers : worker[w].pc = "idle"
      /\ \A r \in Reindexers : reindex[r] = NoReindex
  BY DEF Init, StoreInit, WorkerInit, AdminInit, NoJob, NoDocument, Idle, Known
<1>2. \A m \in Messages : broker[m].state = "unsent"
  BY DEF Init, StoreInit
<1>3. \A s \in Sweeps : sweeps[s].todo = {} /\ sweeps[s].current = None
  BY DEF Init, SweepInit
<1>4. \A j \in Jobs : j # None
  BY DEF Jobs, None, BoundsAssumption
<1>5. \A j \in Jobs : Untouched(j)
  BY <1>1, <1>2, <1>3, <1>4 DEF Untouched, Unheard
<1>6. \A d, j : ~Renewed(d, j)
  BY <1>1 DEF Renewed
<1>7. \A r \in Reindexers : RequestOnce(r)
  <2> SUFFICES ASSUME NEW r \in Reindexers PROVE RequestOnce(r)
    OBVIOUS
  <2>1. reindex[r].queued = <<>> /\ reindex[r].pc = "off" /\ reindex[r].todo = {}
    BY <1>1 DEF NoReindex
  <2>2. \A p : p \notin ToSet(reindex[r].queued)
    BY <2>1 DEF ToSet
  <2>3. Distinct(reindex[r].queued)
    BY <2>1 DEF Distinct
  <2> QED BY <2>1, <2>2, <2>3 DEF RequestOnce
<1>8. WipedFirst
  BY <1>1 DEF WipedFirst, NoReindexJobs
<1>9. OneJobEach /\ PointedWhenHeard
  BY <1>5, <1>6 DEF OneJobEach, PointedWhenHeard
<1>10. \A w \in Workers : JobInHand(w)
  BY <1>1 DEF JobInHand
<1>11. ReadyDocHasReadyJob
  BY <1>1 DEF ReadyDocHasReadyJob
<1> QED BY <1>7, <1>8, <1>9, <1>10, <1>11 DEF LifeInvariant

\* Every step keeps documents and their jobs in line.
LEMMA LifePreserved ==
    ASSUME Backend # "sqs", ~AmbiguousSend, OneReindexer, Living, [Next]_vars
    PROVE  Living'
<1>y. /\ IInv /\ Registered /\ OrderInvariant
      /\ \A d \in Docs : Rejecting(d)
      /\ WipedFirst /\ OneJobEach /\ PointedWhenHeard
      /\ \A r \in Reindexers : RequestOnce(r)
      /\ \A w \in Workers : JobInHand(w)
  BY DEF Living, LifeInvariant
<1>1. IInv' /\ Registered' /\ OrderInvariant'
  BY <1>y, InvariantPreserved, RegisteredPreserved, OrderPreserved
<1>2. \A d \in Docs : Rejecting(d)'
  BY <1>y, RejectingStays
<1>3. WipedFirst' /\ OneJobEach' /\ PointedWhenHeard'
  BY <1>y, WipedFirstStays, OneJobStays, PointedWhenHeardStays
<1>4. \A r \in Reindexers : RequestOnce(r)'
  BY RequestOnceStays
<1>5. \A w \in Workers : JobInHand(w)'
  BY <1>y, JobInHandStays
<1>6. ReadyDocHasReadyJob'
  BY ReadyDocumentsStay
<1> QED BY <1>1, <1>2, <1>3, <1>4, <1>5, <1>6 DEF Living, LifeInvariant

\* get_document_status answers "ready" for a ready document: its job is ready too.  On
\* Kafka, whose receptions are not counted, with sends that fail only when they failed, and
\* with one reindex request.
THEOREM ReadyDocumentsHaveReadyJobs ==
    Backend # "sqs" /\ AmbiguousSend = FALSE /\ OneReindexer => (Spec => []ReadyDocHasReadyJob)
<1> SUFFICES ASSUME Backend # "sqs", AmbiguousSend = FALSE, OneReindexer
             PROVE  Spec => []ReadyDocHasReadyJob
  OBVIOUS
<1>1. Init => Living
  BY InitialInvariant, RegisteredInitially, OrderInitially, RejectingInitially, LifeInitially
     DEF Living
<1>2. Living /\ [Next]_vars => Living'
  BY LifePreserved
<1>3. Living => ReadyDocHasReadyJob
  BY DEF Living, LifeInvariant
<1> QED BY <1>1, <1>2, <1>3, PTL DEF Spec

-----------------------------------------------------------------------------
(* What a client polls. *)

\* A step that moves a job moves no other, nor a document.
LEMMA JobMovesAlone ==
    ASSUME TypeOK, Deletable = {}, [Next]_vars, NEW j \in Jobs, ~JobStays(j)
    PROVE  docs' = docs /\ \A k \in Jobs \ {j} : JobStays(k)
<1>y. jobs \in [Jobs -> Job]
  BY DEF TypeOK, StoreTypeOK
<1> DEFINE Goal == docs' = docs /\ \A k \in Jobs \ {j} : JobStays(k)
<1>s. ASSUME NEW s, jobs' = SetJobStatus(j, s), docs' = docs PROVE Goal
  BY <1>y, <1>s, SetJobStatusMoves
<1>i. ASSUME NEW d, jobs' = InsertJob(j, d), docs' = docs PROVE Goal
  BY <1>y, <1>i DEF InsertJob, JobStays
<1>1. j \in Docs /\ InsertUploadJob(j) => Goal
  BY <1>i DEF InsertUploadJob
<1>2. FailUploadedJob(j) => Goal
  BY <1>s DEF FailUploadedJob
<1>3. ASSUME NEW w \in Workers, WorkerMovesJob(w, j) PROVE Goal
  <2>1. JobOf(w) = j /\ Exists(jobs[j])
    BY <1>3 DEF WorkerMovesJob, JobBecomes
  <2>2. Claim(w) => Goal
    <3> SUFFICES ASSUME Claim(w) PROVE Goal
      OBVIOUS
    <3>1. jobs' = [jobs EXCEPT ![j].status = "processing"] /\ docs' = docs
      BY <2>1 DEF Claim
    <3> QED BY <1>y, <3>1 DEF JobStays
  <2>3. ReadyJob(w) \/ GiveUpJob(w) => Goal
    BY <1>s, <2>1 DEF ReadyJob, GiveUpJob
  <2>4. FailJob(w) => Goal
    <3> SUFFICES ASSUME FailJob(w) PROVE Goal
      OBVIOUS
    <3>1. /\ docs' = docs
          /\ jobs' = [[jobs EXCEPT ![j].status = "failed"] EXCEPT ![j].error_type = worker[w].error]
      BY <2>1 DEF FailJob, SetJobStatus
    <3> QED BY <1>y, <3>1 DEF JobStays
  <2> QED BY <1>3, <2>2, <2>3, <2>4 DEF WorkerMovesJob
<1>4. ASSUME NEW r \in Reindexers, InsertReindexJob(r), reindex'[r].current[2] = j PROVE Goal
  <2>1. PICK d \in reindex[r].todo, i \in Jobs \ Docs :
           /\ jobs' = InsertJob(i, d)
           /\ Request(r, "pointDoc", reindex[r].todo \ {d}, <<d, i>>, reindex[r].queued)
    BY <1>4, RequestTurns
  <2>2. i = j
    BY <1>4, <2>1 DEF Request
  <2>3. docs' = docs
    BY <1>4 DEF InsertReindexJob
  <2> QED BY <1>i, <2>1, <2>2, <2>3
<1>5. \A r \in Reindexers : FailReindexJob(r) /\ Head(reindex[r].queued)[2] = j => Goal
  BY <1>s DEF FailReindexJob
<1>6. JobMovesBy(j)
  BY JobsMove
<1> HIDE DEF Goal
<1>7. Goal
  BY <1>1, <1>2, <1>3, <1>4, <1>5, <1>6 DEF JobMovesBy
<1> QED BY <1>7 DEF Goal

\* A step that moves a document moves no other, nor a job.
LEMMA DocumentMovesAlone ==
    ASSUME TypeOK, Deletable = {}, [Next]_vars, NEW d \in Docs, ~DocStays(d)
    PROVE  jobs' = jobs /\ \A e \in Docs \ {d} : DocStays(e)
<1>y. docs \in [Docs -> Document]
  BY DEF TypeOK, StoreTypeOK
<1> DEFINE Goal == jobs' = jobs /\ \A e \in Docs \ {d} : DocStays(e)
<1>s. ASSUME NEW s, docs' = SetDocStatus(d, s), jobs' = jobs PROVE Goal
  BY <1>y, <1>s, SetDocStatusMoves
<1>p. ASSUME NEW s, NEW j, jobs' = jobs,
             docs' = IF Exists(docs[d]) THEN [docs EXCEPT ![d].status = s, ![d].job_id = j] ELSE docs
      PROVE  Goal
  BY <1>y, <1>p, RepointingMoves
<1>1. ASSUME InsertDocument(d) PROVE Goal
  <2> DEFINE new == [status |-> "queued", job_id |-> d, version |-> uploads[d].version,
                     lineage_id |-> uploads[d].lineage_id, superseded_by |-> None,
                     content_hash |-> uploads[d].content]
  <2>1. docs' = [docs EXCEPT ![d] = new] /\ jobs' = jobs
    BY <1>1 DEF InsertDocument
  <2> HIDE DEF new
  <2> QED BY <1>y, <2>1 DEF DocStays
<1>2. UndoDocument(d) \/ FailUploadedDocument(d) => Goal
  BY <1>s DEF UndoDocument, FailUploadedDocument
<1>3. \A w \in Workers : WorkerMovesDoc(w, d) => Goal
  BY <1>s DEF WorkerMovesDoc, MarkDocumentProcessing, ReadyDoc, FailDoc, GiveUpDoc
<1>4. \A r \in Reindexers : PointDocument(r) /\ reindex[r].current[1] = d => Goal
  BY <1>p DEF PointDocument
<1>5. \A r \in Reindexers : FailReindexDocument(r) /\ Head(reindex[r].queued)[1] = d => Goal
  BY <1>p DEF FailReindexDocument
<1>6. DocMoves(d)
  BY DocumentsMove
<1> HIDE DEF Goal
<1>7. Goal
  BY <1>1, <1>2, <1>3, <1>4, <1>5, <1>6 DEF DocMoves
<1> QED BY <1>7 DEF Goal

\* The job of a document is that document's, and known to whoever works on it.
LEMMA JobOfDocument ==
    ASSUME Living, NEW d \in Docs, Inserted(d)
    PROVE  /\ docs[d].job_id \in Jobs
           /\ docs[d].job_id = d \/ Renewed(d, docs[d].job_id)
           /\ \A e \in Docs : Inserted(e) /\ docs[e].job_id = docs[d].job_id => e = d
<1>1. \A e \in Docs : Inserted(e) => docs[e].job_id = e \/ Renewed(e, docs[e].job_id)
  BY DEF Living, Registered, RecordOf
<1>2. d \in Jobs
  BY BoundsAssumption DEF Docs, Jobs
<1>3. docs[d].job_id = d \/ Renewed(d, docs[d].job_id)
  BY <1>1
<1>4. docs[d].job_id \in Jobs
  BY <1>2, <1>3 DEF Renewed
<1>5. ASSUME NEW e \in Docs, Inserted(e), docs[e].job_id = docs[d].job_id PROVE e = d
  BY <1>1, <1>3, <1>5 DEF Renewed
<1> QED BY <1>3, <1>4, <1>5

\* A worker that writes to a document has the job the document shows, or its upload's.
LEMMA WorksOnKnownJob ==
    ASSUME Living, NEW d \in Docs, NEW w \in Workers, worker[w].pc # "idle", DocOf(w) = d,
           Exists(docs[d])
    PROVE  Known(docs[d].job_id)
<1>y. Registered /\ PointedWhenHeard
  BY DEF Living, LifeInvariant
<1>1. PICK i \in Jobs : i = JobOf(w) /\ Known(i) /\ ~Unheard(i)
  BY <1>y, HandsOn
<1>2. jobs[i].document_id = d
  BY <1>1 DEF DocOf
<1>3. docs[d].job_id = d \/ Renewed(d, docs[d].job_id)
  BY JobOfDocument DEF Inserted, Exists
<1>4. CASE i \in Docs
  <2>1. i = d
    BY <1>1, <1>2, <1>4, <1>y DEF Registered, JobRecord
  <2> QED BY <1>1, <1>3, <2>1 DEF Renewed
<1>5. CASE i \notin Docs
  <2>1. Pointed(i)
    BY <1>1, <1>y, <1>5 DEF PointedWhenHeard, Untouched
  <2>2. docs[d].job_id = i
    BY <1>2, <2>1 DEF Pointed
  <2> QED BY <1>1, <2>2
<1> QED BY <1>4, <1>5

\* A document without a job yet is queued, for the job of its upload.
Announced(d) ==
    Exists(docs[d]) /\ ~Known(d) => docs[d].status = "queued" /\ docs[d].job_id = d

\* What a reindex request has still to requeue.
OnList(r, d) ==
    \/ d \in reindex[r].todo
    \/ reindex[r].pc = "pointDoc" /\ reindex[r].current[1] = d

\* What the status a client polls needs to follow the lifecycle, when nothing is deleted.
Reporting ==
    /\ \A j \in Jobs : jobs[j].status # "deleted"
    /\ \A d \in Docs : Announced(d)
    /\ \A r \in Reindexers, d \in Docs : OnList(r, d) => docs[d].status = "ready"

\* Jobs are deleted with their document only.
LEMMA JobsStayUndeleted ==
    ASSUME TypeOK, Deletable = {}, [Next]_vars, NEW j \in Jobs, jobs[j].status # "deleted"
    PROVE  jobs'[j].status # "deleted"
  BY JobsMove DEF JobMovesBy, JobStays, JobBecomes, WorkerMovesJob

\* Until its job is inserted nothing happens to an uploaded document.
LEMMA AnnouncedStays ==
    ASSUME Living, Reporting, Deletable = {}, [Next]_vars, NEW d \in Docs
    PROVE  Announced(d)'
<1>y. /\ IInv /\ Registered /\ TypeOK /\ ReindexInOrder /\ Persists
      /\ \A r \in Reindexers : RequestOnce(r)
  BY RegisteredPreserved DEF Living, IInv, LifeInvariant
<1>d. d \in Jobs
  BY BoundsAssumption DEF Docs, Jobs
<1> SUFFICES ASSUME Exists(docs'[d]), ~Known(d)'
             PROVE  docs'[d].status = "queued" /\ docs'[d].job_id = d
  BY DEF Announced
<1>1. ~Known(d)
  BY <1>y, <1>d DEF Persists, JobsPersist
<1>2. Exists(docs[d]) => docs[d].status = "queued" /\ docs[d].job_id = d
  BY <1>1 DEF Reporting, Announced
<1>3. DocStays(d) => Exists(docs[d])
  BY DEF DocStays, Exists
<1>4. ~DocBecomes(d, "deleted")
  BY DEF DocBecomes, Repoints, Exists
<1>5. ~FailUploadedDocument(d)
  BY <1>1, <1>y DEF FailUploadedDocument, Registered, UploadStage, AfterJob
<1>6. \A w \in Workers : ~WorkerMovesDoc(w, d)
  <2> SUFFICES ASSUME NEW w \in Workers, WorkerMovesDoc(w, d) PROVE FALSE
    OBVIOUS
  <2>1. DocOf(w) = d /\ Exists(docs[d]) /\ worker[w].pc # "idle"
    BY DEF WorkerMovesDoc, DocBecomes, Repoints, MarkDocumentProcessing, ReadyDoc, FailDoc,
           GiveUpDoc, At
  <2>2. Known(docs[d].job_id)
    BY <2>1, WorksOnKnownJob
  <2> QED BY <1>1, <1>2, <2>1, <2>2
<1>7. \A r \in Reindexers : ~(PointDocument(r) /\ reindex[r].current[1] = d /\ Exists(docs[d]))
  BY <1>2 DEF PointDocument, ReindexAt, Reporting, OnList
<1>8. \A r \in Reindexers :
         ~(FailReindexDocument(r) /\ Head(reindex[r].queued)[1] = d /\ Exists(docs[d]))
  <2> SUFFICES ASSUME NEW r \in Reindexers, FailReindexDocument(r),
                      Head(reindex[r].queued)[1] = d, Exists(docs[d])
               PROVE  FALSE
    OBVIOUS
  <2>1. reindex[r].queued # <<>>
    BY <1>y DEF FailReindexDocument, ReindexAt, ReindexInOrder, InOrder
  <2>2. PICK h : /\ h = Head(reindex[r].queued)
                 /\ Renewed(h[1], h[2]) /\ Waiting(h)
    BY <1>y, <2>1, HeadOfQueue DEF RequestOnce
  <2>3. docs[d].job_id = h[2] /\ h[2] \notin Docs
    BY <2>2 DEF Renewed, Waiting, Pointed
  <2> QED BY <1>2, <2>3
<1>9. DocMoves(d)
  BY <1>y, DocumentsMove
<1> QED BY <1>2, <1>3, <1>4, <1>5, <1>6, <1>7, <1>8, <1>9
        DEF DocMoves, DocStays, Repoints

\* The list of a request is filled by one query and only shrinks.
LEMMA ListShrinks ==
    ASSUME TypeOK, OneReindexer, [Next]_vars, NEW r \in Reindexers, NEW d \in Docs, OnList(r, d)'
    PROVE  \/ OnList(r, d) /\ (PointDocument(r) => d \in reindex[r].todo)
           \/ FindReady(r) /\ docs[d].status = "ready"
<1>1. CASE reindex'[r] = reindex[r]
  <2>1. OnList(r, d)
    BY <1>1 DEF OnList
  <2>2. PointDocument(r) => reindex'[r].pc # "pointDoc" /\ reindex[r].pc = "pointDoc"
    BY RequestTurns DEF Request, NextStep, PointDocument, ReindexAt
  <2> QED BY <1>1, <2>1, <2>2
<1>2. CASE reindex'[r] # reindex[r]
  <2>1. ReindexStep
    BY <1>2 DEF Next, vars, DeletionStep, StartDeletion, DeleteVectors, DeleteJobs,
                DeleteDocument, DeletionFails
  <2>2. \/ StartReindex(r) \/ WipeNamespace(r) \/ FindReady(r) \/ InsertReindexJob(r)
        \/ PointDocument(r) \/ SendReindexMessage(r) \/ FinishReindex(r)
        \/ ReindexSendRaises(r) \/ FailReindexDocument(r) \/ FailReindexJob(r)
        \/ ReindexFails(r)
    BY <2>1 DEF ReindexStep, OneReindexer
  <2>3. ASSUME FindReady(r) PROVE docs[d].status = "ready"
    <3> DEFINE ready == {e \in Docs : docs[e].status = "ready" /\ ~Archived(e)}
    <3>1. reindex'[r].pc = NextStep(ready) /\ reindex'[r].todo = ready
      BY <2>3, RequestTurns DEF Request
    <3>2. d \in ready
      BY <3>1 DEF OnList, NextStep
    <3> QED BY <3>2
  <2>4. ASSUME InsertReindexJob(r) PROVE d \in reindex[r].todo /\ ~PointDocument(r)
    <3>1. PICK e \in reindex[r].todo, j \in Jobs \ Docs :
             Request(r, "pointDoc", reindex[r].todo \ {e}, <<e, j>>, reindex[r].queued)
      BY <2>4, RequestTurns
    <3>2. d \in reindex[r].todo
      BY <3>1 DEF Request, OnList
    <3> QED BY <2>4, <3>2 DEF InsertReindexJob, PointDocument, ReindexAt
  <2>5. ASSUME \/ StartReindex(r) \/ WipeNamespace(r) \/ PointDocument(r) \/ SendReindexMessage(r)
               \/ FinishReindex(r) \/ ReindexSendRaises(r) \/ FailReindexDocument(r)
               \/ FailReindexJob(r)
        PROVE  d \in reindex[r].todo
    <3>1. reindex'[r].pc # "pointDoc" /\ reindex'[r].todo = reindex[r].todo
      BY <2>5, RequestTurns DEF Request, NextStep
    <3> QED BY <3>1 DEF OnList
  <2>6. ~ReindexFails(r)
    <3> SUFFICES ASSUME ReindexFails(r) PROVE FALSE
      OBVIOUS
    <3>1. reindex'[r].pc = "aborted" /\ reindex'[r].todo = {}
      BY RequestTurns DEF Request
    <3> QED BY <3>1 DEF OnList
  <2> QED BY <2>2, <2>3, <2>4, <2>5, <2>6 DEF OnList
<1> QED BY <1>1, <1>2

\* A document on the list of a request stays ready until the request points it to its job.
LEMMA ListedStaysReady ==
    ASSUME Living, Reporting, OneReindexer, Deletable = {}, [Next]_vars,
           NEW r \in Reindexers, NEW d \in Docs, OnList(r, d),
           PointDocument(r) => d \in reindex[r].todo
    PROVE  docs'[d].status = "ready"
<1>y. /\ IInv /\ Registered /\ TypeOK /\ ReindexInOrder /\ OneJobEach
      /\ \A s \in Reindexers : RequestOnce(s)
      /\ \A w \in Workers : JobInHand(w)
      /\ Rejecting(d) /\ ReadyDocHasReadyJob
  BY DEF Living, IInv, LifeInvariant
<1>1. docs[d].status = "ready"
  BY DEF Reporting
<1>j. docs[d].job_id \in Jobs /\ (docs[d].job_id = d \/ Renewed(d, docs[d].job_id))
  BY <1>1, JobOfDocument DEF Inserted
<1>k. jobs[docs[d].job_id].status = "ready"
  BY <1>1, <1>j, <1>y DEF ReadyDocHasReadyJob, Reporting
<1>n. ASSUME NEW i, Renewed(d, i) PROVE Untouched(i) /\ i = reindex[r].current[2] /\ d \notin reindex[r].todo
  <2>1. d \notin reindex[r].todo
    BY <1>n, <1>y DEF RequestOnce, Renewed
  <2>2. reindex[r].pc = "pointDoc" /\ reindex[r].current[1] = d
    BY <2>1 DEF OnList
  <2>3. Renewed(d, reindex[r].current[2])
    BY <1>y, <2>2 DEF Registered, ReindexKnown
  <2>4. i = reindex[r].current[2]
    BY <1>n, <1>y, <2>3 DEF OneJobEach, Renewed
  <2> QED BY <1>y, <2>1, <2>2, <2>4 DEF RequestOnce
<1>2. docs[d].job_id = d
  BY <1>j, <1>k, <1>n DEF Untouched
<1>3. DocStays(d) => docs'[d].status = "ready"
  BY <1>1 DEF DocStays
<1>4. ~InsertDocument(d) /\ ~UndoDocument(d) /\ ~FailUploadedDocument(d)
  BY <1>1, <1>y DEF InsertDocument, UndoDocument, FailUploadedDocument, Rejecting, WithheldUpload,
                    Withheld
<1>5. ASSUME NEW w \in Workers, WorkerMovesDoc(w, d) PROVE docs'[d].status = "ready"
  <2>1. DocOf(w) = d /\ worker[w].pc # "idle"
    BY <1>5 DEF WorkerMovesDoc, MarkDocumentProcessing, ReadyDoc, FailDoc, GiveUpDoc, At
  <2>2. PICK i \in Jobs : i = JobOf(w) /\ Known(i) /\ ~Unheard(i)
    BY <1>y, <2>1, HandsOn
  <2>3. jobs[i].document_id = d
    BY <2>1, <2>2 DEF DocOf
  <2>4. ~Renewed(d, i)
    BY <1>n, <2>2 DEF Untouched
  <2>5. i = d
    BY <1>y, <2>2, <2>3, <2>4 DEF Renewed, Registered, JobRecord
  <2>6. jobs[JobOf(w)].status = "ready"
    BY <1>2, <1>k, <2>2, <2>5
  <2>7. ~MarkDocumentProcessing(w) /\ ~FailDoc(w) /\ ~GiveUpDoc(w)
    BY <1>y, <2>1, <2>6 DEF JobInHand, MarkDocumentProcessing, FailDoc, GiveUpDoc, At, Owning
  <2> QED BY <1>5, <2>7 DEF WorkerMovesDoc, DocBecomes, Repoints
<1>6. \A s \in Reindexers : ~(PointDocument(s) /\ reindex[s].current[1] = d)
  <2> SUFFICES ASSUME NEW s \in Reindexers, PointDocument(s), reindex[s].current[1] = d PROVE FALSE
    OBVIOUS
  <2>1. s = r
    BY DEF OneReindexer
  <2>2. Renewed(d, reindex[r].current[2])
    BY <1>y, <2>1 DEF PointDocument, ReindexAt, Registered, ReindexKnown
  <2> QED BY <1>n, <2>1, <2>2
<1>7. \A s \in Reindexers : ~(FailReindexDocument(s) /\ Head(reindex[s].queued)[1] = d)
  <2> SUFFICES ASSUME NEW s \in Reindexers, FailReindexDocument(s), Head(reindex[s].queued)[1] = d
               PROVE  FALSE
    OBVIOUS
  <2>1. reindex[s].queued # <<>>
    BY <1>y DEF FailReindexDocument, ReindexAt, ReindexInOrder, InOrder
  <2>2. Waiting(Head(reindex[s].queued))
    BY <1>y, <2>1, HeadOfQueue DEF RequestOnce
  <2> QED BY <1>1, <2>2 DEF Waiting
<1>8. DocMoves(d)
  BY <1>y, DocumentsMove
<1> QED BY <1>3, <1>4, <1>5, <1>6, <1>7, <1>8 DEF DocMoves

\* Every step keeps what the reported status needs.
LEMMA ReportingStays ==
    ASSUME Living, Reporting, OneReindexer, Deletable = {}, [Next]_vars
    PROVE  Reporting'
<1>y. TypeOK
  BY DEF Living, IInv
<1>1. \A j \in Jobs : jobs'[j].status # "deleted"
  BY <1>y, JobsStayUndeleted DEF Reporting
<1>2. \A d \in Docs : Announced(d)'
  BY AnnouncedStays
<1>3. ASSUME NEW r \in Reindexers, NEW d \in Docs, OnList(r, d)' PROVE docs'[d].status = "ready"
  <2>1. CASE FindReady(r) /\ docs[d].status = "ready"
    BY <2>1 DEF FindReady
  <2>2. CASE OnList(r, d) /\ (PointDocument(r) => d \in reindex[r].todo)
    BY <2>2, ListedStaysReady
  <2> QED BY <1>3, <1>y, <2>1, <2>2, ListShrinks
<1> QED BY <1>1, <1>2, <1>3 DEF Reporting

\* The status of every document, as DocumentLifecycle sees it.
Reports == [d \in Docs |-> ReportedStatus(d)]

ReportStays(d) == ReportedStatus(d)' = ReportedStatus(d)
ReportMoves(d, from, to) == ReportedStatus(d) = from /\ ReportedStatus(d)' = to

\* What one step may do to the status of one document.
ReportSteps(d) ==
    \/ ReportStays(d)
    \/ ReportMoves(d, "none", "queued")
    \/ ReportMoves(d, "queued", "none")
    \/ ReportMoves(d, "queued", "processing")
    \/ ReportMoves(d, "processing", "ready")
    \/ ReportMoves(d, "queued", "failed") \/ ReportMoves(d, "processing", "failed")
    \/ ReportMoves(d, "ready", "queued")

\* A change of one document's status is a step of the lifecycle.
LEMMA OneReportMoves ==
    ASSUME NEW d \in Docs, ReportSteps(d), \A e \in Docs \ {d} : ReportStays(e)
    PROVE  [Lifecycle!Next]_Reports
<1>1. ASSUME ReportStays(d) PROVE UNCHANGED Reports
  <2>1. \A e \in Docs : ReportedStatus(e)' = ReportedStatus(e)
    BY <1>1 DEF ReportStays
  <2> QED BY <2>1 DEF Reports
<1>2. ASSUME NEW from, NEW to, ReportMoves(d, from, to)
      PROVE  Reports[d] = from /\ Reports' = [Reports EXCEPT ![d] = to]
  <2>1. \A e \in Docs \ {d} : ReportedStatus(e)' = ReportedStatus(e)
    BY DEF ReportStays
  <2>2. ReportedStatus(d)' = to /\ ReportedStatus(d) = from
    BY <1>2 DEF ReportMoves
  <2> QED BY <2>1, <2>2 DEF Reports
<1>3. ReportMoves(d, "none", "queued") => Lifecycle!Accept(d)
  BY <1>2 DEF Lifecycle!Accept, Lifecycle!Becomes, Reports
<1>4. ReportMoves(d, "queued", "none") => Lifecycle!Withdraw(d)
  BY <1>2 DEF Lifecycle!Withdraw, Lifecycle!Becomes, Reports
<1>5. ReportMoves(d, "queued", "processing") => Lifecycle!Process(d)
  BY <1>2 DEF Lifecycle!Process, Lifecycle!Becomes, Reports
<1>6. ReportMoves(d, "processing", "ready") => Lifecycle!Complete(d)
  BY <1>2 DEF Lifecycle!Complete, Lifecycle!Becomes, Reports
<1>7. ReportMoves(d, "queued", "failed") \/ ReportMoves(d, "processing", "failed") => Lifecycle!Fail(d)
  BY <1>2 DEF Lifecycle!Fail, Lifecycle!Becomes, Reports
<1>8. ReportMoves(d, "ready", "queued") => Lifecycle!Reindex(d)
  BY <1>2 DEF Lifecycle!Reindex, Lifecycle!Becomes, Reports
<1> QED BY <1>1, <1>3, <1>4, <1>5, <1>6, <1>7, <1>8 DEF ReportSteps, Lifecycle!Next

\* Neither the document nor its job moves: the client sees no change.
LEMMA ReportUnmoved ==
    ASSUME Living, NEW d \in Docs, DocStays(d),
           Exists(docs[d]) => JobStays(docs[d].job_id)
    PROVE  ReportStays(d)
<1>1. docs'[d].status = docs[d].status /\ docs'[d].job_id = docs[d].job_id
  BY DEF DocStays
<1>2. Exists(docs'[d]) <=> Exists(docs[d])
  BY <1>1 DEF Exists
<1>3. CASE ~Exists(docs[d])
  BY <1>2, <1>3 DEF ReportStays, ReportedStatus
<1>4. CASE Exists(docs[d])
  <2>1. jobs'[docs'[d].job_id].status = jobs[docs[d].job_id].status
    BY <1>1, <1>4 DEF JobStays
  <2>2. Exists(jobs'[docs'[d].job_id]) <=> Exists(jobs[docs[d].job_id])
    BY <2>1 DEF Exists
  <2> QED BY <1>1, <1>2, <1>4, <2>1, <2>2 DEF ReportStays, ReportedStatus
<1> QED BY <1>3, <1>4

\* A job moves: the document that shows it follows.
LEMMA JobStepsReported ==
    ASSUME Living, Reporting, Deletable = {}, [Next]_vars, docs' = docs,
           NEW d \in Docs, Exists(docs[d])
    PROVE  ReportSteps(d)
<1>y. /\ IInv /\ Registered /\ TypeOK /\ ReindexInOrder
      /\ \A r \in Reindexers : RequestOnce(r)
      /\ \A w \in Workers : JobInHand(w)
      /\ \A e \in Docs : Rejecting(e)
  BY DEF Living, IInv, LifeInvariant
<1>1. PICK j \in Jobs : j = docs[d].job_id /\ (j = d \/ Renewed(d, j))
  BY JobOfDocument DEF Inserted, Exists
<1>2. ReportedStatus(d) = IF Exists(jobs[j]) THEN jobs[j].status ELSE docs[d].status
  BY <1>1 DEF ReportedStatus
<1>3. ReportedStatus(d)' = IF Exists(jobs'[j]) THEN jobs'[j].status ELSE docs[d].status
  BY <1>1 DEF ReportedStatus
<1>4. JobStays(j) => ReportSteps(d)
  BY <1>2, <1>3 DEF JobStays, Exists, ReportSteps, ReportStays
<1>5. \A from, to : jobs[j].status = from /\ jobs'[j].status = to
                    /\ from \notin {"absent", "deleted"} /\ to \notin {"absent", "deleted"}
                    => ReportMoves(d, from, to)
  BY <1>2, <1>3 DEF Exists, ReportMoves
<1>6. ASSUME j \in Docs, InsertUploadJob(j), jobs'[j].status = "queued" PROVE ReportSteps(d)
  <2>1. ~Known(j)
    BY <1>6, <1>y DEF InsertUploadJob, Registered, UploadStage, BeforeJob
  <2>2. j = d
    BY <1>1, <2>1 DEF Renewed
  <2>3. ReportedStatus(d) = "queued"
    BY <1>2, <2>1, <2>2 DEF Reporting, Announced, Known, Exists
  <2>4. ReportedStatus(d)' = "queued"
    BY <1>3, <1>6 DEF Exists
  <2> QED BY <2>3, <2>4 DEF ReportSteps, ReportStays
<1>7. ASSUME j \in Docs, FailUploadedJob(j), JobBecomes(j, "failed") PROVE ReportSteps(d)
  <2>1. jobs[j].status = "queued"
    BY <1>7, <1>y DEF FailUploadedJob, Rejecting, WithheldUpload, Withheld, JobBecomes, Exists
  <2> QED BY <1>5, <1>7, <2>1 DEF JobBecomes, ReportSteps
<1>8. ASSUME NEW w \in Workers, WorkerMovesJob(w, j) PROVE ReportSteps(d)
  <2>1. JobOf(w) = j /\ Exists(jobs[j])
    BY <1>8 DEF WorkerMovesJob, JobBecomes
  <2>2. CASE Claim(w) /\ JobBecomes(j, "processing")
    <3>1. jobs[j].status = "queued"
      BY <2>1, <2>2 DEF Claim, Claimable
    <3> QED BY <1>5, <2>2, <3>1 DEF JobBecomes, ReportSteps
  <2>3. CASE ReadyJob(w) /\ JobBecomes(j, "ready")
    <3>1. jobs[j].status = "processing"
      BY <1>y, <2>1, <2>3 DEF ReadyJob, At, JobInHand, Owning, Exists
    <3> QED BY <1>5, <2>3, <3>1 DEF JobBecomes, ReportSteps
  <2>4. CASE FailJob(w) /\ JobBecomes(j, "failed")
    <3>1. jobs[j].status = "processing"
      BY <1>y, <2>1, <2>4 DEF FailJob, At, JobInHand, Owning, Exists
    <3> QED BY <1>5, <2>4, <3>1 DEF JobBecomes, ReportSteps
  <2>5. CASE GiveUpJob(w) /\ JobBecomes(j, "failed")
    <3>1. jobs[j].status = "failed"
      BY <1>y, <2>1, <2>5 DEF GiveUpJob, At, JobInHand, Exists
    <3>2. JobStays(j)
      BY <2>5, <3>1 DEF JobBecomes, JobStays
    <3> QED BY <1>4, <3>2
  <2> QED BY <1>8, <2>2, <2>3, <2>4, <2>5 DEF WorkerMovesJob
<1>9. ~(j \in Jobs \ Docs /\ jobs[j].status = "absent")
  BY <1>1 DEF Renewed, Known
<1>10. ASSUME NEW r \in Reindexers, FailReindexJob(r), Head(reindex[r].queued)[2] = j,
              JobBecomes(j, "failed")
       PROVE  ReportSteps(d)
  <2>1. reindex[r].queued # <<>>
    BY <1>10, <1>y DEF FailReindexJob, ReindexAt, ReindexInOrder, InOrder
  <2>2. Untouched(j)
    BY <1>10, <1>y, <2>1, HeadOfQueue DEF RequestOnce, Waiting
  <2>3. jobs[j].status = "queued"
    BY <1>10, <2>2 DEF Untouched, JobBecomes, Exists
  <2> QED BY <1>5, <1>10, <2>3 DEF JobBecomes, ReportSteps
<1>11. JobMovesBy(j)
  BY <1>y, JobsMove
<1> QED BY <1>4, <1>6, <1>7, <1>8, <1>9, <1>10, <1>11 DEF JobMovesBy

\* A document moves: while a known job stands for it, the client sees its job instead.
LEMMA DocumentStepsReported ==
    ASSUME Living, Reporting, Deletable = {}, [Next]_vars, jobs' = jobs, NEW d \in Docs
    PROVE  ReportSteps(d)
<1>y. /\ IInv /\ Registered /\ TypeOK /\ ReindexInOrder /\ ReadyDocHasReadyJob
      /\ \A r \in Reindexers : RequestOnce(r)
  BY DEF Living, IInv, LifeInvariant
<1>1. Exists(docs[d]) => docs[d].job_id \in Jobs
  BY JobOfDocument DEF Inserted, Exists
<1>2. \A j \in Jobs : Known(j) => Exists(jobs[j])
  BY DEF Reporting, Known, Exists
<1>3. \A s : DocBecomes(d, s) /\ s \notin {"absent", "deleted"} /\ Known(docs[d].job_id) => ReportStays(d)
  <2> SUFFICES ASSUME NEW s, DocBecomes(d, s), s \notin {"absent", "deleted"}, Known(docs[d].job_id)
               PROVE  ReportStays(d)
    OBVIOUS
  <2>1. /\ Exists(docs[d]) /\ docs'[d].job_id = docs[d].job_id /\ docs'[d].status = s
    BY DEF DocBecomes, Repoints
  <2>2. Exists(jobs[docs[d].job_id])
    BY <1>1, <1>2, <2>1
  <2>3. ReportedStatus(d) = jobs[docs[d].job_id].status
    BY <2>1, <2>2 DEF ReportedStatus
  <2>4. Exists(docs'[d])
    BY <2>1 DEF Exists
  <2>5. ReportedStatus(d)' = jobs[docs[d].job_id].status
    BY <2>1, <2>2, <2>4 DEF ReportedStatus
  <2> QED BY <2>3, <2>5 DEF ReportStays
<1>4. DocStays(d) => ReportSteps(d)
  BY ReportUnmoved DEF JobStays, ReportSteps
<1>5. ASSUME InsertDocument(d), docs'[d].status = "queued", docs'[d].job_id = d PROVE ReportSteps(d)
  <2>1. ~Inserted(d) /\ ~Known(d)
    BY <1>5, <1>y DEF InsertDocument, Registered, UploadStage, BeforeDoc, BeforeJob
  <2>2. ReportedStatus(d) = "none"
    BY <2>1 DEF ReportedStatus, Inserted, Exists
  <2>3. ReportedStatus(d)' = "queued"
    BY <1>5, <2>1 DEF ReportedStatus, Known, Exists
  <2> QED BY <2>2, <2>3 DEF ReportSteps, ReportMoves
<1>6. ASSUME UndoDocument(d), DocBecomes(d, "deleted") PROVE ReportSteps(d)
  <2>1. ~Known(d) /\ Exists(docs[d])
    BY <1>6, <1>y DEF UndoDocument, Registered, UploadStage, BeforeJob, DocBecomes, Repoints
  <2>2. docs[d].status = "queued" /\ docs[d].job_id = d
    BY <2>1 DEF Reporting, Announced
  <2>3. ReportedStatus(d) = "queued"
    BY <2>1, <2>2 DEF ReportedStatus, Known, Exists
  <2>4. ReportedStatus(d)' = "none"
    BY <1>6 DEF DocBecomes, Repoints, ReportedStatus, Exists
  <2> QED BY <2>3, <2>4 DEF ReportSteps, ReportMoves
<1>7. ASSUME FailUploadedDocument(d), DocBecomes(d, "failed") PROVE ReportSteps(d)
  <2>1. Known(d) /\ Exists(docs[d])
    BY <1>7, <1>y DEF FailUploadedDocument, Registered, UploadStage, AfterJob, DocBecomes, Repoints
  <2>2. Known(docs[d].job_id)
    BY <2>1, JobOfDocument DEF Inserted, Exists, Renewed
  <2> QED BY <1>3, <1>7, <2>2 DEF ReportSteps
<1>8. ASSUME NEW w \in Workers, WorkerMovesDoc(w, d) PROVE ReportSteps(d)
  <2>1. DocOf(w) = d /\ Exists(docs[d]) /\ worker[w].pc # "idle"
    BY <1>8 DEF WorkerMovesDoc, DocBecomes, Repoints, MarkDocumentProcessing, ReadyDoc, FailDoc,
                GiveUpDoc, At
  <2>2. Known(docs[d].job_id)
    BY <2>1, WorksOnKnownJob
  <2>3. PICK s \in {"processing", "ready", "failed"} : DocBecomes(d, s)
    BY <1>8 DEF WorkerMovesDoc
  <2> QED BY <1>3, <2>2, <2>3 DEF ReportSteps
<1>9. ASSUME NEW r \in Reindexers, PointDocument(r), reindex[r].current[1] = d,
             Repoints(d, reindex[r].current[2], "queued")
      PROVE  ReportSteps(d)
  <2>1. reindex[r].pc = "pointDoc"
    BY <1>9 DEF PointDocument, ReindexAt
  <2>2. docs[d].status = "ready"
    BY <1>9, <2>1 DEF Reporting, OnList
  <2>3. jobs[docs[d].job_id].status = "ready"
    BY <1>1, <1>y, <2>2 DEF ReadyDocHasReadyJob, Reporting, Exists
  <2>4. ReportedStatus(d) = "ready"
    BY <2>2, <2>3 DEF ReportedStatus, Exists
  <2>5. PICK j \in Jobs : j = reindex[r].current[2] /\ Known(j) /\ Untouched(j)
    BY <1>y, <2>1 DEF Registered, ReindexKnown, Renewed, RequestOnce
  <2>6. jobs[j].status = "queued"
    BY <2>5 DEF Untouched, Known, Reporting
  <2>7. ReportedStatus(d)' = "queued"
    BY <1>9, <2>5, <2>6 DEF Repoints, ReportedStatus, Exists
  <2> QED BY <2>4, <2>7 DEF ReportSteps, ReportMoves
<1>10. ASSUME NEW r \in Reindexers, FailReindexDocument(r), Head(reindex[r].queued)[1] = d,
              Repoints(d, Head(reindex[r].queued)[2], "failed")
       PROVE  ReportSteps(d)
  <2>1. reindex[r].queued # <<>>
    BY <1>10, <1>y DEF FailReindexDocument, ReindexAt, ReindexInOrder, InOrder
  <2>2. PICK j : j = Head(reindex[r].queued)[2] /\ Renewed(d, j) /\ Pointed(j)
    BY <1>10, <1>y, <2>1, HeadOfQueue DEF RequestOnce, Waiting
  <2>3. docs[d].job_id = j /\ Known(j)
    BY <1>10, <2>2 DEF Renewed, Pointed, Repoints
  <2>4. DocBecomes(d, "failed")
    BY <1>10, <2>2, <2>3 DEF DocBecomes
  <2> QED BY <1>3, <2>3, <2>4 DEF ReportSteps
<1>11. DocMoves(d)
  BY <1>y, DocumentsMove
<1> QED BY <1>4, <1>5, <1>6, <1>7, <1>8, <1>9, <1>10, <1>11 DEF DocMoves

\* Every step of ingestion is a step of the lifecycle, or invisible to the client.
LEMMA StepsFollowLifecycle ==
    ASSUME Living, Reporting, Deletable = {}, [Next]_vars
    PROVE  [Lifecycle!Next]_Reports
<1>y. TypeOK
  BY DEF Living, IInv
<1>e. 1 \in Docs
  BY BoundsAssumption DEF Docs
<1>1. CASE \E d \in Docs : ~DocStays(d)
  <2>1. PICK d \in Docs : ~DocStays(d)
    BY <1>1
  <2>2. jobs' = jobs /\ \A e \in Docs \ {d} : DocStays(e)
    BY <1>y, <2>1, DocumentMovesAlone
  <2>3. \A e \in Docs \ {d} : ReportStays(e)
    BY <2>2, ReportUnmoved DEF JobStays
  <2>4. ReportSteps(d)
    BY <2>2, DocumentStepsReported
  <2> QED BY <2>3, <2>4, OneReportMoves
<1>2. CASE (\A d \in Docs : DocStays(d)) /\ \E j \in Jobs : ~JobStays(j)
  <2>1. PICK j \in Jobs : ~JobStays(j)
    BY <1>2
  <2>2. docs' = docs /\ \A k \in Jobs \ {j} : JobStays(k)
    BY <1>y, <2>1, JobMovesAlone
  <2>3. \A e \in Docs : Exists(docs[e]) => docs[e].job_id \in Jobs
    BY JobOfDocument DEF Inserted, Exists
  <2>4. \A e \in Docs : ~(Exists(docs[e]) /\ docs[e].job_id = j) => ReportStays(e)
    BY <1>2, <2>2, <2>3, ReportUnmoved
  <2>5. CASE \E d \in Docs : Exists(docs[d]) /\ docs[d].job_id = j
    <3>1. PICK d \in Docs : Exists(docs[d]) /\ docs[d].job_id = j
      BY <2>5
    <3>2. \A e \in Docs \ {d} : ReportStays(e)
      BY <2>4, <3>1, JobOfDocument DEF Inserted, Exists
    <3>3. ReportSteps(d)
      BY <2>2, <3>1, JobStepsReported
    <3> QED BY <3>2, <3>3, OneReportMoves
  <2>6. CASE ~\E d \in Docs : Exists(docs[d]) /\ docs[d].job_id = j
    <3>1. \A e \in Docs : ReportStays(e)
      BY <2>4, <2>6
    <3>2. ReportSteps(1)
      BY <1>e, <3>1 DEF ReportSteps
    <3> QED BY <1>e, <3>1, <3>2, OneReportMoves
  <2> QED BY <2>5, <2>6
<1>3. CASE (\A d \in Docs : DocStays(d)) /\ \A j \in Jobs : JobStays(j)
  <2>1. \A e \in Docs : Exists(docs[e]) => docs[e].job_id \in Jobs
    BY JobOfDocument DEF Inserted, Exists
  <2>2. \A e \in Docs : ReportStays(e)
    BY <1>3, <2>1, ReportUnmoved
  <2>3. ReportSteps(1)
    BY <1>e, <2>2 DEF ReportSteps
  <2> QED BY <1>e, <2>2, <2>3, OneReportMoves
<1> QED BY <1>1, <1>2, <1>3

\* The status a client polls follows DocumentLifecycle: what is redelivered, retried, crashed
\* or reindexed, no document skips a status, goes back or is processed twice.  As above, and
\* with no document being deleted.
THEOREM StatusFollowsLifecycle ==
    Backend # "sqs" /\ AmbiguousSend = FALSE /\ OneReindexer /\ Deletable = {}
        => (Spec => ImplementsLifecycle)
<1> SUFFICES ASSUME Backend # "sqs", AmbiguousSend = FALSE, OneReindexer, Deletable = {}
             PROVE  Spec => ImplementsLifecycle
  OBVIOUS
<1>1. Init => Living
  BY InitialInvariant, RegisteredInitially, OrderInitially, RejectingInitially, LifeInitially
     DEF Living
<1>2. Init => Reporting
  <2> SUFFICES ASSUME Init PROVE Reporting
    OBVIOUS
  <2>1. /\ \A j \in Jobs : jobs[j].status = "absent"
        /\ \A d \in Docs : docs[d].status = "absent"
        /\ \A r \in Reindexers : reindex[r] = NoReindex
    BY DEF Init, StoreInit, AdminInit, NoJob, NoDocument
  <2> QED BY <2>1 DEF Reporting, Announced, OnList, NoReindex, Exists
<1>3. Init => Lifecycle!Init
  <2> SUFFICES ASSUME Init PROVE Lifecycle!Init
    OBVIOUS
  <2>1. \A d \in Docs : docs[d].status = "absent"
    BY DEF Init, StoreInit, NoDocument
  <2> QED BY <2>1 DEF Lifecycle!Init, ReportedStatus, Exists
<1>4. Living /\ Reporting /\ [Next]_vars => Living' /\ Reporting'
  BY LifePreserved, ReportingStays
<1>5. Living /\ Reporting /\ [Next]_vars => [Lifecycle!Next]_Reports
  BY StepsFollowLifecycle
<1> QED BY <1>1, <1>2, <1>3, <1>4, <1>5, PTL DEF Spec, ImplementsLifecycle, Lifecycle!Spec, Reports

=============================================================================
