--------------------------- MODULE IngestionAdmin ---------------------------
(***************************************************************************)
(* The two requests that change documents behind the workers' backs:       *)
(* IngestionService.delete_document and IngestionService.reindex_agent.    *)
(***************************************************************************)
EXTENDS IngestionStore, Sequences, SequencesExt

CONSTANTS
    Deletable,        \* documents a client may ask to delete, each once
    Reindexers        \* reindex requests, each run at most once

ASSUME DeletableAssumption == Deletable \subseteq Docs
ASSUME ReindexersAssumption == IsFiniteSet(Reindexers)

VARIABLES
    deletions,        \* the delete request of each document
    reindex           \* the reindex requests

adminVars == <<deletions, reindex>>

DeletionState == {"off", "vectors", "jobs", "doc", "done", "aborted"}

ReindexState ==
    {"off", "wipe", "find", "insertJob", "pointDoc", "send", "failDoc", "failJob",
     "done", "aborted"}
ReindexActive == ReindexState \ {"off", "done", "aborted"}

\* todo: ready documents not requeued yet.  queued: the <<document, job>> pairs of
\* queued_docs whose message is still to be sent.
NoReindex == [pc |-> "off", todo |-> {}, current |-> <<None, None>>, queued |-> <<>>]

AdminInit ==
    /\ deletions = [d \in Deletable |-> "off"]
    /\ reindex = [r \in Reindexers |-> NoReindex]

-----------------------------------------------------------------------------
(* delete_document: vectors, jobs, document; the stored file stays. *)

Deletes(d, from, to) ==
    /\ deletions[d] = from
    /\ deletions' = [deletions EXCEPT ![d] = to]

StartDeletion(d) ==
    /\ Deletes(d, "off", "vectors")
    /\ Exists(docs[d])
    /\ SupportsDelete
    /\ NoFault
    /\ UNCHANGED <<docs, jobs, files, vectors, vectorStore, broker, reindex>>

DeleteVectors(d) ==
    /\ Deletes(d, "vectors", "jobs")
    /\ vectors' = vectors \ VectorsOf(d)
    /\ NoFault
    /\ UNCHANGED <<docs, jobs, files, vectorStore, broker, reindex>>

JobsOf(d) == {j \in Jobs : Exists(jobs[j]) /\ jobs[j].document_id = d}

DeleteJobs(d) ==
    /\ Deletes(d, "jobs", "doc")
    /\ jobs' = [j \in Jobs |-> IF j \in JobsOf(d) THEN [jobs[j] EXCEPT !.status = "deleted"]
                               ELSE jobs[j]]
    /\ NoFault
    /\ UNCHANGED <<docs, files, vectors, vectorStore, broker, reindex>>

DeleteDocument(d) ==
    /\ Deletes(d, "doc", "done")
    /\ docs' = SetDocStatus(d, "deleted")
    /\ NoFault
    /\ UNCHANGED <<jobs, files, vectors, vectorStore, broker, reindex>>

\* A call raises or the process dies: the rest of the deletion does not happen.
DeletionFails(d) ==
    /\ deletions[d] \in {"vectors", "jobs", "doc"}
    /\ Fault
    /\ deletions' = [deletions EXCEPT ![d] = "aborted"]
    /\ abandoned' = abandoned \cup JobsOf(d)
    /\ UNCHANGED <<docs, jobs, files, vectors, vectorStore, broker, reindex>>

-----------------------------------------------------------------------------
(* reindex_agent. *)

ReindexAt(r, pc) == reindex[r].pc = pc
ReindexUnchanged == UNCHANGED <<files, vectorStore, deletions>>

StartReindex(r) ==
    /\ ReindexAt(r, "off")
    /\ \E d \in Docs : Exists(docs[d])
    /\ reindex' = [reindex EXCEPT ![r].pc = "wipe"]
    /\ NoFault
    /\ UNCHANGED <<docs, jobs, vectors, broker>> /\ ReindexUnchanged

WipeNamespace(r) ==
    /\ ReindexAt(r, "wipe")
    /\ vectors' = {}
    /\ reindex' = [reindex EXCEPT ![r].pc = "find"]
    /\ NoFault
    /\ UNCHANGED <<docs, jobs, broker>> /\ ReindexUnchanged

NextStep(todo) == IF todo = {} THEN "send" ELSE "insertJob"

\* The query without its status filter.
FindUnarchived(r) ==
    /\ ReindexAt(r, "find")
    /\ LET live == {d \in Docs : Live(d)} IN
       reindex' = [reindex EXCEPT ![r].todo = live, ![r].pc = NextStep(live)]
    /\ NoFault
    /\ UNCHANGED <<docs, jobs, vectors, broker>> /\ ReindexUnchanged

FindReady(r) ==
    /\ ReindexAt(r, "find")
    /\ LET ready == {d \in Docs : docs[d].status = "ready" /\ ~Archived(d)} IN
       reindex' = [reindex EXCEPT ![r].todo = ready, ![r].pc = NextStep(ready)]
    /\ NoFault
    /\ UNCHANGED <<docs, jobs, vectors, broker>> /\ ReindexUnchanged

InsertReindexJob(r) ==
    /\ ReindexAt(r, "insertJob")
    /\ \E d \in reindex[r].todo, j \in Jobs \ Docs :
          /\ jobs[j].status = "absent"
          /\ \A i \in Jobs \ Docs : i < j => jobs[i].status # "absent"
          /\ jobs' = InsertJob(j, d)
          /\ reindex' = [reindex EXCEPT ![r].todo = @ \ {d}, ![r].current = <<d, j>>,
                                        ![r].pc = "pointDoc"]
    /\ NoFault
    /\ UNCHANGED <<docs, vectors, broker>> /\ ReindexUnchanged

\* Points a document to its new job but leaves it ready.
PointDocumentOnly(r) ==
    /\ ReindexAt(r, "pointDoc")
    /\ LET cur == reindex[r].current IN
       /\ docs' = IF Exists(docs[cur[1]]) THEN [docs EXCEPT ![cur[1]].job_id = cur[2]] ELSE docs
       /\ reindex' = [reindex EXCEPT ![r].queued = Append(@, cur),
                                     ![r].current = <<None, None>>,
                                     ![r].pc = NextStep(reindex[r].todo)]
    /\ NoFault
    /\ UNCHANGED <<jobs, vectors, broker>> /\ ReindexUnchanged

PointDocument(r) ==
    /\ ReindexAt(r, "pointDoc")
    /\ LET cur == reindex[r].current IN
       /\ docs' = IF Exists(docs[cur[1]])
                  THEN [docs EXCEPT ![cur[1]].status = "queued", ![cur[1]].job_id = cur[2]]
                  ELSE docs
       /\ reindex' = [reindex EXCEPT ![r].queued = Append(@, cur),
                                     ![r].current = <<None, None>>,
                                     ![r].pc = NextStep(reindex[r].todo)]
    /\ NoFault
    /\ UNCHANGED <<jobs, vectors, broker>> /\ ReindexUnchanged

ReindexMessage(r) == <<Head(reindex[r].queued)[2], 0>>

SendReindexMessage(r) ==
    /\ ReindexAt(r, "send")
    /\ reindex[r].queued # <<>>
    /\ \/ broker' = Enqueued(ReindexMessage(r)) /\ NoFault
       \/ /\ MayLoseSilently
          /\ Fault
          /\ abandoned' = abandoned \cup {Head(reindex[r].queued)[2]}
          /\ UNCHANGED broker
    /\ reindex' = [reindex EXCEPT ![r].queued = Tail(@)]
    /\ UNCHANGED <<docs, jobs, vectors>> /\ ReindexUnchanged

\* Wipes the namespace last instead of first.
FinishReindexWiping(r) ==
    /\ ReindexAt(r, "send")
    /\ reindex[r].queued = <<>>
    /\ vectors' = {}
    /\ reindex' = [reindex EXCEPT ![r].pc = "done"]
    /\ NoFault
    /\ UNCHANGED <<docs, jobs, broker>> /\ ReindexUnchanged

FinishReindex(r) ==
    /\ ReindexAt(r, "send")
    /\ reindex[r].queued = <<>>
    /\ reindex' = [reindex EXCEPT ![r].pc = "done"]
    /\ NoFault
    /\ UNCHANGED <<docs, jobs, vectors, broker>> /\ ReindexUnchanged

\* A send raises: it and every later one are failed one by one.
ReindexSendRaises(r) ==
    /\ ReindexAt(r, "send")
    /\ reindex[r].queued # <<>>
    /\ Fault
    /\ broker' \in EnqueuedDespiteError(ReindexMessage(r))
    /\ reindex' = [reindex EXCEPT ![r].pc = "failDoc"]
    /\ UNCHANGED <<docs, jobs, vectors, abandoned>> /\ ReindexUnchanged

FailReindexDocument(r) ==
    /\ ReindexAt(r, "failDoc")
    /\ LET first == Head(reindex[r].queued) IN
       docs' = IF Exists(docs[first[1]])
               THEN [docs EXCEPT ![first[1]].status = "failed", ![first[1]].job_id = first[2]]
               ELSE docs
    /\ reindex' = [reindex EXCEPT ![r].pc = "failJob"]
    /\ NoFault
    /\ UNCHANGED <<jobs, vectors, broker>> /\ ReindexUnchanged

FailReindexJob(r) ==
    /\ ReindexAt(r, "failJob")
    /\ LET q == reindex[r].queued IN
       /\ jobs' = SetJobStatus(Head(q)[2], "failed")
       /\ reindex' = [reindex EXCEPT ![r].queued = Tail(q),
                        ![r].pc = IF Tail(q) = <<>> THEN "aborted" ELSE "failDoc"]
    /\ NoFault
    /\ UNCHANGED <<docs, vectors, broker>> /\ ReindexUnchanged

\* The jobs a reindex request inserted and has neither sent nor failed yet.
Unsent(r) == {p[2] : p \in ToSet(reindex[r].queued) \cup {reindex[r].current}} \ {None}

\* Any other call raises, or the process dies: no job inserted so far is compensated.
ReindexFails(r) ==
    /\ reindex[r].pc \in ReindexActive
    /\ Fault
    /\ reindex' = [reindex EXCEPT ![r] = [NoReindex EXCEPT !.pc = "aborted"]]
    /\ abandoned' = abandoned \cup Unsent(r)
    /\ UNCHANGED <<docs, jobs, vectors, broker>> /\ ReindexUnchanged

-----------------------------------------------------------------------------

DeletionStep ==
    \E d \in Deletable :
       \/ StartDeletion(d) \/ DeleteVectors(d) \/ DeleteJobs(d) \/ DeleteDocument(d)
       \/ DeletionFails(d)

ReindexStep ==
    \E r \in Reindexers :
       \/ StartReindex(r) \/ WipeNamespace(r) \/ FindReady(r) \/ InsertReindexJob(r)
       \/ PointDocument(r) \/ SendReindexMessage(r) \/ FinishReindex(r)
       \/ ReindexSendRaises(r) \/ FailReindexDocument(r) \/ FailReindexJob(r)
       \/ ReindexFails(r)

Pair == (Docs \cup {None}) \X (Jobs \cup {None})

AdminTypeOK ==
    /\ deletions \in [Deletable -> DeletionState]
    /\ reindex \in [Reindexers -> [pc : ReindexState, todo : SUBSET Docs,
                                   current : Pair, queued : Seq(Docs \X Jobs)]]

=============================================================================
