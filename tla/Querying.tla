------------------------------ MODULE Querying ------------------------------
(***************************************************************************)
(* Queries against everything that moves under them: a worker finishing an *)
(* ingestion, a reindexing, a deleted document, the clock and the turn of  *)
(* the month.                                                              *)
(***************************************************************************)
EXTENDS QueryService

VARIABLES
    writer,           \* the next call of whoever is changing the documents
    covered           \* history: corpus at the last invalidation that succeeded

vars == <<pc, spent, recorded, req, age, transcript, cache, corpus, faults,
          writer, covered>>

ServiceUnchanged == UNCHANGED <<pc, spent, recorded, age, transcript>>

TypeOK ==
    /\ CacheTypeOK
    /\ ServiceTypeOK
    /\ corpus \in Versions
    /\ covered \in Versions
    /\ writer \in {"idle", "upserted", "invalidated"}

Init == CacheInit /\ ServiceInit /\ corpus = 0 /\ writer = "idle" /\ covered = 0

-----------------------------------------------------------------------------
(* Changes to the documents. *)

ChangeDocuments == corpus < MaxVersion /\ corpus' = corpus + 1

\* Requests that have read the documents and not yet stored an answer.
Computing(s) == pc[s] \in {"generate", "store"}

InvalidateCache ==
    /\ cache' = Invalidated
    /\ covered' = corpus
    /\ req' = [s \in Slots |-> [req[s] EXCEPT !.overtaken = @ \/ Computing(s)]]
    /\ ServiceUnchanged

\* The pipeline has upserted the new chunks; the cache is next.
WorkerUpserts ==
    /\ writer = "idle"
    /\ ChangeDocuments
    /\ writer' = "upserted"
    /\ ServiceUnchanged /\ UNCHANGED <<cache, covered, req, faults>>

WorkerInvalidates ==
    /\ writer = "upserted"
    /\ InvalidateCache
    /\ writer' = "idle"
    /\ UNCHANGED <<corpus, faults>>

\* semantic_cache_invalidation_failed is logged and the document becomes ready.
WorkerSkipsInvalidation ==
    /\ writer = "upserted"
    /\ faults < MaxFaults /\ faults' = faults + 1
    /\ writer' = "idle"
    /\ ServiceUnchanged /\ UNCHANGED <<cache, covered, req, corpus>>

\* reindex_agent invalidates first; an error there ends the request.
ReindexInvalidates ==
    /\ writer = "idle"
    /\ InvalidateCache
    /\ writer' = "invalidated"
    /\ UNCHANGED <<corpus, faults>>

\* Then it deletes the namespace, or fails to.
ReindexWipes ==
    /\ writer = "invalidated"
    /\ writer' = "idle"
    /\ ChangeDocuments \/ UNCHANGED corpus
    /\ ServiceUnchanged /\ UNCHANGED <<cache, covered, req, faults>>

\* delete_document leaves the cache alone.
DocumentDeleted ==
    /\ writer = "idle"
    /\ ChangeDocuments
    /\ ServiceUnchanged /\ UNCHANGED <<cache, covered, req, faults, writer>>

\* create_eval_dataset drops the agent's answers too.
DatasetReplaced == InvalidateCache /\ UNCHANGED <<corpus, faults, writer>>

WriterProceeds == WorkerInvalidates \/ ReindexWipes
WriterStep ==
    \/ WriterProceeds
    \/ WorkerUpserts
    \/ WorkerSkipsInvalidation
    \/ ReindexInvalidates
    \/ DocumentDeleted
    \/ DatasetReplaced

-----------------------------------------------------------------------------
(* Time. *)

\* A request lasts less than one tick, so it sees at most one.
Tick ==
    /\ \A s \in Slots : ~req[s].crossed
    /\ cache' = Aged
    /\ age' = [k \in Sessions |->
                 IF age[k] < SessionLifetime THEN age[k] + 1 ELSE age[k]]
    /\ req' = [s \in Slots |-> [req[s] EXCEPT !.crossed = pc[s] # "idle"]]
    /\ UNCHANGED <<pc, spent, recorded, transcript, corpus, faults, writer, covered>>

\* MongoDB's TTL monitor removes a session some time after its 48 hours.  What was
\* done in it is forgotten with it.
RemoveSession(k) ==
    /\ age[k] = SessionLifetime
    /\ age' = [age EXCEPT ![k] = Gone]
    /\ transcript' = [transcript EXCEPT ![k] = {}]
    /\ req' = [s \in Slots |-> IF req[s].session = k /\ pc[s] = "idle"
                               THEN [req[s] EXCEPT !.outcome = "none"] ELSE req[s]]
    /\ UNCHANGED <<pc, spent, recorded, cache, corpus, faults, writer, covered>>

\* current_month_str moves on: the records of the old month no longer count.
NewMonth ==
    /\ recorded' = 0
    /\ UNCHANGED <<pc, spent, req, age, transcript, cache, corpus, faults, writer, covered>>

\* A process of the service starts.
CleanUp ==
    /\ cache' = CleanedUp
    /\ UNCHANGED <<pc, spent, recorded, req, age, transcript, corpus, faults, writer, covered>>

TimeStep == Tick \/ NewMonth \/ CleanUp \/ \E k \in Sessions : RemoveSession(k)

-----------------------------------------------------------------------------

Next ==
    \/ RequestStep /\ UNCHANGED <<corpus, writer, covered>>
    \/ WriterStep
    \/ TimeStep

Spec == Init /\ [][Next]_vars

\* Calls under way return, and time passes.  Nobody has to send a request, to change a
\* document or to fail.
Fairness ==
    /\ \A s \in Slots : WF_vars(RequestProceeds(s) /\ UNCHANGED <<corpus, writer, covered>>)
    /\ WF_vars(WriterProceeds)
    /\ WF_vars(Tick)

FairSpec == Spec /\ Fairness

-----------------------------------------------------------------------------
(* The token budget. *)

\* The budget is compared with what is recorded, and a request records its tokens at its
\* end: a month can exceed its budget, but only by what the requests running at the same
\* time can use.
OverspendBounded == recorded <= Budget - 1 + MaxCost * Cardinality(Slots)

Finishes(s) == pc[s] # "idle" /\ pc'[s] = "idle"

\* When a request ends, the month's total has grown by exactly the tokens its accumulator
\* holds, on each of the ways to the end: by none for a refused session or a hit, by what was
\* used so far for a stream that ends in an error event.  Only two things lose tokens: a
\* call that raises, the insert of the record included, and a stream cut short by its
\* client.  No other step but the turn of the month touches the total.
TokensAreRecorded ==
    [][/\ \A s \in Slots :
            (Finishes(s) /\ faults' = faults /\ ~StreamCut(s)) => recorded' = recorded + spent[s]
       /\ (\A s \in Slots : ~Finishes(s)) => recorded' \in {recorded, 0}]_vars

-----------------------------------------------------------------------------
(* Conversations. *)

\* A turn reaches the transcript before its request is done and stays there while
\* the session lives, however the turns of other requests interleave with it; and what a
\* request read of the session is never taken back.
TurnsAreKept ==
    \A s \in Slots : LET k == req[s].session IN
       SessionExists(k) =>
          /\ (pc[s] = "idle" /\ req[s].outcome = "done" /\ req[s].answer)
                => s \in transcript[k]
          /\ pc[s] # "idle" => req[s].history \subseteq transcript[k]

\* The check against the last 24 hours keeps a request from using a session that the TTL
\* index could remove under it, which would lose the turn without an error.
SessionOutlivesRequest ==
    \A s \in Slots : pc[s] \notin {"idle", "session"} => SessionExists(req[s].session)

-----------------------------------------------------------------------------
(* The cache. *)

\* An answer computed before the last invalidation can only be in the cache because its
\* request had read the documents by then and had not stored it yet.
StaleOnlyIfOvertaken ==
    \A q \in Queries :
       (Cached(q) /\ cache[q].version < covered) => cache[q].overtaken

\* Whatever stale answers races, failed invalidations or deletions leave behind, they
\* run out: a hit does not renew them, so once the documents no longer change every
\* answer served comes from their last version.
EventuallyFresh ==
    <>[](\A q \in Queries : Servable(q) => cache[q].version = corpus)

=============================================================================
