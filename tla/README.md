# Verification of TrueRAG in TLA+

TrueRAG is a multi-tenant retrieval service: an HTTP API (FastAPI, several gunicorn
processes), a pool of ingestion workers, MongoDB, an object store, a vector store per
agent, a message broker (SQS, Kafka or a local queue) and external model providers. No
transaction spans two of these. The modules here model what happens between two awaited
calls, check it with TLC and prove part of it with TLAPS.

## Inventory

| Component | State | Operations | Hard behaviour |
|---|---|---|---|
| Circuit breaker (`utils/circuit_breaker.py`) | state, failure counter, opening time, trial flag; shared by all queries of a process with the same providers | `call` | calls admitted before an opening finish during the trial; a cancelled trial |
| Upload (`ingestion_service.upload_document`) | a file, a document, a job, a message | put, two inserts, send | compensation of each step, which can fail too; concurrent uploads of one content |
| Worker (`sqs_consumer`, `ingestion_worker`, ingestion `pipeline`) | job and document status, vectors, `archived_at` | claim, dedup, upsert, replace predecessor, settle, acknowledge | redelivery while running, crash, timeouts, third reception |
| Queue backends (`providers/queue`) | the broker | send, receive, delete | at-least-once delivery; Kafka sends lost silently; a local queue nobody reads |
| Delete, reindex (`ingestion_service`) | vectors, jobs, documents | multi-step deletion; wipe, list, requeue, send | both run beside workers that hold the same documents |
| Dead-letter sweep (`dlq_handler`) | `retry_count` | list failed, send, count | stale snapshot, overlapping sweeps, a requeue that changes no status |
| Status (`get_document_status`) | none | reads the job, else the document | two records that must not disagree |
| Semantic cache (`providers/cache`) | answers per agent, with their age | lookup, store, invalidate, clean up | an answer stored after the invalidation that should have removed it |
| Query service (`query_service.py`) | sessions, transcripts, cost records, the locals of each request | query, stream | budget checked before and written after, lost cost records, interleaved turns, a session that expires under a request |
| Query pipeline (`pipelines/query`) | the locals of one query | route, retrieve, fuse, rerank, diversify, generate, check | filters after filters, empty and duplicate results, pool arithmetic, the order of stream events |
| Parsing and chunking (`pipelines/ingestion/parser.py`, `providers/chunking`) | none | extract, sanitize, chunk | window arithmetic, empty pieces, tables |
| Rate limiter (`core/rate_limiter.py`) | counters per process | dispatch | the boundary of a window, several processes |
| Agent, tenant services | agents, tenants | create, update, delete | validation and flags decided on stale reads, deletion across stores |
| Evaluation (`eval_service.py`) | datasets, experiments | replace a dataset, run | concurrent replacements, a run while the agent changes |
| HTTP layer, providers, PII, metrics, audit | - | - | I/O or pure functions |

What makes each correct: the breaker admits one probe per opening and a half-open state
has somebody on trial; an upload that fails leaves nothing alive; a job has one owner, a
queued job a message, a processing job a worker; what a client polls only moves forward;
a ready document can be found and an archived one cannot; every job settles; after an
invalidation no old answer is served; a tenant exceeds its budget and its rate only by what runs at the same time; a deletion
leaves nothing unless something was written behind it. The
complete list of hazards, with lines, is in `PROJECT.json`.

Parts interact through records, not calls: the API writes documents and jobs and sends a
message; a worker reads the message and writes the same records and the vectors; delete
and reindex requests write them too; queries read the vectors and the cache.

## Modules

`CircuitBreaker` - one breaker and the calls through it. The lock of the code makes
`_before_call`, `_on_success` and `_on_failure` atomic, so each is an action: `Admit`,
`Probe` or `Reject`, then `Succeed`, `Fail` or `Cancel`. `Cancel` is what
`except Exception` does not catch. Time is the age of the opening in ticks, saturating at
the recovery timeout. `probes` and `orphanedTrial` are history variables.

`IngestionStore` - the shared state: documents, jobs, files, the vectors of one agent as
<<document, chunk hash>> pairs, the broker. A message is unsent, visible, hidden by a
receiver, handled (Kafka: the offset is committed by a later poll) or gone, and counts
its receptions (SQS). `Redeliver` is the visibility timeout or a rebalance and may come
while the first receiver is still at work. `faults` counts the calls that raised and the
processes that died, up to `MaxFaults`. `abandoned` is a history variable: jobs whose
bookkeeping a failure cut short, so that properties can say "unless".

`DocumentUpload`, `IngestionWorker`, `IngestionAdmin`, `DlqSweep` - each a set of
processes with a program counter that names the awaited call about to be made. Every
call has a success action and a failure action (`...Raises`, `...Fails`), and every
process a crash; a crash and an exception differ where the code has a handler. Chunks
and contents are model values: chunking is the function `ChunksOf`, the same for equal
content, and two contents may share chunks.

`DocumentLifecycle` - the abstract specification: a document is queued, claimed once,
settled once, and only reindexing starts it over. `Ingestion` composes the processes and
states the properties; its refinement mapping is `ReportedStatus`, the value
`get_document_status` returns. `MCIngestion` gives the constants their values.

`SemanticCache` - the answers of one agent, one per query text, each with its age in
ticks, the version of the documents it was computed from (a history field) and whether an
invalidation overtook its request. A lookup may hit any similar query, and `Near` need
not be transitive. A hit does not renew an entry. Invalidation and clean-up are one
statement each.

`QueryService` - a request that passes the budget check holds a slot, whose program counter
names the next awaited call: `session` (create or read it), `lookup`,
`retrieve`, `generate`, `store`, `append`, `bill`, with the shorter way of a hit and the
order of the streaming path. Every call may raise, and a raise ends the request as the
code does. A plain request loses its tokens then; a stream turns a failing pipeline into an
error event and its `finally` (`query_service.py:340-371`) records them nevertheless. A
plain hit returns without a record, a streamed one records zero tokens, and the tail of a
stream that sent nothing goes to the record directly. `TokensAreRecorded` is about all
these ways to the end: the month's total grows by what the accumulator holds, unless a call
raises or the client cuts the stream short. What the accumulator holds may be less than the
models used, since their usage is reported with the end of a call.
The locals of a request (`req` and `spent`) are what it read of its session, the version
it retrieved, the tokens it used. `req` keeps the outcome after the end, for the
properties. A transcript is the set of the requests whose turn was appended.

`Querying` - queries next to a worker that upserts and then invalidates (or fails to),
a reindexing that invalidates and then wipes, deletions of documents (which leave the
cache alone), replacements of the evaluation dataset (which do not), the clock, MongoDB's
TTL monitor and the turn of the month.

`Ordering` - sorting and filtering of lists, by counting what comes before: both pipelines
use it.

`Ranking`, `QueryPipeline` - `Ranking` defines reciprocal rank fusion, the reranker's cut, MMR
and the pools as operators; the pipeline is a state machine of one query under any agent
configuration, whose retrievers, reranker and models answer anything or raise.

`Chunking`, `DocumentChunking` - a text is a sequence of lines (kind, number of tokens,
similar to its predecessor), a chunk an interval of tokens; the five strategies and the
choice between PDF extractors are operators. `Pipelines` checks the two pipelines in one
run; they share nothing.

`TenantStore`, `TenantService`, `AgentService`, `EvalService`, `RateLimiter`,
`Administration` - `TenantStore` is the state that administrative requests share
(tenants, agents, documents, vectors by store and embedding provider, datasets,
experiments); each service is a set of actions, one per awaited call; `RateLimiter` is
the fixed window of each process. `Administration` runs them next to uploads and a
worker, whose modules of ingestion are taken together in as few steps as the agent's
configuration allows: what they read of it, and when. Three history sets excuse an agent
from a property: `raced` (its flag was set or reset on a stale read), `moved` (it was in
another vector store meanwhile) and `leftover` (something was written behind a deletion,
or the deletion was cut short).

`MCIngestion`, `MCQuerying`, `MCPipelines`, `MCAdministration` and `MCCircuitBreaker` give
the constants their values; the modules named `...Proofs` hold the proofs.

Operators that no action uses (`ClaimableIfUnsettled`, `UpsertSkipped`, ...) are the
plausible bugs the properties were tried against: with one of them in place of the
definition that follows it, the run named in `PROJECT.json` fails.

## Runs

| Run | Instance | Shows |
|---|---|---|
| `breaker` | 4 callers, threshold 2, timeout 2 | Counter, state and opening time agree; one probe per opening; a trial has an owner. With calls that end, a half-open breaker resolves - unless a trial was cancelled, and then it never does (`WedgeIsPermanent`) |
| `ing_sqs` | 2 uploads of one content, 2 workers, a failure, a deletion, pgvector or qdrant | one owner per job; processing means owned; a queued job has a message; archiving follows the lineage and removes the vectors |
| `ing_kafka` | 1 document, 2 workers, 2 failures, reindex, one sweep, an ordinary and a blank content | the polled status implements `DocumentLifecycle`; a ready document's job is ready; a rejected upload leaves nothing alive even when its compensation fails, unless that is recorded as abandoned |
| `ing_reindex` | 2 documents sharing a chunk, 1 worker, 1 failure, one reindex | what a reindex job made ready can be found; the lifecycle with several documents in the requeue and failure loops |
| `ing_live` | as `ing_sqs` with two different contents that share a chunk, 1 failure, fair | every job settles or was abandoned; ready documents can be found |
| `query` | 2 slots, 1 session, 1 query, budget 2, at most 2 tokens a request, 1 failure; sessions refused after 1 tick, removed after 3 | a month exceeds its budget by at most what runs together can use; the tokens of a request reach its total exactly once, however it ends, unless a call raises or the stream is cut; turns are kept however requests interleave; no session vanishes under a request |
| `query_cache` | 1 slot, 3 queries with a similarity that is not transitive, 2 changes of the documents, 1 failure, fair | an answer older than the last invalidation is cached only if that invalidation came between its retrieval and its store; whatever stale answers are left run out |
| `pipelines` | 3 chunks, top_k up to 2, pools of 3, every order of results, every agent configuration; texts of up to 4 lines, 4 sizes and overlaps, 5 strategies | selection, fusion, reranking and the stream protocol; every token in a chunk, limits, overlaps, tables |
| `admin` | 4 requests, 2 at a time, 2 tenants, 2 agents, 2 documents, 1 failure; for the limiter 2 processes, limit 2, a window of 3 ticks | what deletions leave behind; which agents are flagged; what experiments record; at most twice the limit per process in any window's length |
| `agent_config` (violation) | 2 PATCH requests at once, no failure | each is valid against the record it read, and together they store what `models/agent.py:55` refuses; every later read of that agent raises |
| `ing_retry` (violation) | 1 document, 1 worker, 2 sweeps, fair | the README's retry never happens: a failed job is not claimable |
| `ing_reupload` (violation) | two uploads of one content, no failure | the second version is ready with no vectors: its chunks were skipped because of the first version's, which are then deleted |

Bounds. Two documents are enough for a predecessor, a shared chunk and a loop of more
than one element; two workers for redelivery to a second consumer; two failures for an
error and the failure of its compensation. `MAX_RECEIVE_COUNT` is the code's 3, and
receptions saturate there because the code only compares. The identity of workers is
symmetric in the safety runs. Two slots let one query overtake another at any call;
that more of them only add up is what the proof of the budget shows. A tick is a bound on
the length of a request, so that a request sees at most one; ages saturate where the code
only compares. `query_cache` has one slot because the cache is raced by the writer, not by
other queries, and its state space is the largest (about a million states, two minutes).
Three chunks are the fewest with a pool, a cut below it and a tie to break; four lines the
fewest with text, a table of two rows and text again. Four administrative requests are a
deletion, what it races and what reads the result (five were tried once, with the same
outcome). Deadlock is not checked where a bounded number of requests comes to rest:
ingestion, pipelines and administration.

Fairness (`Ingestion!Fairness`, `CircuitBreaker!FairSpec`, `Querying!Fairness`). A worker that can take a step
takes one, since its loop never stops; a hidden message is redelivered, since a
visibility timeout or a rebalance only takes time; a running request goes on. No request
has to arrive, no sweep has to be started, nothing has to fail. A breaker's calls end
(providers have timeouts) but no call has to be made. For the cache, the requests and
the writer under way go on, and time passes; nobody has to send a request, to change a
document or to fail.

Limits of the passing properties. `ReadyDocHasReadyJob` and the lifecycle hold on Kafka;
on SQS a worker whose acknowledgement keeps failing reaches the third reception and marks
a ready document failed (`sqs_consumer.py:99`). They also need one reindex request at a
time and sends that do not raise after succeeding (`AmbiguousSend = FALSE`).
`QueuedJobHasMessage` is about SQS: on Kafka the offset of a message whose claim raised is
committed by the consumer's next poll (`kafka_backend.py:39`), and the job stays queued.
`ReadyIsSearchable` needs distinct contents, no reindex and no deletion.
`ArchivedNotSearchable` excuses a document with a sibling: concurrent uploads of one content
find the same predecessor (`ingestion_service.py:175`) and become two documents of one
version. When the next version is processed, the worker archives whichever of them its
query returns (`ingestion_worker.py:117-125` asks for the version, not for the status
ready), and if that one is still being processed, its upsert makes an archived document
searchable. It takes four uploads; the attempt to prove the property without the excuse
found it. `SelectionSound`
says that results satisfy the filters of a query for the dense mode only: the sparse and
hybrid retrievers never see them. `EveryTokenInAChunk` speaks of documents that were
accepted: with an overlap of 256 or more, which an agent may have, `HierarchicalChunker`
refuses to be built and every document of the agent fails. `RateBounded` is per process,
and the image starts two (`Dockerfile:18`), so what the repository's README calls a
per-tenant limit (`README.md:206`) is up to four times the number within a minute. The
repository's README also draws the cache before the budget check (`README.md:74-77`);
the code, and the model, check the budget first, so a tenant over its budget gets no
cached answers either.

## Proofs

`CircuitBreakerProofs` proves for every set of callers, threshold and timeout that the
breaker's inductive invariant holds (`BreakerInvariant`) and, from it, `StateConsistent`,
`OneProbePerOpening`, `TrialHasOwner` and `WedgeIsPermanent`. The assumptions are that the
threshold is positive and the timeout a natural number. `StateConsistent` alone is not
inductive: that a probe starts only once needs the link between the trial flag, the
caller on trial and the probe counter.

`IngestionProofs` proves `TypeOK`, `SingleOwner` and `ProcessingHasOwner` of `Ingestion!Spec`, for any number of uploads, reindex jobs, sweeps,
workers and failures, any backend and vector store, with ambiguous sends or without. The
assumptions are those of the modules (the bounds are natural numbers, deletable documents
are documents). The argument: a worker becomes the owner of a job only through the
compare-and-set of `set_processing`, which needs a queued job (`ClaimsJob`); no other step
hands a job over, and an owner that lets go leaves a settled or an abandoned job
(`KeepsJob`, proved step by step in `WorkerSteps`, failing calls and crashes included);
nobody else owns a queued job (`OwnedJobClaimed`), because only an insertion makes a job
queued and an upload inserts its job before it could be claimed (`NotInsertedYet`).
Requests and the sweep are reduced to what they can do to a job: create it, settle it or
leave it (`OthersKeepOwnership`). The types are part of the induction, since the rest
relies on messages and jobs being what they are declared to be; that the predecessor of an
upload exists rests on a finite set of numbers having a maximum (`NewestIsMember`, from
the well-foundedness of strict inclusion). The conjunction `IInv` was checked with TLC on
the instances of `ing_sqs`, `ing_kafka` and `ing_reindex` before it was proved.

`QueuedJobsHaveMessages` proves `QueuedJobHasMessage` from the assumption that the backend
is SQS. What a worker knows of its job when it comes to delete the message must still be
true: that the job is no longer queued (`SeenJob`). It stays true because a job is queued
only by its insertion, and a message is about a job that was inserted (`SentHasJob`), so
the invariant also says where the requests and sweeps that send messages got their jobs
(`UploadHasJob`, `ReindexHasJobs`, `SweepHasJob`). Each process is shown to deliver
(`Delivers`): it takes no message away from a queued job, queues a job only if it will
send its message, and stops being about to send only once it has sent, has failed the job
or has left it behind.

`RecordProofs` is what the remaining proofs of ingestion rest on. It first describes every
action by what it does to the variable of its actor, then proves `Registered`: documents,
jobs and messages are inserted once, keep what identifies them (version, lineage, content,
the document of a job), and whoever names one names one that was inserted, at the stage of
the upload where it should be. Last it attributes every status write to the action that
makes it, so that later proofs speak of "the claim of job j" and not of all of `Next`.

`DocumentProofs` proves five properties of documents and vectors.

| Theorem | Assumes of the constants | Because |
|---|---|---|
| `SuccessorsAreNextVersions` (`ArchivedChain`) | nothing | |
| `ArchivedVersionsAreNotSearchable` | no reindex request | one that listed the document before it was archived processes it once more |
| `RejectionLeavesNothing` (`RejectedUploadLeavesNothing`) | `AmbiguousSend = FALSE` | a message sent by a call that raised reaches a worker after the document was failed |
| `ReindexedStaysSearchable` (`ReindexedIsSearchable`) | distinct contents, no deletion, one reindex request | replacing, deleting and wiping remove vectors, also those that others left out because they were there |
| `ReadyStaysSearchable` (`ReadyIsSearchable`) | distinct contents, no deletion, no reindex request | likewise; the run `ing_reupload` shows what happens otherwise |

They hold for any number of uploads, workers, sweeps and failures and on every backend. The
inductive invariants: `ChainInvariant` adds what a worker has read of its document and which
predecessor it has chosen; its conjunct that versions are consecutive is stable because no
record forgets its lineage. For archived vectors the order matters: a later version is
uploaded only after one before it was ready, a ready document is finished (`Finished`: its
job was claimed and no worker is busy with it any more), so nobody upserts for the
predecessor again (`OrderInvariant`) and its vectors, once deleted, stay away
(`ReplacedInvariant`). That is the step that fails for siblings. `Rejecting` says that an
upload has its document to itself until its message is sent (`Withheld`), and that a
rejected one is left with workers that do no more than give up (`Dead`). `SearchInvariant`
follows the chunks of a document from the read of the stored hashes to the ready write:
they are in the namespace, or in the worker's hands. It holds because nothing takes
vectors away: with distinct contents nothing is replaced (`DistinctUploads`,
`NothingReplaced`), and the one request wipes the namespace before it creates any job
(`WipedFirst`), which is why only its jobs are tracked when there is one.

`LifecycleProofs` proves `ReadyDocHasReadyJob` and that `Ingestion` implements
`DocumentLifecycle` (`StatusFollowsLifecycle`), on Kafka or the local backend, without
ambiguous sends and with at most one reindex request; the refinement also without
deletions. Each assumption is needed: on SQS a third reception fails a ready document, a
send that raised after all revives a failed job, two requests that list the same document
give it two jobs, and deleting the jobs of a document makes its own, older status show. `LifeInvariant`
says that a reindex request creates one job for each document, that the document shows it
before a message tells anybody, and that the job in a worker's hands has the status of
that worker's last write. `Reporting` adds what is reported before the first job is there.
In the refinement a step writes the status of one document, of one job, or of none, and each
write moves at most one reported status, in a way the lifecycle allows
(`DocumentStepsReported`, `JobStepsReported`).
These invariants were checked with TLC at the bounds of `ing_kafka` and `ing_reindex`
before they were proved.

`QueryingProofs` proves, for any slots, sessions, queries and bounds, the safety properties of `Querying!Spec`. The assumptions are those of
the modules: the bounds are natural numbers, and a session is refused at least two ticks
before it is removed (24 and 48 hours). `QueryInvariant` is the types and two facts of
each request: it generates from a version it has read, and a session past its check is at most
one tick older than the check allows. `TokensAreRecorded` rests on `SpentInvariant`: an
accumulator is empty until the model calls and stays empty on a hit. That is why the ways
around the record, a refused session and a plain hit, lose nothing. `BudgetInvariant`
sets aside `MaxCost` for each request that has passed the check: recorded tokens and what
is set aside stay below the ceiling, and a step either passes the check, which needs room,
or turns a set-aside amount into a recorded one (the sum is a cardinality, by the finite
set theorems). `StaleOnlyIfOvertaken` needs the same claim for the requests between
retrieval and store (`CacheInvariant`). `TurnsAreKept` speaks of finished requests;
`TurnInvariant` adds what is known at each call, and that nobody who names the id of a
session that does not exist yet gets past the session check: without that, the creation
of a session could erase a turn.

`AdministrationProofs` proves the safety properties of `Administration!Spec`, for any tenants, agents, configurations, vector stores, providers
and requests. `ConfigAssumption` says what a request body can hold (a PATCH never sets the
mismatch flag itself), `RequestAssumption` that requests are finitely many, scores are
integers and "none" is not an id. The types are inductive only with what each request
knows at each call (`CallOK`), and an evaluation's base exists because experiments are
only appended. `EvaluationsConsistent` needs `DatasetRoom`: each replacement between its
delete and its insert has room for the dataset it will leave behind, so that interleaved
replacements leave at most one each. `OrphanOnlyIfOvertaken` and `MismatchFlagged` follow
from one invariant per agent, `Placed`: an id is generated once and nobody knows an agent
that was never inserted (`Known`); unless it was moved, the agent, the requests that read
it and its vectors are in one store (`OneStore`); once it is gone, whoever still deletes
its documents and vectors has them ahead of him, or something was left over (`Removed`,
`Cleared`); and its vectors have its documents' provider, or the flag is up or decided on
a stale read (`SameProvider`). An agent that no request of a step is about keeps all five
(`BystandersPlaced`), which leaves each action its own agent to look at. `Placed` was
checked with TLC first, on two agents and two stores with two requests and on one agent
with three. `RateBounded` is proved for the limiter alone and for it in front of the
requests, for any limit and window: the invariant says where the admissions of the current
window and of the one before it lie in time, so that an interval of a window's length
meets at most two windows.

`PipelineProofs` proves `StreamProtocol`, for any corpus, configuration and failures:
`StreamInvariant` says that nothing is sent before an answer is generated and neither an
error nor an end before the last stage, so that whichever stage fails sends the one ending
there is (`StreamEnds`).

A second part is about selection, for any finite corpus, similarities, fusion constant,
lists and `top_k`: `SelectionSound`, `FusionRespectsDominance`, `EmptyOnlyIfNothingFound`
and, where texts tell the chunks apart (`DistinctTexts`; the reranker's answers are matched
by text), `RerankerDecides`. `SelectionInvariant` carries from stage to stage that the lists
and the results are chunks without repetition (`RankedList`), what was retrieved respects
the dominance of the lists it came from, and no stage loses all results. It was checked with
TLC at the bounds of `pipelines` before it was proved. The lemmas under it are about the
operators of `Ordering` and `Ranking`: an order is a numbering by how many come before
(`PositionsAreBijective`), so that sorting and filtering permute or keep positions
(`SortedProperties`, `KeepProperties`); a dominating chunk collects at least the share of
the other from every list and more from one (`BetterRankAddsMore`, `ScoresDominate`); an MMR
round adds a result that was not selected yet (`RoundProperties`). The sums of the scores
and the rounds of MMR are recursive functions on numbers. That such a function is what its
definition says, and what follows for every number, is proved from the least element of a
set of numbers (`NatFunction`, `NumbersAll`): the property becomes a set, so no operator
has to be instantiated. Filters and sums are written by counting and as such functions
(`Keep`, `FusedScore`, `TokensBefore`, `RunEnd`) for the sake of these proofs.

A third part proves what the runs check of chunking, for texts of any length:
`EveryTokenInAChunk`, `ChunksWithinLimit`, `OverlapExact` and `TablesStayWhole`.
`ChunkInvariant`, checked with TLC at the bounds of `pipelines` before it was proved, says
that a text stays a sequence of lines from its extractors on and that the chunks are those
of a strategy that could be constructed; what is left is a statement about `ChunksOf` for
every text, size and overlap (`EveryStrategyKeepsItsPromise`). Its core is the `Chain`: pieces
that hold the tokens from a first to a last in their order, none empty, neighbours sharing
a bounded number. Windows are a chain (`WindowsChain`, from the arithmetic of
`WindowsCover` and `WindowsOverlap`); so are the runs of lines between any starts that
leave no line with a token before them (`RunsChain`, with one lemma per strategy that its
starts do); the chains of a chain's pieces, put end to end, are one again (`FlattenChains`,
by induction over the pieces), which gives the children of the hierarchical strategy and
the pieces cut by `_token_limit`. A chain holds every token (`ChainHolds`: take the first
piece that reaches it). For tables, all lines of a run are of a table or none is
(`SectionsUniform`: the first exception would start a run), and a table between other lines
is a run of its own (`TableIsSection`). `FixedSizeIsSound` states the strategy without the
pipeline. Two assumptions are made on the constants: agents have a `chunk_size` above zero
and an overlap of at most half of it (`ConfigAssumption`; `models/agent.py:25-26` asks for 64
and 0 at least, `validate_chunk_overlap` for the rest, and a stored agent that breaks the
rule, which `agent_config` finds, fails to load before it chunks anything), and extractors
return lines (`TextAssumption`). The type invariant of `Pipelines` follows from the three invariants and
the typing of the events (`TypesHold`).

Model-checked only: liveness (`HalfOpenResolves`, `EveryJobSettles`, `EventuallyFresh`),
which is out of the prover's reach. Every other property of the passing runs is a theorem.

Excused, not prevented. Some properties leave out what the code does not protect, under a
history variable that names it: `abandoned` jobs (a worker that died or could not write, a
record Kafka lost, a failing compensation), agents that are `raced` (a flag decided or reset
on a stale read), `moved` (to another vector store) or `leftover` (written behind a deletion,
or a deletion cut short), answers that were `overtaken`. The runs reach these cases and the
properties say that nothing else goes wrong; they do not say that these cases cannot happen.
The hazards that are nothing but such a case have no property in `PROJECT.json`.

## Not modelled

- PII scrubbing, prompts, query rewriting and the parsing of model answers: pure text. A
  model's answer that does not parse is a call that raises. Answers are taken to be
  non-empty, and the trimming of the history to a token limit is left out.
- The comparison of `session.updated_at` with an aware time (`query_service.py:100`):
  `main.py:40` opens the client without `tz_aware`, so that the value read back may be naive
  and the comparison raise. The model takes it to work; a request that raises there is
  `CallRaises` at `session`.
- Lines of spaces only: the keyword strategy splits at empty lines, and the model has no
  other blank ones.
- Agents with the cache switched off: `lookup` and `store` are then skipped, which the
  failing lookup already covers.
- Provider clients, vector store drivers and retries of one call (`utils/retry.py`): pure
  I/O; the models let the call succeed or raise.
- Job records and files in administration, `bootstrap_admin`, key rotation, changes of a
  tenant's budget, listings and pagination: single statements, or reads. The unique index
  on an agent's name is taken to exist, although `main.py:80-83` goes on without it.
- The polling of `scripts/eval_gate.py`: a large evaluation answers with an id that no
  experiment carries (`eval_service.py:407`), so the gate waits until it times out,
  without any interleaving to explore.
- HTTP validation and error formatting, metrics, audit records and logs: nothing that the
  program reads back to decide anything.
