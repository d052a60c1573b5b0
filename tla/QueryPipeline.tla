---------------------------- MODULE QueryPipeline ----------------------------
(***************************************************************************)
(* run_query_pipeline and stream_query_pipeline: one question to one       *)
(* agent, stage by stage.  Any call to a provider may raise, or find its   *)
(* circuit breaker open.                                                   *)
(***************************************************************************)
EXTENDS Ranking

CONSTANTS
    MaxTopK,          \* the largest top_k considered
    PoolSize,         \* agent.rerank_pool_size
    Filters,          \* the sets of chunks a request's filters may select
    Agents,           \* the agent configurations considered
    MultiQueryCount   \* agent.multi_query_count

ASSUME PipelineAssumption ==
    /\ MaxTopK \in Nat \ {0} /\ PoolSize \in Nat \ {0} /\ MultiQueryCount \in Nat \ {0}
    /\ \A f \in Filters : f \subseteq Chunks

VARIABLES
    stage,            \* the stage about to run
    agent,            \* the agent's configuration
    ask,              \* the request: top_k, filters, stream
    retrieved,        \* what _execute_retrieval returned
    lists,            \* history: the lists that were fused into it
    ranking,          \* history: the order the reranker gave the chunks
    results,          \* what the answer is generated from
    answer,           \* the answer's text, or none
    events,           \* the events a stream has sent, tokens taken together
    outcome           \* how the call ended

pipelineVars == <<stage, agent, ask, retrieved, lists, ranking, results, answer, events, outcome>>

Agent ==
    [mode : {"dense", "sparse", "hybrid"}, hyde : BOOLEAN, multi : BOOLEAN,
     reranker : {"none", "cross_encoder"}, rewrite : BOOLEAN, mmr : BOOLEAN,
     check : BOOLEAN, mismatch : BOOLEAN]

ASSUME AgentsAssumption == Agents \subseteq Agent /\ Agents # {}

Stages == {"start", "route", "direct", "rewrite", "retrieve", "rerank", "generate",
           "check", "respond", "end", "unused"}

PipelineTypeOK ==
    /\ stage \in Stages
    /\ agent \in Agent
    /\ ask \in [top_k : 1..MaxTopK, allowed : SUBSET Chunks, stream : BOOLEAN]
    /\ retrieved \in Seq(Result) /\ results \in Seq(Result)
    /\ lists \in Seq(Seq(Result))
    /\ ranking \in Seq(Chunks)
    /\ answer \in {"none", "text"}
    /\ events \in Seq({"token", "error", "done", "[DONE]"})
    /\ outcome \in {"none", "answered", "error", "unavailable"}

PipelineInit ==
    /\ stage = "start"
    /\ agent \in Agents
    /\ ask \in [top_k : 1..MaxTopK, allowed : Filters, stream : BOOLEAN]
    /\ retrieved = <<>> /\ lists = <<>> /\ ranking = <<>> /\ results = <<>>
    /\ answer = "none" /\ events = <<>> /\ outcome = "none"

-----------------------------------------------------------------------------
(* Stages and errors. *)

Emit(es) == events' = IF ask.stream THEN events \o es ELSE events

Goto(next) ==
    /\ stage' = next
    /\ UNCHANGED <<agent, ask, retrieved, lists, ranking, results, answer, events, outcome>>

\* CircuitOpenError becomes ServiceUnavailableError; a stream turns every error into an
\* event and ends.
Raise(error) ==
    /\ stage' = "end"
    /\ outcome' = IF error = "open" THEN "unavailable" ELSE "error"
    /\ Emit(<<"error", "[DONE]">>)
    /\ UNCHANGED <<agent, ask, retrieved, lists, ranking, results, answer>>

Errors == {"raises", "open"}

\* The stream says so and goes on as if nothing was wrong.
RefuseMismatchAndGoOn ==
    /\ stage = "start" /\ agent.mismatch
    /\ stage' = "route"
    /\ Emit(<<"error", "[DONE]">>)
    /\ UNCHANGED <<agent, ask, retrieved, lists, ranking, results, answer, outcome>>

\* The embedding provider was changed and the documents are not reindexed yet.
RefuseMismatch == stage = "start" /\ agent.mismatch /\ Raise("raises")

Start == stage = "start" /\ ~agent.mismatch /\ Goto("route")

\* Whatever the model says that is not "direct" means retrieval.
Route ==
    /\ stage = "route"
    /\ \/ Goto("direct")
       \/ Goto(IF agent.rewrite THEN "rewrite" ELSE "retrieve")
       \/ \E error \in Errors : Raise(error)

\* rewrite_query falls back to the query itself, except for an open circuit.
Rewrite ==
    /\ stage = "rewrite"
    /\ \/ Goto("retrieve")
       \/ Raise("open")

-----------------------------------------------------------------------------
(* Retrieval. *)

Rankings == SetToSeqs(Chunks)

PoolOf(k) == IF agent.reranker = "none" THEN k ELSE Max({k, PoolSize})

\* The first k of the chunks allowed, the nearest first.
Nearest(ordering, allowed, k) ==
    Cut(Keep(ordering, {i \in DOMAIN ordering : ordering[i] \in allowed}), k)

\* Returns the distance for the score.
FoundAtDistance(ordering, allowed, k, embedded) ==
    LET hits == Nearest(ordering, allowed, k) IN
    [i \in DOMAIN hits |-> [id |-> hits[i], score |-> 1 - i, embedded |-> embedded]]

\* The nearest has the highest score.
Found(ordering, allowed, k, embedded) ==
    LET hits == Nearest(ordering, allowed, k) IN
    [i \in DOMAIN hits |->
        [id |-> hits[i], score |-> Cardinality(Chunks) - i, embedded |-> embedded]]

\* vector_store.query for one text; embeddings come along when MMR will need them.
DenseQuery(ordering) ==
    Found(ordering, ask.allowed, PoolOf(ask.top_k), agent.mmr)

\* retrieve_sparse ranks everything fetch_all returns: no filters, no embeddings.
SparseQuery(ordering) == Found(ordering, Chunks, PoolOf(ask.top_k), FALSE)

\* HyDE and multi-query fall back to the plain query on any error, so they add no error
\* of their own; HyDE takes precedence.
DenseLists ==
    {<<DenseQuery(o)>> : o \in Rankings}
    \cup (IF agent.multi /\ ~agent.hyde
          THEN UNION {{[i \in 1..n |-> DenseQuery(os[i])] : os \in [1..n -> Rankings]} :
                        n \in 1..MultiQueryCount}
          ELSE {})

\* One list is returned as it is, several are merged.
Dense(ls) == IF Len(ls) = 1 THEN ls[1] ELSE RrfMerge(ls, PoolOf(ask.top_k))

Retrieve ==
    /\ stage = "retrieve"
    /\ \/ /\ agent.mode = "dense"
          /\ \E ls \in DenseLists : lists' = ls /\ retrieved' = Dense(ls)
       \/ /\ agent.mode = "sparse"
          /\ \E o \in Rankings :
                lists' = <<SparseQuery(o)>> /\ retrieved' = SparseQuery(o)
       \/ /\ agent.mode = "hybrid"
          /\ \E ls \in DenseLists, o \in Rankings :
                /\ lists' = <<Dense(ls), SparseQuery(o)>>
                /\ retrieved' = Cut(ReciprocalRankFusion(Dense(ls), SparseQuery(o)),
                                    PoolOf(ask.top_k))
    /\ stage' = "rerank"
    /\ UNCHANGED <<agent, ask, ranking, results, answer, events, outcome>>

\* Sparse retrieval reports an open circuit as a provider's failure.
RetrieveFails ==
    /\ stage = "retrieve"
    /\ \E error \in Errors : Raise(IF agent.mode = "sparse" THEN "raises" ELSE error)

-----------------------------------------------------------------------------
(* Selection and generation. *)

Orders(rs) ==
    IF agent.reranker = "none" THEN {[i \in DOMAIN rs |-> rs[i].id]} ELSE SetToSeqs(Ids(rs))

\* The reranker, then MMR: nothing is awaited between them.
Rerank ==
    /\ stage = "rerank"
    /\ \E order \in Orders(retrieved) :
          LET top == Reranked(retrieved, order, ask.top_k) IN
          /\ ranking' = order
          /\ results' = IF agent.mmr THEN Mmr(top, ask.top_k) ELSE top
    /\ stage' = "generate"
    /\ UNCHANGED <<agent, ask, retrieved, lists, answer, events, outcome>>

RerankFails == stage = "rerank" /\ \E error \in Errors : Raise(error)

\* Without results there is nothing to generate from, and the answer stays empty.
Generate ==
    /\ stage \in {"generate", "direct"}
    /\ IF stage = "generate" /\ results = <<>>
       THEN UNCHANGED answer /\ Emit(<<>>)
       ELSE answer' = "text" /\ Emit(<<"token">>)
    /\ stage' = IF agent.check /\ results # <<>> /\ ~ask.stream THEN "check" ELSE "respond"
    /\ UNCHANGED <<agent, ask, retrieved, lists, ranking, results, outcome>>

\* A provider without token streaming is called through its breaker; one that streams may
\* fail after some tokens.
GenerateFails ==
    /\ stage = "direct" \/ (stage = "generate" /\ results # <<>>)
    /\ \/ \E error \in Errors : Raise(error)
       \/ /\ ask.stream
          /\ stage' = "end" /\ outcome' = "error"
          /\ Emit(<<"token", "error", "[DONE]">>)
          /\ UNCHANGED <<agent, ask, retrieved, lists, ranking, results, answer>>

\* The risk is low, medium, high or, on any error, unknown; no one acts on it.
CheckHallucination == stage = "check" /\ Goto("respond")

Respond ==
    /\ stage = "respond"
    /\ stage' = "end"
    /\ outcome' = "answered"
    /\ Emit(<<"done", "[DONE]">>)
    /\ UNCHANGED <<agent, ask, retrieved, lists, ranking, results, answer>>

PipelineStep ==
    \/ RefuseMismatch \/ Start \/ Route \/ Rewrite
    \/ Retrieve \/ RetrieveFails
    \/ Rerank \/ RerankFails
    \/ Generate \/ GenerateFails \/ CheckHallucination
    \/ Respond

-----------------------------------------------------------------------------
(* What a caller may rely on. *)

\* The results are different chunks, at most top_k of them, that retrieval found, however
\* many lists they came from, and in dense mode within the filters; sparse results, and
\* so hybrid ones, ignore them.
SelectionSound ==
    /\ Len(results) <= ask.top_k
    /\ Ids(results) \subseteq Ids(retrieved)
    /\ agent.mode = "dense" => Ids(retrieved) \subseteq ask.allowed
    /\ \A rs \in {retrieved, results} : Cardinality(Ids(rs)) = Len(rs)

\* A chunk that no list ranks below another, and one ranks above it, is never retrieved
\* after it: what fusion promises, whatever its weights.
FusionRespectsDominance ==
    LET rank(l, id) == IF id \in Ids(lists[l]) THEN Position(lists[l], id)
                       ELSE Cardinality(Chunks) + 1
        dominates(a, b) == /\ \A l \in DOMAIN lists : rank(l, a) <= rank(l, b)
                           /\ \E l \in DOMAIN lists : rank(l, a) < rank(l, b)
    IN  \A a, b \in Ids(retrieved) :
           dominates(a, b) => Position(retrieved, a) < Position(retrieved, b)

\* Where no two chunks have the same text, the reranker's choice among all that was
\* retrieved is what the answer is based on.
RerankerDecides ==
    (stage = "generate" /\ ~agent.mmr) =>
        Ids(results) = ToSet(Cut(ranking, ask.top_k))

\* An empty answer means an empty retrieval: no stage loses all results on the way.
EmptyOnlyIfNothingFound ==
    (outcome = "answered" /\ answer = "none") => retrieved = <<>> /\ ~agent.mismatch

\* A stream sends its tokens, then one error or one end, then [DONE], and nothing more.
StreamProtocol ==
    (stage = "end" /\ ask.stream) =>
        /\ events \in {t \o <<e, "[DONE]">> : t \in {<<>>, <<"token">>}, e \in {"error", "done"}}
        /\ (events[Len(events) - 1] = "done") = (outcome = "answered")

=============================================================================
