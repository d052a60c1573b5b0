---------------------------- MODULE SemanticCache ----------------------------
(***************************************************************************)
(* The table semantic_cache, restricted to the rows of one agent: at most  *)
(* one row per query hash.  An answer is abstracted to the version of the  *)
(* agent's documents it was computed from (nothing below depends on        *)
(* whether a stream was left before its answer was complete); a vector to  *)
(* the queries within the agent's similarity threshold.                    *)
(***************************************************************************)
EXTENDS Integers, Sequences, FiniteSets

CONSTANTS
    Queries,          \* the query hashes considered
    Near,             \* the queries close enough to each query to answer it, nearest first
    CacheTTL,         \* settings.semantic_cache_ttl_hours, in ticks
    MaxVersion        \* writes to the agent's documents considered

ASSUME NearAssumption ==
    \A q \in Queries : Near[q] \in Seq(Queries) /\ Len(Near[q]) > 0 /\ Near[q][1] = q
ASSUME CacheBounds == CacheTTL \in Nat /\ MaxVersion \in Nat

VARIABLE cache        \* query hash -> row

Versions == 0..MaxVersion
\* Ages saturate one tick beyond the last one at which a row is served.
Row == [version : Versions, age : 0..(CacheTTL + 1), overtaken : BOOLEAN]
NoRow == [version |-> -1, age |-> CacheTTL + 1, overtaken |-> FALSE]

Cached(q) == cache[q] # NoRow

\* The condition on created_at left out.
ServableForever(q) == Cached(q)

Servable(q) == Cached(q) /\ cache[q].age <= CacheTTL

\* ORDER BY embedding <=> $2 LIMIT 1 over the rows within the distance and the TTL.
Lookup(q) == LET rows == SelectSeq(Near[q], Servable) IN
             IF rows = <<>> THEN NoRow ELSE cache[Head(rows)]

\* INSERT ... ON CONFLICT (agent_id, query_hash) DO UPDATE; overtaken is history.
Stored(q, version, overtaken) ==
    [cache EXCEPT ![q] = [version |-> version, age |-> 0, overtaken |-> overtaken]]

\* Deletes the rows that expired anyway.
InvalidatedIfExpired == [q \in Queries |-> IF Servable(q) THEN cache[q] ELSE NoRow]

\* DELETE FROM semantic_cache WHERE agent_id = $1.
Invalidated == [q \in Queries |-> NoRow]

\* cleanup_expired_entries, at startup.
CleanedUp == [q \in Queries |-> IF Servable(q) THEN cache[q] ELSE NoRow]

\* A tick later.
AgedUnsaturated == [q \in Queries |->
           IF Cached(q) THEN [cache[q] EXCEPT !.age = @ + 1] ELSE cache[q]]

Aged == [q \in Queries |->
           IF Cached(q) /\ cache[q].age <= CacheTTL
           THEN [cache[q] EXCEPT !.age = @ + 1] ELSE cache[q]]

CacheInit == cache = [q \in Queries |-> NoRow]
CacheTypeOK == cache \in [Queries -> Row \cup {NoRow}]

=============================================================================
