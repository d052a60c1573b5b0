------------------------------- MODULE Ranking -------------------------------
(***************************************************************************)
(* What the query pipeline computes on ranked lists: the two rank fusions, *)
(* the reranker's cut and maximal marginal relevance.  A result is         *)
(* [id, score, embedded]; scores are integers, as only their order counts. *)
(***************************************************************************)
EXTENDS Ordering, FiniteSetsExt, SequencesExt, Functions

CONSTANTS
    Chunks,           \* ids of the chunks in the namespace
    TextOf,           \* their texts
    Similarity,       \* cosine similarity of two chunks' embeddings
    K,                \* 60, the constant of reciprocal rank fusion
    Lambda            \* agent.mmr_lambda, in tenths

ASSUME RankingAssumption ==
    /\ IsFiniteSet(Chunks)
    /\ K \in Nat \ {0}
    /\ Lambda \in 0..10
    /\ Similarity \in [Chunks \X Chunks -> 0..10]

Result == [id : Chunks, score : Nat, embedded : BOOLEAN]
Ids(results) == {results[i].id : i \in DOMAIN results}
Cut(seq, n) == SubSeq(seq, 1, IF Len(seq) < n THEN Len(seq) ELSE n)
Position(results, id) == CHOOSE i \in DOMAIN results : results[i].id = id
Holding(lists, id) == {l \in DOMAIN lists : id \in Ids(lists[l])}

\* reverse=True left out.
AheadAscending(key, i) == {j \in DOMAIN key : key[j] < key[i] \/ (key[j] = key[i] /\ j < i)}

\* sorted(..., key=..., reverse=True) is stable.
Ahead(key, i) == {j \in DOMAIN key : key[j] > key[i] \/ (key[j] = key[i] /\ j < i)}
SortedBy(seq, key) ==
    LET at == InOrder(DOMAIN key, [i \in DOMAIN key |-> Ahead(key, i)])
    IN  [p \in DOMAIN seq |-> seq[at[p]]]

-----------------------------------------------------------------------------
(* Fusion. *)

\* Common denominator of the shares 1 / (K + rank).
Scale ==
    LET product[n \in Nat] == IF n = 0 THEN K ELSE product[n - 1] * (K + n)
    IN  product[Cardinality(Chunks)]
Share(rank) == Scale \div (K + rank)

\* A chunk's shares over all the lists that hold it; ranks count from first.
FusedScore(lists, first, id) ==
    LET total[n \in Nat] ==
            IF n = 0 THEN 0
            ELSE total[n - 1] + (IF n \in Holding(lists, id)
                                 THEN Share(first + Position(lists[n], id) - 1) ELSE 0)
    IN  total[Len(lists)]

\* Meets a chunk once per list.
FirstMetWithRepeats(lists) ==
    FlattenSeq([l \in DOMAIN lists |-> [i \in DOMAIN lists[l] |-> lists[l][i].id]])

\* The ids in the order the loops first meet them: by list, then by position in it.
FirstMet(lists) ==
    LET ids == UNION {Ids(lists[l]) : l \in DOMAIN lists}
        list(id) == Min(Holding(lists, id))
        Earlier(a, b) == \/ list(a) < list(b)
                         \/ /\ list(a) = list(b)
                            /\ Position(lists[list(a)], a) < Position(lists[list(b)], b)
    IN  InOrder(ids, [id \in ids |-> {other \in ids : Earlier(other, id)}])

\* The copy of the first list that holds the chunk.
FirstCopy(lists, id) ==
    LET l == Min(Holding(lists, id)) IN lists[l][Position(lists[l], id)]

\* The copy with the highest score, the earliest of equals.
BestCopy(lists, id) ==
    LET copy(l) == lists[l][Position(lists[l], id)]
        best == {l \in Holding(lists, id) :
                   \A m \in Holding(lists, id) : copy(l).score >= copy(m).score}
    IN  copy(Min(best))

Fused(lists, first, Copy(_, _)) ==
    LET ids == FirstMet(lists) IN
    SortedBy([i \in DOMAIN ids |-> Copy(lists, ids[i])],
             [i \in DOMAIN ids |-> FusedScore(lists, first, ids[i])])

\* Dense results take precedence over sparse ones.
ReciprocalRankFusion(dense, sparse) == Fused(<<dense, sparse>>, 1, FirstCopy)

\* _rrf_merge, over the results of the variants of a query.
RrfMerge(lists, k) == Cut(Fused(lists, 0, BestCopy), k)

-----------------------------------------------------------------------------
(* Selection. *)

\* Cuts first and reranks what is left.
RerankedAfterCut(results, ranking, k) ==
    LET head == Cut(results, k)
        texts == {TextOf[ranking[i]] : i \in DOMAIN ranking}
    IN  Keep(head, {i \in DOMAIN head : TextOf[head[i].id] \in texts})

\* _execute_rerank: of the reranker's first k chunks, known by their texts, in the order
\* of retrieval.
Reranked(results, ranking, k) ==
    LET texts == {TextOf[ranking[i]] : i \in DOMAIN Cut(ranking, k)} IN
    Cut(Keep(results, {i \in DOMAIN results : TextOf[results[i].id] \in texts}), k)

\* The marginal relevance of a result, given the ones selected.
Relevance(r, selected) ==
    IF selected = <<>> THEN r.score
    ELSE Lambda * r.score
         - (10 - Lambda) * Max({Similarity[<<r.id, s.id>>] : s \in ToSet(selected)})

\* _mmr_filter after n rounds: max() takes the first of the best that remain.
MmrFilter(results, k) ==
    LET Remaining(selected) ==
            Keep(results, {i \in DOMAIN results : results[i] \notin ToSet(selected)})
        Best(rest, selected) ==
            rest[Min({i \in DOMAIN rest : \A j \in DOMAIN rest :
                        Relevance(rest[i], selected) >= Relevance(rest[j], selected)})]
        rounds[n \in Nat] ==
            IF n = 0 THEN <<>>
            ELSE LET selected == rounds[n - 1]
                     rest == Remaining(selected)
                 IN  IF rest = <<>> THEN selected
                     ELSE Append(selected, Best(rest, selected))
    IN  rounds[k]

\* The results MMR can compare.
Embedded(results) == Keep(results, {i \in DOMAIN results : results[i].embedded})

\* Fails over to nothing where no result has an embedding.
MmrWithoutFallback(results, k) == MmrFilter(Embedded(results), k)

\* _apply_mmr_if_enabled, when it is enabled.
Mmr(results, k) ==
    IF Embedded(results) = <<>> THEN Cut(results, k) ELSE MmrFilter(Embedded(results), k)

=============================================================================
