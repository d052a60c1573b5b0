---------------------------- MODULE MCIngestion ----------------------------
(***************************************************************************)
(* Values for the model checking of Ingestion.  Two contents that share a  *)
(* chunk, so that deduplication across documents matters, and a blank one, *)
(* which the pipeline refuses for good.                                    *)
(***************************************************************************)
EXTENDS Ingestion

CONSTANTS w1, w2, r1      \* two worker processes, one reindex request

MCChunksOf == [c \in Contents |->
                 CASE c = "report" -> {"a", "b"} [] c = "notes" -> {"b"} [] OTHER -> {}]

Workers2 == {w1, w2}
Workers1 == {w1}
WorkerSymmetry == Permutations(Workers2)

=============================================================================
