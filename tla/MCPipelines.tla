---------------------------- MODULE MCPipelines ----------------------------
(* Values of the constants of Pipelines: three chunks and top_k up to 2, so that the *)
(* pool, the cut and the fusion all matter; texts of up to four lines.              *)
EXTENDS Pipelines

MCChunks == 1..3
MCTextOf == [c \in MCChunks |-> c]
MCSimilarity == [p \in MCChunks \X MCChunks |-> IF p[1] = p[2] THEN 10 ELSE (p[1] + p[2]) % 4]
MCFilters == {MCChunks, {1, 3}}
MCAgents ==
    {a \in Agent : /\ a.rewrite = a.check
                   /\ a.mismatch => a.mode = "dense" /\ a.reranker = "none"
                   /\ a.hyde => a.mode = "dense"}

Text(n, s) == [kind |-> "text", tokens |-> n, similar |-> s]
Heading == [kind |-> "heading", tokens |-> 1, similar |-> FALSE]
Table(n) == [kind |-> "table", tokens |-> n, similar |-> TRUE]
BlankLine == [kind |-> "blank", tokens |-> 0, similar |-> FALSE]
Surrogates == [kind |-> "surrogate", tokens |-> 2, similar |-> FALSE]

MCPlainTexts == BoundedSeq({Text(5, TRUE), Text(2, FALSE), Heading, Table(2), BlankLine}, 4)
MCPdfTexts == {<<>>, <<Surrogates>>, <<Text(1, FALSE)>>, <<Text(3, FALSE), Table(1)>>}
MCChunkConfigs == {<<4, 0>>, <<4, 2>>, <<3, 1>>, <<6, 3>>}
=============================================================================
