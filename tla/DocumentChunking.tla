-------------------------- MODULE DocumentChunking --------------------------
(***************************************************************************)
(* From a file to its chunks: parse_document, _sanitize and _chunk_text,   *)
(* one document under one agent configuration.                             *)
(***************************************************************************)
EXTENDS Chunking

CONSTANTS
    PlainTexts,       \* the texts a txt, md or docx file may hold
    PdfTexts,         \* what an extractor may make of a PDF
    ChunkConfigs      \* <<chunk_size, chunk_overlap>> pairs of agents

ASSUME ConfigAssumption ==
    \A c \in ChunkConfigs : c \in (Nat \ {0}) \X Nat /\ ValidOverlap(c[1], c[2])
ASSUME TextAssumption == PlainTexts \subseteq Seq(Line) /\ PdfTexts \subseteq Seq(Line)

VARIABLES
    source,           \* the file, as its extractors read it
    chunker,          \* strategy, size and overlap of the agent
    text,             \* the parsed text
    chunks,           \* the chunks
    progress          \* "parse", "chunk", "chunked", "rejected" or "unused"

chunkVars == <<source, chunker, text, chunks, progress>>

Source ==
    [type : {"txt", "docx"}, text : PlainTexts]
    \cup [type : {"pdf"}, pymupdf : PdfTexts, pypdf : PdfTexts, ocr : PdfTexts, tables : PdfTexts]

ChunkInit ==
    /\ source \in Source
    /\ \E c \in ChunkConfigs, s \in Strategies :
          chunker = [strategy |-> s, size |-> c[1], overlap |-> c[2]]
    /\ text = <<>>
    /\ chunks = <<>>
    /\ progress = "parse"

\* Lone surrogates, which only PDF fonts produce, go after the text was found not empty.
Sanitized(t) ==
    [i \in DOMAIN t |-> IF t[i].kind = "surrogate" THEN [t[i] EXCEPT !.tokens = 0] ELSE t[i]]

RawText ==
    IF source.type = "pdf"
    THEN ParsePdf(source.pymupdf, source.pypdf, source.ocr, source.tables)
    ELSE source.text

Parse ==
    /\ progress = "parse"
    /\ IF TokenCount(RawText) = 0       \* ParseError
       THEN progress' = "rejected" /\ UNCHANGED text
       ELSE progress' = "chunk" /\ text' = Sanitized(RawText)
    /\ UNCHANGED <<source, chunker, chunks>>

\* The constructor's ValueError and "Document produced zero chunks after parsing".
Chunk ==
    /\ progress = "chunk"
    /\ LET cs == ChunksOf(chunker.strategy, chunker.size, chunker.overlap, text) IN
       IF Constructible(chunker.strategy, chunker.overlap) /\ cs # <<>>
       THEN progress' = "chunked" /\ chunks' = cs
       ELSE progress' = "rejected" /\ UNCHANGED chunks
    /\ UNCHANGED <<source, chunker, text>>

ChunkStep == Parse \/ Chunk

ChunkTypeOK ==
    /\ text \in Seq(Line)
    /\ chunks \in Seq(Nat \X Nat)
    /\ progress \in {"parse", "chunk", "chunked", "rejected", "unused"}

-----------------------------------------------------------------------------
(* What retrieval may rely on. *)

Holds(chunk, token) == chunk[1] <= token /\ token <= chunk[2]

\* Whatever the strategy, every token of the text can be found, and no chunk is empty: a
\* document that was accepted has at least one chunk.
EveryTokenInAChunk ==
    progress = "chunked" =>
        /\ Len(chunks) > 0
        /\ \A t \in 1..TokenCount(text) : \E k \in DOMAIN chunks : Holds(chunks[k], t)
        /\ \A k \in DOMAIN chunks :
              1 <= chunks[k][1] /\ chunks[k][1] <= chunks[k][2] /\ chunks[k][2] <= TokenCount(text)

\* No chunk is longer than what the strategy promises the embedding provider, except the
\* single sentence SemanticChunker passes on as it is.
ChunksWithinLimit ==
    \A k \in DOMAIN chunks :
       \/ SpanLength(chunks[k]) <= (IF chunker.strategy = "hierarchical"
                                    THEN ChildTokens ELSE chunker.size)
       \/ chunker.strategy = "semantic" /\ Len(chunks) = 1 /\ Cardinality(Filled(text)) = 1

\* Neighbouring windows of the fixed-size strategy share chunk_overlap tokens, or all that
\* is left of the text; the other strategies but hierarchical share none.
OverlapExact ==
    \A k \in 1..(Len(chunks) - 1) :
       LET shared == chunks[k][2] - chunks[k + 1][1] + 1 IN
       CASE chunker.strategy = "fixed_size" ->
                shared = Min({chunker.overlap, SpanLength(chunks[k + 1])})
         [] chunker.strategy = "hierarchical" -> shared <= chunker.overlap
         [] OTHER -> shared = 0

\* Structure survives: DocumentAwareChunker never mixes a table with other text, and
\* keeps each table that fits in one chunk.
TablesStayWhole ==
    chunker.strategy = "document_aware" =>
       \A i, j \in DOMAIN text : \A k \in DOMAIN chunks :
          LET in(l) == Holds(chunks[k], Span(text, l, l)[1])
              table == \A l \in i..j : IsTable(text, l) /\ ~Blank(text[l])
          IN  /\ (~Blank(text[i]) /\ ~Blank(text[j]) /\ in(i) /\ in(j))
                    => IsTable(text, i) = IsTable(text, j)
              /\ (i <= j /\ table /\ SpanLength(Span(text, i, j)) <= chunker.size
                    /\ \A l \in {i - 1, j + 1} \cap DOMAIN text : ~IsTable(text, l))
                    => in(i) = in(j)

=============================================================================
