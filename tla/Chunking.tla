------------------------------ MODULE Chunking ------------------------------
(***************************************************************************)
(* parse_document and the chunking strategies, on documents given line by  *)
(* line.  A chunk is the interval <<first, last>> of the tokens it holds,  *)
(* tokens being numbered over the whole text; white space belongs to no    *)
(* token.  What the scrubbing puts in the place of a token is a token.     *)
(***************************************************************************)
EXTENDS Ordering, FiniteSetsExt, SequencesExt

CONSTANTS
    ChildTokens,      \* HierarchicalChunker's child_chunk_tokens, 256
    MinPdfText        \* visible characters (here tokens) below which a PDF is scanned, 50

ASSUME ChunkAssumption == ChildTokens \in Nat \ {0} /\ MinPdfText \in Nat

\* An agent's chunk_size and chunk_overlap, as AgentDocument.validate_chunk_overlap and
\* FixedSizeChunker accept them.
ValidOverlap(size, overlap) == overlap <= size \div 2

\* A line: what it is, its tokens, and whether its sentence is similar to the one before.
LineKinds == {"text", "heading", "table", "blank", "surrogate"}
Line == [kind : LineKinds, tokens : Nat, similar : BOOLEAN]
Blank(line) == line.tokens = 0

\* The number of tokens in the lines before line i.
TokensBefore(lines, i) ==
    LET sum[n \in 0..Len(lines)] == IF n = 0 THEN 0 ELSE sum[n - 1] + lines[n].tokens
    IN  sum[i - 1]
TokenCount(lines) == TokensBefore(lines, Len(lines) + 1)

\* A piece: the interval of the tokens of lines i..j.
Span(lines, i, j) == <<TokensBefore(lines, i) + 1, TokensBefore(lines, j + 1)>>
SpanLength(span) == span[2] - span[1] + 1

-----------------------------------------------------------------------------
(* Token windows. *)

\* Stops when fewer tokens than a whole window are left.
FullWindowCount(n, size, stride) == IF n < size THEN 1 ELSE (n - size) \div stride + 1

\* The number of elements of range(0, n, stride).
WindowCount(n, size, stride) == (n + stride - 1) \div stride

\* tokens[start : start + size] for start in range(0, n, stride), within a span.
Windows(span, size, stride) ==
    [k \in 1..WindowCount(SpanLength(span), size, stride) |->
        LET start == span[1] + (k - 1) * stride IN
        <<start, IF start + size - 1 <= span[2] THEN start + size - 1 ELSE span[2]>>]

\* Passes long pieces on.
Unlimited(span, size) == <<span>>

\* _token_limit, _subchunk_if_needed and _append_chunk_with_max_tokens.
TokenLimited(span, size) ==
    IF SpanLength(span) <= size THEN <<span>> ELSE Windows(span, size, size)

Limited(spans, size) == FlattenSeq([k \in DOMAIN spans |-> TokenLimited(spans[k], size)])

-----------------------------------------------------------------------------
(* The pieces of a text: the runs of lines between the lines of starts. *)

\* The last line of the run that begins with line i.
RunEnd(lines, starts, i) == Min({j \in starts : j > i} \cup {Len(lines) + 1}) - 1

Runs(lines, starts) ==
    LET run == [i \in DOMAIN lines |-> Span(lines, i, RunEnd(lines, starts, i))]
    IN  Keep(run, {i \in starts : SpanLength(run[i]) > 0})

Filled(lines) == {i \in DOMAIN lines : ~Blank(lines[i])}
IsTable(lines, i) == lines[i].kind = "table"

\* text.split("\n\n"): a line after a blank one starts a paragraph.  Blank lines are taken
\* to be empty: one of spaces only separates no paragraphs in the code.
ParagraphStarts(lines) ==
    {i \in Filled(lines) : i = 1 \/ Blank(lines[i - 1])}

\* The sentences whose similarity with the one before them is below the threshold.
GroupStarts(lines) ==
    {i \in Filled(lines) : ~lines[i].similar \/ i = Min(Filled(lines))}

\* Takes every table row for a section.
SectionStartsAtEveryRow(lines) ==
    {i \in DOMAIN lines :
        i = 1 \/ IsTable(lines, i) \/ IsTable(lines, i - 1) \/ lines[i].kind = "heading"}

\* A table begins or ends, or a heading (or a divider) opens a section.
SectionStarts(lines) ==
    {i \in DOMAIN lines :
        i = 1 \/ IsTable(lines, i) # IsTable(lines, i - 1) \/ lines[i].kind = "heading"}

-----------------------------------------------------------------------------
(* The strategies. *)

Whole(lines) == <<1, TokenCount(lines)>>

\* Strides over whole windows.
FixedSizeApart(lines, size, overlap) == Windows(Whole(lines), size, size)

FixedSize(lines, size, overlap) == Windows(Whole(lines), size, size - overlap)

\* Children overlap within their parent window, never across two of them.
Parents(lines, size) == Windows(Whole(lines), size, size)
Hierarchical(lines, size, overlap) ==
    FlattenSeq([k \in DOMAIN Parents(lines, size) |->
        Windows(Parents(lines, size)[k], ChildTokens, ChildTokens - overlap)])

Keyword(lines, size) == Limited(Runs(lines, ParagraphStarts(lines)), size)

\* One sentence is one chunk, whatever its length.
Semantic(lines, size) ==
    IF Cardinality(Filled(lines)) = 1 THEN <<Whole(lines)>>
    ELSE Limited(Runs(lines, GroupStarts(lines)), size)

DocumentAware(lines, size) == Limited(Runs(lines, SectionStarts(lines)), size)

Strategies == {"fixed_size", "hierarchical", "keyword", "semantic", "document_aware"}

\* HierarchicalChunker's constructor raises for overlaps an agent may well have.
Constructible(strategy, overlap) == strategy = "hierarchical" => overlap < ChildTokens

ChunksOf(strategy, size, overlap, lines) ==
    IF TokenCount(lines) = 0 THEN <<>>
    ELSE CASE strategy = "fixed_size"     -> FixedSize(lines, size, overlap)
           [] strategy = "hierarchical"   -> Hierarchical(lines, size, overlap)
           [] strategy = "keyword"        -> Keyword(lines, size)
           [] strategy = "semantic"       -> Semantic(lines, size)
           [] strategy = "document_aware" -> DocumentAware(lines, size)

-----------------------------------------------------------------------------
(* Parsing.  A text is a sequence of lines; an extractor that fails counts  *)
(* as one that found nothing, and so does a file that cannot be decoded.    *)

\* pymupdf first, pypdf if it found more, OCR if both found next to nothing.  The tables
\* of pdfplumber, extracted once more, follow a text of pymupdf.
ParsePdf(pymupdf, pypdf, ocr, tables) ==
    IF TokenCount(pymupdf) < MinPdfText /\ TokenCount(pypdf) < MinPdfText THEN ocr
    ELSE IF TokenCount(pymupdf) >= TokenCount(pypdf)
         THEN pymupdf \o (IF TokenCount(tables) > 0 THEN tables ELSE <<>>)
         ELSE pypdf

=============================================================================
