SPECIFICATION Spec
CONSTANTS
    Chunks <- MCChunks
    TextOf <- MCTextOf
    Similarity <- MCSimilarity
    K = 60
    Lambda = 5
    MaxTopK = 2
    PoolSize = 3
    Filters <- MCFilters
    Agents <- MCAgents
    MultiQueryCount = 2
    ChildTokens = 3
    MinPdfText = 2
    PlainTexts <- MCPlainTexts
    PdfTexts <- MCPdfTexts
    ChunkConfigs <- MCChunkConfigs
INVARIANTS TypeOK SelectionSound FusionRespectsDominance RerankerDecides EmptyOnlyIfNothingFound StreamProtocol EveryTokenInAChunk ChunksWithinLimit OverlapExact TablesStayWhole
CHECK_DEADLOCK FALSE
