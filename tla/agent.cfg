SPECIFICATION AgentFairSpec
CONSTANTS
    Docs <- MCDocs
    Editions <- MCEditions
    ChunkLengths <- MCChunkLengths
    MaxOrder = 2
    Indexers = {x1}
    IndexBound = 2
    Nothing = Nothing
    Questions <- MCQuestions
    Tagged <- MCTagged
    TopK = 1
    SummaryTopK = 2
    Multiplier = 1
    MaxQueries = 2
    MaxLoops = 2
    CiteLimit = 1
    DocLimit = 2
    Documents = {}
    HasModel = TRUE
    MaxChunks = 2
    SinglePass = 20
    PerChunk = 10
    GroupSize = 1
    Parallelism = 1
    Timeout = 1
    Grace = 1
INVARIANTS
    AgentTypeOK
    ConfirmedIsComplete
    CitedIsUsed
    
    KnownIsSummarized
    FallbackMeansDeadline
    NoGroupIsDropped
    
PROPERTIES
    QuestionEnds
CHECK_DEADLOCK FALSE
