SPECIFICATION RetrievalSpec
CONSTANTS
    Titles = {t1, t2}
    Levels = {1, 2}
    LineLengths = {2}
    MaxLines = 4
    ChunkSize = 7
    ChunkOverlap = 4
    Docs = {1, 2}
    DocLimit = 3
    Scores = {600, 1080}
    MaxCandidates = 3
    MaxIds = 2
    TopK = 3
    RerankMax = 2
    MergeLength = 7
    MaxChunks = 3
    w1 = w1
    w2 = w2
    Space = Space
    Mark = Mark
    Polite = Polite
    Words = {w1, w2}
    QuestionLength = 5
    Questions <- MCQuestions
    Answers <- MCAnswers
    MaxAnswers = 2
    Limits = {1, 2, 3}
    HeadTokens = 2
    TailTokens = 1
CHECK_DEADLOCK FALSE
SYMMETRY MCSymmetry
INVARIANTS
    QueriesAreSound
    ChunksFit
    
    
    ResultsAreWhole
    
