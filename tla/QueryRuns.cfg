SPECIFICATION QuerySpec
CONSTANTS
    Chunk <- TwoChunks
    BatchSize = 2
    DeleteBatch = 1
    Poison <- NoPoison
    Exclusive = TRUE
    MaxCrashes = 1
    MaxInterrupts = 0
    Request <- OneRequest
    Question <- Questions
    Threshold = 5
    MinHits = 1
    TopDense = 2
    TopSparse = 1
    RrfK = 60
    Scale <- ExactScale
    TopK = 1
INVARIANTS
    SourcesCurrent
    SteadyFound
    RefusalJustified
    BothLegsFirst
