SPECIFICATION FairSpec
CONSTANTS
    Chunk <- ThreeChunks
    BatchSize = 2
    DeleteBatch = 1
    Poison <- SecondIsPoison
    Exclusive = TRUE
    MaxCrashes = 1
    MaxInterrupts = 1
INVARIANTS
    EmbeddedSearchable
    NoOrphan
    DuplicatesBounded
PROPERTIES
    NoResurrection
    CleanExitComplete
    DenseLeg
    DeletedRemoved
    PendingHandled
