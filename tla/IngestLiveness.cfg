SPECIFICATION FairSpec
CONSTANTS
    a = a
    b = b
    fatal = fatal
    File <- TwoFiles
    Markdown <- None
    Readme <- None
    Content <- WithFatal
    Bad <- None
    Empty <- None
    Fatal <- FatalContent
    CommitBatch = 1
    Window = 2
    MayRevert = FALSE
    MayReturn = TRUE
    MaxEdits = 2
    MaxUnlistable = 1
    MaxUnreadable = 0
    MaxExtractFails = 0
    MaxAborts = 0
PROPERTIES
    ChangeExtracted
    RemovedNoticedUnlessPoisoned
