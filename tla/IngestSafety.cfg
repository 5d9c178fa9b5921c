SPECIFICATION Spec
CONSTANTS
    a = a
    b = b
    fatal = fatal
    File <- TwoFiles
    Markdown <- TwoFiles
    Readme <- First
    Content <- TwoContents
    Bad <- None
    Empty <- None
    Fatal <- None
    CommitBatch = 2
    Window = 2
    MayRevert = FALSE
    MayReturn = FALSE
    MaxEdits = 2
    MaxUnlistable = 0
    MaxUnreadable = 1
    MaxExtractFails = 1
    MaxAborts = 1
INVARIANTS
    TextExists
    OneOwner
PROPERTIES
    CleanRunAgrees
