SPECIFICATION Spec
CONSTANTS
    a = a
    b = b
    fatal = fatal
    File <- TwoFiles
    Markdown <- TwoFiles
    Readme <- First
    Content <- TwoContents
    Bad <- None
    Empty <- None
    Fatal <- None
    CommitBatch = 2
    Window = 2
    MayRevert = FALSE
    MayReturn = TRUE
    MaxEdits = 3
    MaxUnlistable = 0
    MaxUnreadable = 0
    MaxExtractFails = 0
    MaxAborts = 0
INVARIANT
    OneOwner
