SPECIFICATION Spec
CONSTANTS
    f1 = f1
    f2 = f2
    long = long
    short = short
    blank = blank
    bad = bad
    File <- OneFile
    Hash <- TwoContents
    Parts <- Splits
    Blank <- NoContent
    Bad <- NoContent
    CommitBatch = 2
    Window = 2
    MaxEdits = 2
    MaxReadErrors = 0
    MaxCrashes = 0
    MaxInterrupts = 1
PROPERTY
    TableFullyPopulated
