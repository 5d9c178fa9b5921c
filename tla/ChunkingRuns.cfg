SPECIFICATION FairSpec
CONSTANTS
    f1 = f1
    f2 = f2
    long = long
    short = short
    blank = blank
    bad = bad
    File <- TwoFiles
    Hash <- EveryContent
    Parts <- Splits
    Blank <- BlankContent
    Bad <- BadContent
    CommitBatch = 2
    Window = 2
    MaxEdits = 3
    MaxReadErrors = 1
    MaxCrashes = 1
    MaxInterrupts = 1
INVARIANTS
    LiveRowsAgree
    WholeFiles
PROPERTIES
    CurrentKept
    CleanRunComplete
    RemovedWithdrawn
    ChangeChunked
