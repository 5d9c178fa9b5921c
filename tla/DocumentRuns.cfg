SPECIFICATION Spec
CONSTANTS
    Target = 8
    Overlap = 3
    MinSection = 5
    IncludeExtensions <- Included
    ExcludeExtensions <- Excluded
    PdfTextMin = 2
    EmptyMin = 2
    ConfidenceHigh = 3
    ConfidenceLow = 1
    PlainPieces = 5
    MarkdownPieces = 4
    NoteLines = 3
    File <- Files
INVARIANTS
    NothingLost
    ChunksBounded
    SheetsApart
    VouchedFor
CHECK_DEADLOCK FALSE
