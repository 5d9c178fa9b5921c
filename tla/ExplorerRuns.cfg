SPECIFICATION Spec
CONSTANTS
    w1 = w1
    w2 = w2
    Caller <- TwoWindows
    Result <- Results
    Dist <- Distances
    Threshold = 5
    MinHits = 1
    Config <- Settings
    RrfK = 60
    Scale = 1
    TopK = 1
INVARIANTS
    LockIsTrue
    MirrorsProduction
