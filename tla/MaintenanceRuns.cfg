SPECIFICATION FairSpec
CONSTANTS
    r1 = r1
    r2 = r2
    Run <- TwoRuns
    MaxKills = 2
INVARIANTS
    HealthIsRight
    OneStageAtATime
    OkIsTrue
    ReaderIsRight
PROPERTIES
    EveryRunReports
    LockFreed
