SPECIFICATION Spec
CONSTANTS
    r1 = r1
    r2 = r2
    Run <- TwoRuns
    MaxKills = 0
INVARIANT
    EndedRunsHaveResult
