CONSTANTS
    MaxArgs = 0
    MaxCaptures = 2
    MaxTemps = 2
    ArgCounts <- MCArgCounts
    CaptureCounts <- MCCaptureCounts
    TempCounts <- MCTempCounts
    Projections <- MCProjections
SPECIFICATION Spec
INVARIANTS
    TypesConsistent
CHECK_DEADLOCK FALSE
