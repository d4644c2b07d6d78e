CONSTANTS
    MaxArgs = 2
    MaxCaptures = 2
    MaxTemps = 2
    ArgCounts <- MCArgCounts
    CaptureCounts <- MCCaptureCounts
    TempCounts <- MCTempCounts
    Projections <- MCProjections
SPECIFICATION CommonSpec
INVARIANTS
    PlacesKeepMeaning
    ParametersAreArguments
CHECK_DEADLOCK FALSE
