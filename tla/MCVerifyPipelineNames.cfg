SPECIFICATION Spec
CONSTANTS
    lib = lib
    bin = bin
    Targets <- MCTargets
    CrateName <- SharedName
    MaxEdits = 1
INVARIANT
    SuccessMeansVerified
CHECK_DEADLOCK FALSE
