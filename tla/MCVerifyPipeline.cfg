SPECIFICATION Spec
CONSTANTS
    lib = lib
    bin = bin
    Targets <- MCTargets
    CrateName <- OwnNames
    MaxEdits = 1
SYMMETRY Symmetry
INVARIANTS
    SuccessMeansVerified
    OnlyCurrentReported
    ProverSeesTranslation
    TempDirsDeletedBehindCharon
CHECK_DEADLOCK FALSE
