SPECIFICATION Spec
CONSTANTS
    Params = {1}
    Temps = {2, 3}
    Bodies <- MCBodies
    NoTerm = NoTerm
INVARIANTS
    Meaning
    WellScopedWithoutEarlyExit
CHECK_DEADLOCK FALSE
