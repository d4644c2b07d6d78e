SPECIFICATION Spec
CONSTANTS
    Params = {1}
    Temps = {2, 3}
    Bodies <- MCBodies
    NoTerm = NoTerm
INVARIANT
    WellScoped
CHECK_DEADLOCK FALSE
