SPECIFICATION Spec
CONSTANTS
    Bodies <- MCBodies
    Spellings <- MCSpellings
    Turns = 6
    NoExpr = NoExpr
    Unset = Unset
INVARIANTS
    SameRuns
    NamesDeclared
CHECK_DEADLOCK FALSE
