SPECIFICATION Spec
CONSTANTS
    MaxBlocks = 4
    Bodies <- MCBodies
INVARIANTS NoPanic OnlyIrreducibleRefused JoinsTranslatedOnce
PROPERTY RunsAsGraph
CHECK_DEADLOCK FALSE
