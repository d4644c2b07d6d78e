CONSTANTS
    t1 = t1
    t2 = t2
    t3 = t3
    t4 = t4
    Unset = Unset
    Threads <- MCThreads
SPECIFICATION FairSpec
INVARIANTS
    OneInitialiser
    Agreement
PROPERTIES
    EveryCallReturns
    ImplementsOnce
CHECK_DEADLOCK FALSE
