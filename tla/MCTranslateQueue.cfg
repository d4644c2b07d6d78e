SPECIFICATION DeclSpec
CONSTANTS
    Items <- MCItems
    Methods <- MCMethods
    Programs <- MCPrograms
    SourceOrder <- MCSourceOrder
    Kind <- MCKind
    ParentOf <- MCParentOf
INVARIANTS
    EachSlotFilledOnce
    NoDanglingMethods
    OrderDoesNotMatter
    DeclaredBeforeUse
    MethodsApartFromImpl
    NoNeedlessReordering
PROPERTIES
    ImplementsLazily
    QueueEnds
CHECK_DEADLOCK FALSE
