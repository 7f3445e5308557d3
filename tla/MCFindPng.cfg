\* Four trees; room for three, six and sixteen open files.
CONSTANTS
    Trees <- AllTrees
    Limits = {3, 6, 16}
SPECIFICATION Spec
CHECK_DEADLOCK FALSE
INVARIANTS
    PrintedOnce
    EnoughFindsAll
