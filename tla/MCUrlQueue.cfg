\* Up to four nodes at once, of three urls.
CONSTANTS
    Address = {a1, a2, a3, a4}
    NULL = NULL
    Data = {u, v, w}
SPECIFICATION Spec
CHECK_DEADLOCK FALSE
INVARIANTS
    WellLinked
PROPERTIES
    Destroyed
    Refinement
