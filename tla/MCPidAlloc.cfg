CONSTANTS
    c1 = c1
    c2 = c2
    NULL = NULL
    Callers <- MCCallers

SPECIFICATION Spec

CHECK_DEADLOCK FALSE

INVARIANT UniquePids
