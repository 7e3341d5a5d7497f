CONSTANTS
    t1 = t1
    t2 = t2
    t3 = t3
    c1 = c1
    NULL = NULL
    Mallocers = {t1}
    Creators <- MCCreators1
    NV = 8
    NP = 8
    MaxCnt = 5
SPECIFICATION Spec
PROPERTIES
    ImplementsAbstractPages
