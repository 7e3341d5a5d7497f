CONSTANTS
    t1 = t1
    t2 = t2
    t3 = t3
    c1 = c1
    NULL = NULL
    Mallocers <- MCMallocers2
    Creators = {}
    NV = 8
    NP = 8
    MaxCnt = 5
SPECIFICATION Spec
INVARIANTS
    TypeOK
    PageTableConsistent
    BitsAccounted
    ScanAgreesWithFirstFit
PROPERTIES
    ImplementsAbstractPages
