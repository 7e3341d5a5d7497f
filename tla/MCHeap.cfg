CONSTANTS
    h1 = h1
    h2 = h2
    h3 = h3
    h4 = h4
    h5 = h5
    NULL = NULL
    Tasks <- MCTasks
    Sizes <- MCSizes
    NPages = 8
SYMMETRY MCSymmetry
SPECIFICATION Spec
INVARIANTS
    TypeOK
    ArenaAccounting
    BlockFitsRequest
    PagesAccounted
