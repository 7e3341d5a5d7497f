CONSTANTS
    m = m
    i = i
    w1 = w1
    w2 = w2
    w3 = w3
    Main = m
    Idle = i
    NULL = NULL
    Workers <- MCWorkers3
    Prio <- MCPrio
    MaxNest = 2
    MainIntr = 1

SPECIFICATION Spec

INVARIANT TypeOK
INVARIANT GeneralTagConsistent
INVARIANT MutualExclusion
INVARIANT NoStrandedWaiter
INVARIANT IntrFlagRestored
PROPERTY ImplementsAbstractLock
PROPERTY ReadyEventuallyRuns
