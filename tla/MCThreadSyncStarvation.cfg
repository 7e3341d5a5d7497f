CONSTANTS
    m = m
    i = i
    w1 = w1
    w2 = w2
    w3 = w3
    Main = m
    Idle = i
    NULL = NULL
    Workers <- MCWorkers2
    Prio <- MCPrio
    MaxNest = 2
    MainIntr = 1

SPECIFICATION Spec

PROPERTY LockStarvationFree
