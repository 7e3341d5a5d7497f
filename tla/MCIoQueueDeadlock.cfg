CONSTANTS
    c1 = c1
    c2 = c2
    c3 = c3
    p1 = p1
    NULL = NULL
    Consumers <- MCConsumers
    Producers <- MCProducers
    BufSize = 3
    NByte = 4
    Keys <- MCKeys
SPECIFICATION Spec
INVARIANT NoIoDeadlock
