CONSTANTS
    MemSizes <- MCMemSizes

SPECIFICATION Spec

\* After mem_pool_init the model has no further step: the boot goes on
\* with state this module does not keep.
CHECK_DEADLOCK FALSE

INVARIANT PoolsCoverFreeMemory
