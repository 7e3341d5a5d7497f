---------------------------- MODULE MCPageAlloc ----------------------------
EXTENDS PageAlloc

CONSTANTS t1, t2, t3, c1

MCMallocers3 == {t1, t2, t3}
MCMallocers2 == {t1, t2}
MCCreators1 == {c1}
=============================================================================
