---------------------------- MODULE AbstractLock ----------------------------
(***************************************************************************)
(* What the lock of thread/sync.c promises (spec.md 3 and 4.6): a          *)
(* reentrant mutual-exclusion lock.  It is free or owned by one task with  *)
(* a depth; the owner may re-enter and leave, and the lock is free again   *)
(* only when the depth drops from one.                                     *)
(***************************************************************************)
EXTENDS Naturals

CONSTANTS Workers, MaxNest, NULL

VARIABLES owner, depth

Init == owner = NULL /\ depth = 0

Acquire(t) == owner = NULL /\ owner' = t /\ depth' = 1

Reenter(t) == owner = t /\ depth < MaxNest /\ depth' = depth + 1 /\ UNCHANGED owner

Leave(t) == owner = t /\ depth > 1 /\ depth' = depth - 1 /\ UNCHANGED owner

Release(t) == owner = t /\ depth = 1 /\ owner' = NULL /\ depth' = 0

Next == \E t \in Workers : Acquire(t) \/ Reenter(t) \/ Leave(t) \/ Release(t)

Spec == Init /\ [][Next]_<<owner, depth>>

=============================================================================
