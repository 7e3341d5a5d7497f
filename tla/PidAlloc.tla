------------------------------ MODULE PidAlloc ------------------------------
(***************************************************************************)
(* allocate_pid of thread/thread.c, called by init_thread (thread_start)   *)
(* and by fork_pid, from tasks that the timer may preempt at any point.    *)
(* pid_lock is used through the abstract lock that ThreadSync shows        *)
(* lock_acquire and lock_release implement.                                *)
(***************************************************************************)
EXTENDS Naturals

CONSTANTS
    Callers,   \* tasks that each call allocate_pid once
    NULL

VARIABLES
    next_pid,  \* the static local next_pid
    owner,     \* the abstract state of pid_lock
    depth,
    pc,        \* where each caller is in allocate_pid
    pid        \* the value each caller got back

vars == <<next_pid, owner, depth, pc, pid>>

PidLock == INSTANCE AbstractLock WITH Workers <- Callers, MaxNest <- 1

Init ==
    /\ next_pid = 0
    /\ PidLock!Init
    /\ pc = [t \in Callers |-> "acquire"]
    /\ pid = [t \in Callers |-> 0]

(* lock_acquire(&pid_lock).                                                *)
Acquire(t) ==
    /\ pc[t] = "acquire"
    /\ PidLock!Acquire(t)
    /\ pc' = [pc EXCEPT ![t] = "increment"]
    /\ UNCHANGED <<next_pid, pid>>

(* next_pid++ under the lock.                                              *)
Increment(t) ==
    /\ pc[t] = "increment"
    /\ next_pid' = next_pid + 1
    /\ pc' = [pc EXCEPT ![t] = "release"]
    /\ UNCHANGED <<owner, depth, pid>>

(* lock_release(&pid_lock).                                                *)
Release(t) ==
    /\ pc[t] = "release"
    /\ PidLock!Release(t)
    /\ pc' = [pc EXCEPT ![t] = "return"]
    /\ UNCHANGED <<next_pid, pid>>

(* return next_pid, read after the lock was released.                     *)
Return(t) ==
    /\ pc[t] = "return"
    /\ pid' = [pid EXCEPT ![t] = next_pid]
    /\ pc' = [pc EXCEPT ![t] = "done"]
    /\ UNCHANGED <<next_pid, owner, depth>>

Next == \E t \in Callers : Acquire(t) \/ Increment(t) \/ Release(t) \/ Return(t)

Spec == Init /\ [][Next]_vars

-----------------------------------------------------------------------------
TypeOK ==
    /\ next_pid \in Nat
    /\ pc \in [Callers -> {"acquire", "increment", "release", "return", "done"}]
    /\ pid \in [Callers -> Nat]

(* spec.md 3: a task id is "process-wide unique, monotonically assigned":  *)
(* two calls of allocate_pid that have returned never got the same pid.    *)
UniquePids ==
    \A s, t \in Callers :
        s # t /\ pc[s] = "done" /\ pc[t] = "done" => pid[s] # pid[t]

=============================================================================
