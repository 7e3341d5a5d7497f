---------------------------- MODULE MCThreadSync ----------------------------
(* Model values and bounds for checking ThreadSync with TLC.               *)
EXTENDS ThreadSync

CONSTANTS m, i, w1, w2, w3

(* Three lock clients let two of them queue on the semaphore at once, so   *)
(* the order of the waiters list matters; two are enough for the liveness *)
(* runs, whose state graph grows faster.                                   *)
MCWorkers3 == {w1, w2, w3}
MCWorkers2 == {w1, w2}

(* Short slices keep preemption inside critical sections frequent; one    *)
(* worker gets a longer slice so that the rotation is not symmetric.      *)
MCPrio == [t \in Tasks |-> IF t = w2 THEN 2 ELSE 1]

=============================================================================
